# Verification of the Gluu Community Edition setup

`setup.py` installs the Gluu server on a machine, or adds services to a machine that has it. With it
come the scripts the installed server runs to authenticate people, and those that bring the data of
an older server over. This directory holds TLA+ models of their logic, the configurations that check
them with TLC, and proofs checked by TLAPS. Paths below are relative to the repository (`src/` left
out).

## The system

| Component | State it keeps | Operations | Talks to |
|---|---|---|---|
| Driver `setup.py` | `Config.installed_instance`, `addPostSetupService`, the installers in a fixed order | choose what to install, `prepare_for_installation`, `install_services`, `post_install`, `start_services` | everything |
| Wizard `utils/tui.py` | the form on the screen, the check boxes, `services_before_this_form`; writes `Config` | Next, Back and Quit on each form; the last form starts the installing thread and polls its queue | `Config`, `check_properties`, the queue |
| Console prompts `utils/properties_utils.py` | `Config` | prompts, `load_properties`, `check_properties`, `set_persistence_type` | `Config` |
| Arguments `setup_options.py`, `utils/arg_parser.py` | the initial `Config` | `get_setup_options` | `Config` |
| Progress `utils/progress.py` | `GluuProgress.services` (one list shared by two threads), the queue, the table | `register`, `before_start`, `progress`; the thread `ShowProgress` | driver, installers |
| Installers `installers/*.py` | files of a service, its entries, its switches | `start_installation` (template method), `installed()`, `update_backend`, `start`, `stop` | `DBUtils`, the file system |
| Collected properties `utils/collect_properties.py` | `Config` of an installed machine | `collect()` | `gluu.properties`, the database |
| Database layer `utils/db_utils.py` | the entries in LDAP, SQL, Spanner or Couchbase | `import_ldif`, `enable_service`, `set_oxTrustConfApplication`, `add_client2script`, `delete_dn` | the database |
| File helpers `utils/setup_utils.py` | files and their numbered backups | `backupFile`, templates, users | the file system |
| Memory `installers/jetty.py` | none | `calculate_aplications_memory` | `Config` |
| Outer installer `gluu_install.py`, `install.py` | the installation tree | download, upgrade, uninstall | the file system |
| Person authentication scripts `static/extension/person_authentication/*.py` | attributes of the one script object, parameters of the session, the entries of people | `init`, `prepareForStep`, `authenticate`, `getNextStep`, `getCountAuthenticationSteps`, `getExtraParametersForStep` | the server that calls them, services of second factors, applications on phones |
| Casa: `person_authentication/Casa.py` and the plugins `static/casa/scripts/*.py` | the loaded plugins, parameters of the session, the trusted devices of a person | the same methods; the plugins are called by `Casa.py` for their method | the server, the plugins' services |
| Migration scripts `static/scripts/export*.py`, `import*.py` | the backup folder, the working folder, the directory, its schema and the files of the new server | a list of steps each, run by hand on the old and the new server | the directory server, the web applications |

`PROJECT.json` lists the rest: key stores, test data, schema tools, scripts of other kinds, operator
tools, vendored code.

What is hard here:

* **One mutable `Config`, many visits.** The forms of the wizard can be walked in any order and as
  often as the user likes, and every visit leaves something in `Config`, also a press of Next that
  was refused. What is installed is the residue of all visits. Correct means that the residue
  describes one consistent installation.
* **Two threads and one list.** The progress table inserts rows in the list that `start_services`
  is iterating over, reads one message each 0.15 s, and is waited for with `time.sleep(2)`. Correct
  means that each service is restarted once and the screen tells the truth about the end.
* **Threads that end without a word.** `sys.exit` in the worker is not an `Exception`.
* **Runs that fail, and runs that follow.** A run can die between any two steps of any installer,
  and the next one judges by files and entries what is there. Correct means that nothing is
  imported twice unasked, nothing is switched on without its entries, and what a service writes
  into another's settings is there before it is taken for installed.
* **Identifiers made up on the way, and four databases.** Clients, resources and scopes get random
  identifiers that several entries mention. A later run has only searches to find them again, and
  each operation of `DBUtils` is written four times, for LDAP, SQL, Spanner and Couchbase. Correct
  means that a repeated installation finds what is there, that nothing names an entry that is
  missing, and that the changes of others survive, in each of the four.
* **Methods that are called one at a time.** An authentication script is one object for all logins;
  what one request leaves for the next survives only where the script says so, and three methods
  decide together which page comes next. Correct means that nobody is let in without the factors
  the configuration asks for, what another login does turns nobody away but in the two ways a
  one-time code and a count of failures bring with them, and each request is answered.
* **A second factor that may be skipped.** Casa remembers browsers and places, and takes whatever
  method a page posts. Correct means that each skip was earned by a second factor passed before, and that
  who has a device is not taken for one who has none.
* **Two directories and a merge.** A migration empties the new directory to fill it with a merge
  of the two, while applications may go on writing, and can be interrupted at each step and run again. Correct means
  that an import that ends has brought the old entries and kept the new ones.

## Modules

| Module | Models | Extended or used by |
|---|---|---|
| `SetupWizard` | the forms of `tui.py` and `check_properties` | `MCSetupWizard`, `SetupWizard_proofs` |
| `InstallReport` | abstract: what the user is told about the end of an installation | refined by the next two |
| `InstallWorker` | `do_installation` as a thread and `GluuProgress` | extended by the next two |
| `ShowProgress` | the table thread of the console, composed with `InstallWorker` | `MCShowProgress`, `InstallScreens_proofs` |
| `InstallStepsForm` | the last form of the wizard, composed with `InstallWorker` | `MCInstallStepsForm`, `InstallScreens_proofs` |
| `InstallPipeline` | successive runs of `setup.py` over one machine | `MCInstallPipeline`, `InstallPipeline_proofs` |
| `DirectoryStore` | what the installers of SCIM and Passport and the test data leave in the database, call by call | checked directly, `DirectoryStore_proofs` |
| `AuthenticationSession` | the state all authentication scripts share and the forms their answers take | the next six, `CasaPlugins`, `AuthenticationSession_proofs` |
| `PasswordScripts` | Basic, Basic with lock, Yubicloud | `DeviceScripts` |
| `DeviceScripts` | U2F, FIDO2, Duo, UAF, ThumbSignIn | `CodeScripts` |
| `CodeScripts` | Twilio, SMPP, OTP | `SuperGluuScript` |
| `SuperGluuScript` | Super Gluu, with push notifications | `CertificateScript` |
| `CertificateScript` | certificates and reCAPTCHA | `PassportScripts` |
| `PassportScripts` | Passport and SAML Passport | `PersonAuthentication` |
| `PersonAuthentication` | the server that calls the script of a run; the specification and the properties of all fifteen | `MCPersonAuthentication`, `PersonAuthentication_proofs` |
| `CasaPlugins` | the eight `casa-external_*` modules | `CasaAuthentication` |
| `CasaAuthentication` | `Casa.py` calling the plugins, and the server calling it | `MCCasaAuthentication`, `CasaAuthentication_proofs` |
| `MigrationServers` | the two servers, the backup, the merge, and what the scripts have in common | the next seven |
| `Migration23` `Migration24` `Migration244` `Migration30` `Migration2431` `Migration3031` | the steps of the pair of scripts of that name (244 imports what `export24` made) | `Migration`, by `INSTANCE` |
| `Migration` | a migration by each pair: export, import, interruptions, runs repeated | `MCMigration`, `Migration_proofs` |

The modules hand over where the program does. `SetupWizard` ends at the form `InstallStepsForm`,
with `addPostSetupService` and the backend flags of `Config`. `InstallWorker` starts with the list
`before_start` makes of them. `InstallPipeline` starts a run with any set of services a form or the
prompts can leave. `DirectoryStore` looks into two of its installers and the test data, with the
same runs and failures but a step per call of the database. What Passport and Casa need in the
directory is what `DirectoryStore` and `InstallPipeline` install; the authentication modules begin
where a server with that configuration is running. `Migration` begins with a new server as
`InstallPipeline` leaves it. A definition whose comment starts with "Mistake:" is not part of a specification:
it is a plausible bug, and replacing the definition below it by the mistake makes TLC report the
property that guards against it (`PROJECT.json`, "mutants").

### SetupWizard

One action is one press of a button. `config` is the set of services whose install flag is true,
`present` (a history variable) what `installed()` found at the start, `locked` the class attribute
`services_before_this_form`, `enabled` the services whose `service_enable_dict` attributes were
set. The five backend variables are the fields of `Config`; `mappingLocations` is reduced to the set of
locations that occur, since all groups are mapped alike by the code that assigns them.

`nextButtonPressed` of `ServicesForm` is three actions for its three exits (nothing picked, Casa
refused, next form); all of them contain `RecordTicks`, the loop that writes the ticks before
anything is checked. `DBBackendForm` has one action per branch. Entering `ServicesForm` runs
`do_beforeEditing` inside the action that switches to it. Text fields and connection tests are
abstracted to whether the press goes through: a press that is refused without a change is a
stuttering step. The user can tick any set that the editable boxes allow.

The initial states are those the three modes really start in: a fresh machine with the backends
`get_setup_options` can produce, a loaded `setup.properties` with any saved installation, and an
installed machine with what `collect()` finds. `hybrid` is not among the last: `collect()` cannot get
past it (see the hazards).

Not modelled here: `DBBackendFormOld` and `StorageSelectionForm`, which no button reaches, the
profile `DISA_STIG`, whose list of backends and services is a subset, and `setup.properties` files
edited by hand.

### InstallWorker, ShowProgress, InstallStepsForm

The installation up to `post_install` is a script of messages (one run per element of `Runs`), with
the late registration of `gluu`. `post_install` and `start_services` are modelled statement by
statement: the iterator of the Python loop is the index of the next element of a list that may
grow, as Python does it. `time.sleep(2)` is a countdown of looks of the screen. Any step can raise
(`Raise`) or exit (`SysExit`).

`ShowProgress.Tick` is one turn of the loop of `ShowProgress.run`, reading the queue, moving the
spinner, inserting a row for an unknown name, drawing, and deciding whether to go on.
`InstallStepsForm.Poll` is one call of `do_while_waiting`; its queue starts with the messages that
the visits of `ServicesForm` have left there.

Both implement `InstallReport`: the dialog or the final line of the table appears at most once, not
before the end, and says what happened. The refinement maps `outcome` to the program counter of the
worker and `report` to what the screen has shown.

Three assumptions say which lists, runs and paces there are. `NamesAssumption`: an installer registers once, under
its own name, and no name is a word that the queue or the model gives a meaning to (`""`, `COMPLETED`, `ERROR`).
`PaceAssumption`: the worker is at most `MaxBacklog` messages ahead of the table while the table is drawn, and the
table reads that many in one `time.sleep(2)`. `LateAssumption`: Gluu's installer, the only one that registers
after `before_start`, has been named to the table `MaxBacklog` messages before; in `do_installation` the steps of java,
jetty, jython and node lie in between.

### InstallPipeline

The state has two halves: what is on the machine (`gluu_properties`, `base_ldif`, `files`,
`imported`, `enabled`, `oxTrustConf`, `oxAuthConf`) and what the program of the current run remembers. `Fail` is
possible between any two steps and forgets the second half. The stages of an installer are those of
`start_installation` and its overrides that leave something a later run or the server can see; the
table `StagesOf`, with a definition per installer, gives their order (`update_backend` of SCIM writes the settings
of oxTrust before it switches the service on; the IDP and Passport do it the other way round).
`UpdateOxAuth` is what `install()` of Casa and of the base of Radius write into what is oxAuth's: the class path in
`oxauth.xml`, two settings in its entry; `oxAuthConf` is the set of services that have done so. The base of Radius is
installed by the first run only, and not under the profile `DISA_STIG` (`Profile`); Casa is not offered twice.
So the stage has to come before the entries, which is `OxAuthPrepared`.

A later run starts only when `collect()` can read what it needs (`Collectable`); it is driven by the
console (prompts for what `installed()` does not see, plus `--install-...` arguments, plus the oxd
that Casa brings) or by the wizard. A step that fails half way is taken to be the same as one that
failed at its end, and services other than those `setup.py` installs through `install_services` are not
followed. `UpdateOxTrust` has the guard that the entry of oxTrust exists: when it does not, the code
raises, so the run can only `Fail`.

### DirectoryStore

The state is what a later run can find: `entries` (identifiers by what they identify), the part of
oxTrust's settings that names clients and resources, the `allowed_clients` properties of the two
policies, the enabled scripts and services. An identifier is the number of the run that made it
up, since a run makes up at most one for each purpose. `Config` is what the program knows; `Collect` is what
`collect()` puts there on an installed machine, including its search for the resource of Passport
under `ou=clients`. The test data install SCIM when it is missing, and make up the identifiers of Passport
when that is, which no entry then gets. `ScimCalls` and `PassportCalls` list the calls of `generate_configuration`,
`render_import_templates` and `update_backend` in order; `todo` holds those still to come, and
`Fail` may strike before each. A search returns one entry of several, the oldest or the newest, as the
databases promise no order.

An operation that DBUtils writes out per backend is one action per backend. Over LDAP
`add_client2script` is two actions, because it is two calls; `removed` is the value in the hands of the
program between them. What the backends do differently on purpose or not is left as it is and
named in the properties: Couchbase searches ignore the base of the search (`InReach`), Couchbase
imports overwrite, SQL appends a second `allowed_clients` when the client is listed already and
ignores `enable=False`.

Left out: `delete_dn`, the changes of single attributes in `import_ldif` (`changetype: modify`),
hybrid mappings, and the other installers, whose calls have the same forms. A call that the
database refuses is not told apart from a failure of the run before it; the code logs such answers and goes on.

### PersonAuthentication and the scripts

`script` says which of the fifteen scripts serves the logins of a behaviour, `conf` the names of the
configuration attributes it finds (complete, or with a mandatory one missing, which `init` refuses:
`Initialized`). `self` are the attributes of the script object that methods write. `session` holds
per login the stage of the request, the step, the working parameters (`work`), what stays in the
session for the next request (`attrs`), and as history what the person came through (`passed`) and
whether anything went wrong that is a reason to refuse (`fault`). `person` holds the entries and what
the people hold: applications with OTP keys, phones, devices.

A call of `prepareForStep` or `authenticate` is one action, except where the code lets another login
in between and the outcome depends on it: the count of invalid logins (`LockAuthenticate` reads, `ResetInvalidLogins`
and `CountInvalidLogin` write), the loading of FIDO2 metadata under a lock, and the OTP codes. There `OtpPress`
is the person who has the application make the next code, at any time, for any page or for none; `OtpSearch`
takes any code made so far and looks for an enrollment it belongs to; `OtpReplace` writes what was found
over an entry that another login may have written since, and adds a factor where the one it found is gone. A code from the
time is refused when it is the one in `oxOTPCache`. `taken` and `wrong` of an entry are
history: the logins that have had a code written, and how many wrong passwords were typed. `Proceed` is what the
server does with the answer: it asks `getNextStep`, `getCountAuthenticationSteps` and
`getExtraParametersForStep`, and keeps of the working parameters only what the last one names. This
server is not part of the repository; `Forward` is modelled from what the scripts rely on and is marked external.
The phone of Super Gluu approves at any time between two requests (`Approve`), also after the page has timed out.

`fault` is set by what goes wrong with the login itself only: a wrong password or code, a page cancelled or expired, a service
that fails. What another login does to it sets no fault: `CodeTaken` (it has had a code of the same application taken,
so that this one's is behind the entry, or is the one in the cache) and `AccountLocked` (enough wrong
passwords were typed) are told from the entry, and `RefusedForAKnownReason` names them.

A code of a message is the number of the try it was made for, a phone number the person it reaches, an OTP key a
moving factor in the entry and one in the application, and a code of it the factor it was made with. People type their own names; guessing the
password of somebody else is not considered. Audit mails, texts on pages and geolocation data in push
requests are left out.

### CasaAuthentication and CasaPlugins

What a call of a plugin comes to is a record: what it returned, the working parameters it set, what
it changed in session and entry. `First`, `Prepared`, `Second`, `Extra` and `Count` are the methods of
the plugin of a method, `Initialized` its `init`, which judges its properties by whether they are given and
usable. `CasaAuthentication` has the methods of `Casa.py` that call them: `getSuitableAcr`, the policy
(`determineSkip2FA`), the first step, `simulateFirstStep` when another method is chosen, the later steps
that write the list of trusted devices. `proved` is a history variable: with which browser, in which
place, a second factor was passed or enrolled. The answers of services (place, message, approval) are free.
The trusted list is read at step 1 and written at the last, so two logins of one person can write
over each other's.

The page of a plugin shows the methods the person has (`methods`), but `simulateFirstStep` takes any `alternativeMethod` that is posted,
as `Casa.py` does: of a loaded plugin, also one of which the person has nothing, or `"other"`, which stands for every name
without a plugin. U2F, FIDO2 and Super Gluu then start the registration of a device (`DevicePrepared`,
`SuperGluuPrepared`) and answer True when it is done (`Used`); `Enrolled` notes `"enrolled"` in `passed`, never
`"second"`. `"unoffered"` is noted when the person asked for such a method, or at the page of Super Gluu for the
registration of another phone.

Taken as given: what the plugins read later from their properties without a check. The Super Gluu
plugin is modelled in the two-step mode, without pushes (the same code as in `SuperGluuScript`).

### Migration

Each script is a sequence of the names of its steps (`export`, `migrate`) and one action per step,
as the `migrate` and `export` methods call them. `setting` are the releases of the two servers, the
directory servers, the answers of the operator and whether Shibboleth is there. An entry is a function
from attributes to the server its value comes from, one entry for each kind the scripts treat
differently, among them a UMA scope for access to SCIM or Passport (`uma_access`), which `import3031` leaves as the new server has
it, and the definition of the attribute `gluuStatus`, which `import2431` does not import; `Merged` and `OldEntryMap` are the merge of the
new and the old entry, and `Line` what becomes of the lines that are looked at once more: those of `oxType` are dropped, and
the line of the cache configuration becomes a constant without an end, which spoils the one after it. A step may fail as its code
lets it (a search that finds nothing, a service that does not stop, where the code only logs that),
the script may be interrupted between any two steps (`Interrupted`) and be run again with the services as they are or
restarted (`RunAgain`, `ImportAgain`), and until the web applications are stopped one of them may
store an entry (`ApplicationWrites`).

The import of a whole LDIF is one step between the emptying and the filling; in `import23` and
`import24`, which add entries one by one, the upload stops between two files. Copying files has no failures.
Faults of the scripts that the properties allow for, each visible in the model: `processPeople` of
`import244` drops the line it replaced; `import30` appends `custom.schema` again when it is run again;
a second run of `import3031` takes off the prefix `passport-` from migrated entries and shortens the
`site.ldif` of the backup once more; `import23` deletes the administrator of the new server also
when the backup has no people.

## Runs

| Run | Shows | Bounds |
|---|---|---|
| `setup_wizard` | five invariants and an action property of the residue of all visits, and types | four services, one per way a box is treated; a backend of each family; all three modes |
| `show_progress` | each wanted service restarted at most once; the end reached and truthfully reported | two runs (fresh, adding), 11 registered services, `Pauses` = 13, `MaxBacklog` = 5 |
| `install_form` | no dialog early or false, every end but `sys.exit` reported | two runs, `Pauses` = 2, up to 2 messages left from earlier forms |
| `install_pipeline` | what services need of each other, of files, entries and settings, over runs | 3 runs, 2 of which may fail, one service of each way of installing |
| `directory_store` | identifiers found again, no dangling references, lists of clients kept, installed services usable, changes of the administrator kept | 3 runs, 2 of which may fail; LDAP, MySQL, Spanner, Couchbase |
| `scim_resource_twice` | violated: SCIM has two resources after a repeated installation | LDAP, 2 runs, 1 failure |
| `authentication` | every demanded factor passed; nobody refused or locked out but for a named reason; OTP keys never ahead of the application; every request answered | all fifteen scripts, two logins of one person; of two people where the script object remembers something of a login (Twilio, and SAML Passport, whose methods are those of Passport with a `state` more); three logins of FIDO2; `MaxTries` = 2, `MaxInvalidLogins` = 2, `LookAhead` = 1, `MaxFactor` = 2 |
| `twilio_number` | violated: the code of one person goes to the phone of another | the same, Twilio only |
| `casa` | the second factor passed, its skip earned, or a device enrolled that the page had not offered; nobody refused without a reason | the plugins in four pairs, each complete and with one thing missing; three policies of the server, and people's own; one person, two logins, two browsers, two places |
| `casa_trusted` | violated: a browser is trusted after choosing a number only | Twilio and U2F |
| `migration` | old entries brought over, new entries kept, the client of the IDP known | all six imports, old releases 2.3 to 3.1.2, new ones 2.4.3 to 3.1.4, `MaxRuns` = 2 |
| `client_credentials` | violated: custom clients lose their grants | 2.4 to 3.1 |

Why the bounds are enough. In `SetupWizard` services are only told apart by the four treatments
(Shibboleth, oxd, Casa, any other), and nothing counts visits, so TLC explores visits of unbounded
number. `Pauses` = 13 is 2 s over 0.15 s. `MaxBacklog` = 5 states the pace: the steps of an installation
last seconds, the table reads seven messages a second, so the worker is never more than a few
messages ahead. This is an assumption about time, and `RestartedOnce` needs it; with `NoPause` in place of the sleeps TLC shows a service restarted twice. The rows of the
scripts are chosen so that the table inserts a row above the iterator (`gluu`, unknown at first) and
messages arrive in another order than the registrations (oxd and the IDP). Three runs in
`InstallPipeline` are a fresh one, one that repeats it after a failure, and one that adds. In
`DirectoryStore` the third run is what tells a search that finds the oldest entry from one that finds the
newest; PostgreSQL takes the branches of MySQL throughout.

In the authentication runs two logins are enough for each thing that is shared (the script object, an entry) but the lock of
FIDO2: there the first login loads the metadata, the second returns with the lock held, and a third waits. A
second try is what a repeated step and a late approval need; two invalid logins lock, so
that the loss of a count shows; two moving factors and a window of one let two logins find the same factor, with the
same code or with an older one, and write in either order. Of Passport the entry of the second person is fixed, as two people share only the script object. In
`casa` the second login starts with one of its two tries used, which leaves each of its steps
reachable; all three ways to be remembered (browser, place, both) occur, because the second login has
the same or another browser and place. In `migration` one entry per kind of treatment meets one with the same DN,
one with another DN and the same `oxId`, and none; two runs let a run follow an interrupted one and a
finished one.

`CHECK_DEADLOCK FALSE` is set because the programs end, the runs are used up, a run that cannot
update oxTrust stops once its failures are used up, and logins and migrations end.

### Fairness

Weak fairness on both threads, on the passing of time and on leaving the program: the operating
system schedules runnable threads, and none of these actions waits for anything but its guard.
Nothing has to fail, time out or be quit by the user. The worker has fairness as a whole and not per
action, which is enough because it is sequential.

In `PersonAuthentication` each login has weak fairness of `Serve`: a request that has arrived is worked on
by a thread of the server until it is answered. The person at the page and the phone have none. With this
`EveryRequestAnswered` holds of every request but one: the lock of the FIDO2 metadata is not released by a login that
finds them loaded (`Fido2ExternalAuthenticator.py:253-256`), so of three first logins at the same time the third waits for ever.
`LeftAtTheLock` is that state and no other: the metadata are loaded, the lock is held, and there is a third login at that
step; the run has three logins of FIDO2, so it is reached. With two logins nobody is left at the lock. Casa and the migration have no liveness property: their
requests wait for nothing, and the scripts' steps follow each other.

### What the runs refute

Four runs end in a counterexample against a line of the repository; `PROJECT.json`, "findings",
quotes the lines. In short: the UMA resource of SCIM is looked for where it is not, so that a
repeated installation adds a second one; `twilio2FA` keeps the number of one person in the object that
serves everybody; Casa takes the choice of a number for a second factor and trusts the browser; and
`import2431` adds the grant `client_credentials` to custom clients and overwrites it in the same step.

The other properties leave out by name what the code does not hold: `FactorOrEarnedSkip` is for people with
one mobile number at most, and lets a device that this login has enrolled stand for the second factor when the person asked for
a method or a registration the page did not offer, since Casa does not check what is posted.
`RefusedForAKnownReason` of the scripts names four faults (`BrokenByScript`: UAF
always fails in its second step, Super Gluu cannot register a new phone in one-step mode, the
number of Twilio, a SAML request without `state`) and two things another login can do (`CodeTaken`, `AccountLocked`), that of Casa
a request for what the page did not offer, a preferred method whose plugin is not
loaded, a person Stytch knows by another number, and the page of Super Gluu for who is not in its group.
`OldDataKept` leaves out entries the scripts skip (`Skipped`: the administrator, an appliance before 2.4, `gluuStatus` of
`import2431`), attributes they do not take (`NotTaken`, among them all of the UMA access scopes, the
cache configuration that `import3031` spoils, and the lines of `oxType`), and entries the
server rejects; `NewEntriesKept` leaves out runs interrupted between emptying and filling.

## Proofs

The modules ending in `_proofs` prove, for every value of the constants, what the passing runs of
`SetupWizard`, `ShowProgress`, `InstallStepsForm`, `InstallPipeline`, `DirectoryStore`,
`PersonAuthentication`, `CasaAuthentication` and `Migration` check on small ones. Each proof follows the same path: `IInv` is inductive (`Init => IInv`, one step per action,
stuttering), `Invariance` concludes `Spec => []IInv`, and each property follows from `IInv`. TLC has checked each `IInv` as an invariant too.

**SetupWizard.** Assumed: `Saml`, `Oxd` and `Casa` are services, `EnableAttrs` are services, `BackendList`
holds known backends, `Modes` known modes. The properties are not inductive, because they speak of
the last form only. `IInv` adds what the earlier forms have to preserve: which forms a mode can be on
(`FormsOfMode`), that on an installed machine locked and new services together account for
`config` (`ListsOfInstalled`), that Spanner is not chosen while Shibboleth is ticked unless the
backend is chosen again before the end (`SpannerWithoutSaml`), that some backend is always set
(`SomeBackend`), that the mapping points to what is set or will be recomputed (`MappingServed`), and
that storage of an installed machine is at a fixed point of `check_properties`
(`StorageOfInstalled`). The action property `PostSetupKeepsStorage` follows from that fixed point.

**InstallPipeline.** Assumed: the offered services are installers other than oxAuth, oxTrust and the
base of Radius; the bounds are naturals. `IInv` adds: a machine that was never installed is empty
(`Untouched`), a run on an installed machine has found the entries of oxAuth and oxTrust
(`CoreFound`), imported entries imply files (`FilesFirst`), everything before the current position
of the current run is done (`Progress`), what is ahead is not imported unless it is forced
(`StillToImport`), and a run begins at the first stage (`AtStart`). `ImportedAgainOnlyIfForced` rests on
`FilesFirst` and `StillToImport`: a service is asked for only if its file is missing, and then its
entries are missing too. `OxAuthPrepared` is inductive with `Progress`: at the stage that imports the entries, the stages before
it are done.

**DirectoryStore.** Assumed: `Backends` are known backends; the bounds are naturals. All seven
properties of the run are proved, in three stages.

The first is about sequences of calls only. `Ordered(q, C, K)` says that in `q` an identifier is
looked for before its entry is imported, and an entry is imported before a setting or a policy names it,
where `C` and `K` are what is known and what is there already. It holds of the calls of each job (`ScimOrder`,
`PassportOrder`, `TestDataOrder`), of one sequence followed by another (`Concat`), hence of a run with any
jobs (`RunOrder`), and of what remains after the first call (`AfterHead`).

The second has the invariant. The properties alone are not inductive, because they do not say what the calls
still to come will do. `IInv` adds that they are in order (`Calls`, with the scopes of SCIM made up once); that
an identifier the program knows is the one in the directory, if there is one (`Agreement`, without which
an import might add a second entry); that what a policy names has its entry, also in the value that is
just being changed (`SoundLists`); that only scripts have entries without an identifier (`MadeUp`);
and that nothing is there before the first run (`Untouched`). `TypeCorrect`, `OneClientEach`,
`NothingDangles`, `IdsStable` and `EditsSurvive` follow.

The third, about the lists of the policies, needs two invariants more. `Halfway`: a value is taken out of a policy only over LDAP,
and only where the same call is to put it in again; from it `ClientsKept`. `Served`: what a picked service
needs has been done or is still among the calls; at the end of a run none is left, hence `UsableAtTheEnd`.

**PersonAuthentication.** Assumed: `None` is no login, person, number, truth value or text the scripts
write; `MaxTries` and `MaxInvalidLogins` are at least 1; `Scripts` are known scripts, and a login of
a script is of one person; the bounds `LookAhead` and `MaxFactor` are naturals, the latter at least 1. Any number of logins
and people, every script and every configuration (`Attributes`) are covered, and all five invariants of the run are proved.

A script decides in one request and acts on the decision in another. In between the
decision lies in a note: a working parameter, a session attribute, a field of the script object, of the
entry of the person. None of the properties is inductive, because they speak of the end of a login, or of
its last request, and say nothing of these notes. `IInv` says what each is worth. `EntriesInv` is
what the logins share: the settings that imply others (`Object`: reCAPTCHA only with a
credentials file), how many invalid logins an entry counts and that each has happened
(`EntryCounts`), and that an OTP key in an entry is in the application too and not ahead of it (`OtpKeys`).
`LoginInv` has a part per script, for instance: a count of two steps is noted only for who is in
the Duo group (`DeviceSecond`); a code on the page of SMPP is the one that was sent (`CodeSecond`); a login that
enrolls an OTP key has it in the application by step 3 (`OtpLogin`); a code that was found right and is yet to be
written is one the application has made, and no code of a login was taken that did not end it, unless it met a fault (`OtpTyped`); a
certificate that waits for step 3 has passed its check (`CertLogin`); whoever is on step 2 of Super
Gluu has a method, and has a device if the method or an approval says so (`SuperGluuTwoStep`).
A step of one login must not take from another what its notes are about: `Kept` (groups, keys and
devices stay, failures and codes made are never fewer) and `NotTaken` (what a login has had taken is of its own doing). Each method has a
step lemma that its own part holds after it, `LoginKept` carries all parts of the other logins across, and
`OneForAll` joins the two. `FactorsPassed`, `RefusedRightly`, `KeysHeld`, `LockEarned` and
`TypeCorrect` then follow at once.

**CasaAuthentication.** Assumed: `SessionAssumption` as before, and `DeviceAssumption`: what is mapped to
plugins are the eight known methods, browsers of telephones are browsers, what entries trust at first are known
browsers and places, and a login begins with a try left. Any number of logins, people, browsers and places,
every choice of plugins and every properties of theirs, every policy; all three invariants of the run
are proved.

A skip depends on what other logins wrote in the entry, and a page on what a plugin noted two requests
before, so no property is inductive. `IInv` adds three things. `Vouched`: behind each browser and
place that an entry trusts stands a second factor that was passed there, as far as the person's policy looks
at it. The list is computed in step 1 and written after the last step, perhaps over one that another login wrote in
between; so `Pending` says of the list a login carries that it is vouched for by what was passed so
far and by the factor this login is about to pass. `Noted` and `Received`: whoever is
on a later step is there with a loaded method that the person has, unless this login asked for what the page did not offer, the plugin has left what its page and
its judgement need (`randCode`, `phone_id`, a method of Super Gluu, and `numbers` for who has two), and the
code on the telephone is the one that will be compared. A change of method simulates step 1 of another
plugin; `WellInv` says that until the server has gone to step 2 the notes of the request are those of
the new method, and `Taken` that what `getExtraParametersForStep` names for it is enough to keep them:
this is where a name forgotten there would break the proof. `WellInv` also says who may end in
step 1: the policy lets the person off, or the plugin counts one step because the person is not in its group (`Counted`).
`Regular` says that a registration is only prepared for who asked for more than the page offers: a plugin whose method the
person has finds the device. `Lasting` is what no login takes from another (methods, policy, places of passed factors); with it `LoginKept`
carries the notes of the others across. `FactorEarned` is, like the property, for people of one mobile number at most:
with two, choosing the number already counts as a factor, and the run `casa_trusted` shows what follows.

`AuthenticationSession_proofs` holds what the last two proofs keep needing of the forms of an answer (`Answer`, `Refuse`,
`Show`, `Become`): which fields of which login change, and to what.

**Migration.** Assumed: `MigrationAssumption`, that is, the releases have scripts, versions are natural numbers, and a
script is run at least once. Every pair of scripts, every pair of versions that exists (`Real`), every setting and
any number of runs are covered; all four invariants of the run are proved.

The properties speak of an import that is done. What makes them true happens some ten steps earlier, in one
of two ways: four scripts export the entries of the stopped directory, merge them with the backup and fill
the directory again; two read the running directory, write a file of changes per entry and send the
files in two halves. The first group of lemmas says what one such step makes of the entries: a merge brings everything the
import takes of an entry (`MergedSound`, `MergeKeeps`), under the name `processBackupData` gives it, once per
script (`Merge244` to `Merge3031`), and the lines looked at once more lose nothing but what is `NotTaken` (`Lost`, `Follows`); a file holds what differs (`ChangesNeeded`). What sending does is a fold over
a set of files in no particular order; that whatever order it takes only grows what is stored and that a
sent file is stored or rejected (`UploadGrows`) is shown by looking at a smallest set of files for which it
fails (`LeastSubset`). Then every step of each script is one of thirteen kinds (`AnyStep`;
`Any23` to `Any3031`), most of them quiet, and the rest of the proof no longer asks which script it is.

`IInv` follows the entries from place to place. `Exporting`: while the export runs nothing has happened to the new server.
`Sounds`: what an entry can hold, wherever it is kept; without it a merge could meet a value of the new server in
the backup. `Keeping`: the entries to keep are in the directory, in the export of it or in the merge,
whichever the script will use next, and from stopping to filling no application can store anything
since the directory is stopped; without this an entry stored after the export would be lost. `Merging`, `Sending` and `Adding`: for
each place, that the entries of the backup are merged, stored or still covered by a file to be sent, also
between the two halves and when the script starts over. `Resolving`: the client of Shibboleth that the script
will write is in the directory before it is written. An interruption moves a script back to step 1, so each part
has to hold there from what the part says of any place; that is why `~run.lost` is in the property and in `Keeping`.

**The two screens.** `InstallScreens_proofs` proves for any list of installers, any set of runs and any numbers
the three assumptions above admit (for the form: any number of earlier messages, and a run that names Gluu) that the types
hold, that `RestartedOnce` holds, and that console and form implement `InstallReport`. What the screens share, `before_start`
and the steps of the worker, is proved once; the form is taken as an instance with `GSA` true.

`RestartedOnce` says nothing of the table, yet depends on it: a row inserted at or before the iterator makes it meet a
service twice, and the spinner may insert whenever it reads a name it does not know. The proof is that it knows all
names by then. `Messages`: while the first pause lasts, at most as many messages are unread as looks are left of it,
so none is left when the walk begins, and during the walk only `post-setup` is sent. `Rows`: all the table has read has a
row, among those it counts. `Restarts`: a service has been restarted when the iterator has passed its row
and is not waiting at it, which with `Listed` (a service has one row, a wanted service has a row) gives both
halves of the property. `Late` is for the registration of Gluu, which appends a row without counting it: the name is
read or still in the queue, the pace leaves no room for it in the queue, so a counted row of that name exists and the
spinner never stops on the uncounted one. `ListedStays` shows that neither insertion nor
registration loses or doubles a service, given where each old row has gone (`Shifted`).

Only model-checked: the liveness properties (`Ends`, `EndIsReported`, `EveryRequestAnswered`), which are out of
the prover's reach.

## Not modelled

* Of `DBUtils`: `delete_dn`, changes of single attributes, hybrid mappings. Of `setup.properties`: its form in the file; only the states it leaves. The prompts for
  names and certificates are input.
* `calculate_aplications_memory` and the numbered backups of `backupFile`: single computations without
  interleavings, best tested.
* `gluu_install.py`, `install.py`: calls of package tools.
* `openldap2opendj.py`, `change_gluu_host.py`, `ldap2cb.py` and the tools of operators: procedures by hand, menu item by
  menu item; the exports and merges they share with `import3031.py` are modelled there.
* Scripts of other kinds (dynamic scopes, introspection, UMA policies, CIBA, Radius): single calls that
  answer from their arguments.
* Key stores and certificates (calls of external tools), schema generators, templates, vendored libraries.
