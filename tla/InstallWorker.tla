---------------------------- MODULE InstallWorker ----------------------------
(***************************************************************************)
(* do_installation of setup.py, the thread that installs, together with    *)
(* GluuProgress, through which it tells the screen how far it is.  The      *)
(* screen is not here: ShowProgress and InstallStepsForm extend this module *)
(* with the thread that empties the queue.                                 *)
(*                                                                         *)
(* GluuProgress.services is one Python list shared by both threads: the    *)
(* worker appends to it and, at the end, walks it to restart the services, *)
(* while the screen may insert into it.                                    *)
(***************************************************************************)
EXTENDS Naturals, Sequences

CONSTANTS
    Registered,   \* the installers in the order they registered themselves
    Runs,         \* what a run installs: [wanted |-> names, script |-> steps]
    Pauses,       \* how many looks of the screen fit in one time.sleep(2)
    GSA           \* TRUE when the text user interface is on

Kinds == {"SERVICE", "APPLICATION"}
Entry(name, kind) == [name |-> name, kind |-> kind]

\* A step of the installation up to post_install: a message, or the late
\* registration of the installer of Gluu itself.
Message(name)  == [op |-> "progress", name |-> name]
Register(name) == [op |-> "register", name |-> name]

Names == { Registered[i].name : i \in DOMAIN Registered }
ScriptNames == UNION { { r.script[i].name : i \in DOMAIN r.script } : r \in Runs }
PostSetup == "post-setup"
COMPLETED == "COMPLETED"
ERROR     == "ERROR"

ASSUME RegisteredAssumption ==
    Registered \in Seq([name : STRING, kind : Kinds]) /\ PostSetup \in Names
ASSUME RunsAssumption ==
    \A r \in Runs : /\ r.wanted \subseteq Names
                    /\ r.script \in Seq([op : {"progress", "register"}, name : STRING])
\* Every installer registers once, under a name of its own.  No name is a word
\* the queue gives a meaning to, and none is taken for a place of the worker.
ASSUME NamesAssumption ==
    /\ \A i, j \in DOMAIN Registered : Registered[i].name = Registered[j].name => i = j
    /\ (Names \cup ScriptNames) \cap {"", COMPLETED, ERROR} = {}
    /\ Names \cap {"script", "saved", "starting", "completed", "raised", "exited"} = {}
ASSUME PausesAssumption == Pauses \in Nat
ASSUME GSAAssumption == GSA \in BOOLEAN

VARIABLES
    wanted,    \* the registered services this run installs
    script,    \* its steps
    services,  \* GluuProgress.services
    queue,     \* the messages the screen has not read
    pc,        \* where do_installation is
    step,      \* the next step of the script
    index,     \* the position of the iterator of start_services
    asleep,    \* looks of the screen until a time.sleep(2) is over
    restarts   \* how often each service was stopped and started

workerVars == <<wanted, script, services, queue, pc, step, index, asleep, restarts>>

-----------------------------------------------------------------------------
(* GluuProgress.                                                           *)

\* before_start: the entries of services this run does not install go away.
BeforeStart(w) ==
    LET kept[n \in 0..Len(Registered)] ==
            IF n = 0 THEN <<>>
            ELSE IF Registered[n].name \in w \cup {PostSetup}
            THEN Append(kept[n - 1], Registered[n])
            ELSE kept[n - 1]
    IN  kept[Len(Registered)]

Send(m) == queue' = Append(queue, m)

WorkerInit ==
    /\ \E r \in Runs : wanted = r.wanted /\ script = r.script
    /\ services = BeforeStart(wanted)
    /\ pc = "script"
    /\ step = 1
    /\ index = 0
    /\ asleep = 0
    /\ restarts = [n \in Names |-> 0]

-----------------------------------------------------------------------------
(* do_installation up to post_install.                                     *)

ShowStep ==
    /\ pc = "script" /\ step \in DOMAIN script
    /\ script[step].op = "progress"
    /\ Send(script[step].name)
    /\ step' = step + 1
    /\ UNCHANGED <<wanted, script, services, pc, index, asleep, restarts>>

\* GluuInstaller.initialize registers itself after before_start.
RegisterLate ==
    /\ pc = "script" /\ step \in DOMAIN script
    /\ script[step].op = "register"
    /\ services' = Append(services, Entry(script[step].name, "APPLICATION"))
    /\ step' = step + 1
    /\ UNCHANGED <<wanted, script, queue, pc, index, asleep, restarts>>

-----------------------------------------------------------------------------
(* post_install and start_services.                                        *)

\* Mistake: the calls of time.sleep(2) are taken for leftovers and removed.
NoPause == 0

Pause == Pauses

\* Mistake: completion is announced before the services are restarted.
SaveAndAnnounce ==
    /\ pc = "script" /\ step > Len(script)
    /\ Send(COMPLETED)
    /\ asleep' = Pause
    /\ pc' = "saved"
    /\ UNCHANGED <<wanted, script, services, step, index, restarts>>

SaveProperties ==
    /\ pc = "script" /\ step > Len(script)
    /\ Send(PostSetup)
    /\ asleep' = Pause
    /\ pc' = "saved"
    /\ UNCHANGED <<wanted, script, services, step, index, restarts>>

PostInstallTasks ==
    /\ pc = "saved" /\ asleep = 0
    /\ pc' = "starting"
    /\ index' = 0
    /\ UNCHANGED <<wanted, script, services, queue, step, asleep, restarts>>

Excluded == {"opendj", "couchbase-server"}
Restartable(s) == s.kind = "SERVICE" /\ s.name \notin Excluded

\* Mistake: the excluded services are waited for instead of passed over.
PassOverStuck ==
    /\ pc = "starting" /\ index < Len(services)
    /\ ~Restartable(services[index + 1])
    /\ index' = IF services[index + 1].name \in Excluded THEN index ELSE index + 1
    /\ UNCHANGED <<wanted, script, services, queue, pc, step, asleep, restarts>>

PassOver ==
    /\ pc = "starting" /\ index < Len(services)
    /\ ~Restartable(services[index + 1])
    /\ index' = index + 1
    /\ UNCHANGED <<wanted, script, services, queue, pc, step, asleep, restarts>>

\* The iterator has already moved on when the loop body sleeps.
AnnounceStart ==
    /\ pc = "starting" /\ index < Len(services)
    /\ Restartable(services[index + 1])
    /\ Send(PostSetup)
    /\ asleep' = Pause
    /\ pc' = services[index + 1].name
    /\ index' = index + 1
    /\ UNCHANGED <<wanted, script, services, step, restarts>>

StopAndStart ==
    /\ pc \in Names /\ asleep = 0
    /\ restarts' = [restarts EXCEPT ![pc] = @ + 1]
    /\ pc' = "starting"
    /\ UNCHANGED <<wanted, script, services, queue, step, index, asleep>>

\* do_installation returns; on the console the program then sleeps once more.
Complete ==
    /\ pc = "starting" /\ index = Len(services)
    /\ Send(COMPLETED)
    /\ asleep' = Pause
    /\ pc' = "completed"
    /\ UNCHANGED <<wanted, script, services, step, index, restarts>>

-----------------------------------------------------------------------------
(* Any step may fail.                                                      *)

Working == pc \notin {"completed", "raised", "exited"}

\* Mistake: the exception is only logged.
RaiseUnreported ==
    /\ Working /\ asleep = 0
    /\ pc' = "raised"
    /\ UNCHANGED <<wanted, script, services, queue, step, index, asleep, restarts>>

\* An exception reaches the handler of do_installation, which tells the form
\* of the wizard; logIt(..., fatal) then ends the thread.
Raise ==
    /\ Working /\ asleep = 0
    /\ pc' = "raised"
    /\ IF GSA THEN Send(ERROR) ELSE UNCHANGED queue
    /\ UNCHANGED <<wanted, script, services, step, index, asleep, restarts>>

\* An installer calls logIt(..., fatal) or sys.exit itself.  SystemExit is no
\* Exception, so the handler of do_installation does not see it.
SysExit ==
    /\ Working /\ asleep = 0
    /\ pc' = "exited"
    /\ UNCHANGED <<wanted, script, services, queue, step, index, asleep, restarts>>

Proceed ==
    \/ ShowStep
    \/ RegisterLate
    \/ SaveProperties
    \/ PostInstallTasks
    \/ PassOver
    \/ AnnounceStart
    \/ StopAndStart
    \/ Complete

Fail == Raise \/ SysExit

Outcome ==
    CASE pc = "completed" -> "completed"
      [] pc \in {"raised", "exited"} -> "failed"
      [] OTHER -> "running"

WorkerTypeOK ==
    /\ \E r \in Runs : wanted = r.wanted /\ script = r.script
    /\ services \in Seq([name : Names \cup ScriptNames, kind : Kinds])
    /\ queue \in Seq(Names \cup ScriptNames \cup {COMPLETED, ERROR})
    /\ pc \in Names \cup {"script", "saved", "starting", "completed", "raised", "exited"}
    /\ step \in 1..(Len(script) + 1)
    /\ index \in 0..Len(services)
    /\ asleep \in 0..Pauses
    /\ restarts \in [Names -> Nat]
=============================================================================
