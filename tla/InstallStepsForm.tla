-------------------------- MODULE InstallStepsForm --------------------------
(***************************************************************************)
(* The installation under the wizard: the worker is a daemon thread started *)
(* by the last form of setup_app/utils/tui.py, and the main thread polls    *)
(* the queue, one message at a time, whenever it waits for a key.  Nothing  *)
(* else of the worker reaches the form, and the program ends when the form  *)
(* closes.                                                                 *)
(***************************************************************************)
EXTENDS InstallWorker

CONSTANT Visits    \* at most so many presses of Next on ServicesForm

ASSUME FormAssumption == GSA = TRUE /\ Visits \in Nat /\ "gluu" \in ScriptNames

VARIABLES
    form,      \* "polling" or "closed"
    shown,     \* the dialog the user saw: "none", "Completed" or "ERROR"
    process    \* "alive" or "ended"

formVars == <<form, shown, process>>
vars == <<workerVars, formVars>>

\* Each press of Next on ServicesForm has put a message of the memory
\* calculation on the same queue.
Init ==
    /\ WorkerInit
    /\ \E n \in 0..Visits : queue = [i \in 1..n |-> "gluu"]
    /\ form = "polling"
    /\ shown = "none"
    /\ process = "alive"

DialogOf(m) ==
    CASE m = COMPLETED -> "Completed"
      [] m = ERROR -> "ERROR"
      [] OTHER -> "none"

\* Mistake: the form is left on the screen after the dialog of an error.
PollStaysOnError ==
    /\ form = "polling" /\ queue # <<>>
    /\ queue' = Tail(queue)
    /\ shown' = DialogOf(Head(queue))
    /\ form' = IF shown' = "Completed" THEN "closed" ELSE "polling"
    /\ UNCHANGED <<wanted, script, services, pc, step, index, asleep, restarts, process>>

\* do_while_waiting: a message that is not the last only moves the bar.
Poll ==
    /\ form = "polling" /\ queue # <<>>
    /\ queue' = Tail(queue)
    /\ shown' = DialogOf(Head(queue))
    /\ form' = IF shown' = "none" THEN "polling" ELSE "closed"
    /\ UNCHANGED <<wanted, script, services, pc, step, index, asleep, restarts, process>>

\* The Quit button, whatever the worker is doing.
Quit ==
    /\ form = "polling"
    /\ form' = "closed"
    /\ UNCHANGED <<workerVars, shown, process>>

\* GSA.run returns and the program ends, the daemon thread with it.
Leave ==
    /\ form = "closed" /\ process = "alive"
    /\ process' = "ended"
    /\ UNCHANGED <<workerVars, form, shown>>

Clock ==
    /\ process = "alive" /\ asleep > 0
    /\ asleep' = asleep - 1
    /\ UNCHANGED <<wanted, script, services, queue, pc, step, index, restarts, formVars>>

Worker == process = "alive" /\ Proceed /\ UNCHANGED formVars
WorkerFails == process = "alive" /\ Fail /\ UNCHANGED formVars

Next == Worker \/ WorkerFails \/ Clock \/ Poll \/ Quit \/ Leave

\* Both threads run and time passes; nobody has to press Quit.
Spec == /\ Init /\ [][Next]_vars
        /\ WF_vars(Worker) /\ WF_vars(Clock) /\ WF_vars(Poll) /\ WF_vars(Leave)

-----------------------------------------------------------------------------
(* Properties.                                                             *)

\* Types; once a dialog was shown the form is closed.
TypeOK ==
    /\ WorkerTypeOK
    /\ form \in {"polling", "closed"}
    /\ shown \in {"none", "Completed", "ERROR"}
    /\ process \in {"alive", "ended"}
    /\ shown # "none" => form = "closed"

\* The dialog is never shown before the installation has ended and says how it
\* ended: the form implements InstallReport.
Report == INSTANCE InstallReport WITH outcome <- Outcome, report <- shown
ImplementsReport == Report!Spec

\* An installation that completed, or that an exception ended, is reported
\* unless the user quits first.
EndIsReported == pc \in {"completed", "raised"} ~> shown # "none" \/ form = "closed"

=============================================================================
