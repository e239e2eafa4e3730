---------------------------- MODULE ShowProgress ----------------------------
(***************************************************************************)
(* The installation on the console: the worker is the main thread and the  *)
(* daemon thread ShowProgress of setup_app/utils/progress.py draws a table  *)
(* of the services, one look at the queue every 0.15 seconds.               *)
(*                                                                         *)
(* Pace.  The steps of the installation unpack archives, start servers and *)
(* import data, each far longer than 0.15 seconds, so the worker is at most *)
(* MaxBacklog messages ahead of the table while the table is drawn.        *)
(***************************************************************************)
EXTENDS InstallWorker

CONSTANT MaxBacklog

ASSUME PaceAssumption == GSA = FALSE /\ MaxBacklog \in 1..Pauses

\* The installer of Gluu is named to the table at least MaxBacklog messages
\* before it registers itself.
ASSUME LateAssumption ==
    \A r \in Runs : \A i \in DOMAIN r.script : r.script[i].op = "register" =>
        \E j \in DOMAIN r.script :
            /\ j + MaxBacklog <= i /\ r.script[j].name = r.script[i].name
            /\ \A k \in j..(i - 1) : r.script[k].op = "progress"

VARIABLES
    display,             \* the thread: "drawing", "finished" or "timed out"
    data,                \* the last message it read, "" when none
    current_service,     \* the row with the spinner
    last_completed,
    number_of_services,
    tableDone,           \* the last table drawn shows every row finished
    process              \* "alive" or "ended", and the daemon with it

displayVars == <<display, data, current_service, last_completed, number_of_services,
                 tableDone>>
vars == <<workerVars, displayVars, process>>

Init ==
    /\ WorkerInit
    /\ queue = <<>>
    /\ display = "drawing"
    /\ data = ""
    /\ current_service = 0
    /\ last_completed = 0
    /\ number_of_services = Len(services)
    /\ tableDone = FALSE
    /\ process = "alive"

-----------------------------------------------------------------------------
(* The table.                                                              *)

\* Mistake: the rows are counted from 1.
RowsFromOne(name) == { i \in DOMAIN services : services[i].name = name }

\* Rows are counted from 0; the first row of a name, as the loop finds it.
RowsOf(name) == { i \in 0..(Len(services) - 1) : services[i + 1].name = name }
FirstRowOf(name) == CHOOSE i \in RowsOf(name) : \A j \in RowsOf(name) : i <= j

InsertAt(s, i, e) == SubSeq(s, 1, i) \o <<e>> \o SubSeq(s, i + 1, Len(s))

\* Mistake: the row of an unregistered name is not counted.
LookUncounted(m) ==
    IF m = "" THEN UNCHANGED <<services, current_service, last_completed, number_of_services>>
    ELSE IF RowsOf(m) # {} THEN
        /\ current_service' = FirstRowOf(m)
        /\ last_completed' = FirstRowOf(m)
        /\ UNCHANGED <<services, number_of_services>>
    ELSE IF m = COMPLETED THEN
        /\ current_service' = 99
        /\ UNCHANGED <<services, last_completed, number_of_services>>
    ELSE
        /\ services' = InsertAt(services, last_completed + 1, Entry(m, "APPLICATION"))
        /\ UNCHANGED <<current_service, last_completed, number_of_services>>

\* What one pass over the message m makes of the table.  A name that was never
\* registered gets a row of its own in the list the worker walks.
Look(m) ==
    IF m = "" THEN UNCHANGED <<services, current_service, last_completed, number_of_services>>
    ELSE IF RowsOf(m) # {} THEN
        /\ current_service' = FirstRowOf(m)
        /\ last_completed' = FirstRowOf(m)
        /\ UNCHANGED <<services, number_of_services>>
    ELSE IF m = COMPLETED THEN
        /\ current_service' = 99
        /\ UNCHANGED <<services, last_completed, number_of_services>>
    ELSE
        /\ services' = InsertAt(services, last_completed + 1, Entry(m, "APPLICATION"))
        /\ number_of_services' = number_of_services + 1
        /\ UNCHANGED <<current_service, last_completed>>

\* One turn of ShowProgress.run.  It reads at most one message, looks again at
\* the last one when there is none, draws, and ends once the spinner has left
\* the rows it counted.
Tick ==
    /\ process = "alive" /\ display = "drawing"
    /\ LET m == IF queue = <<>> THEN data ELSE Head(queue)
       IN  data' = m /\ Look(m)
    /\ queue' = IF queue = <<>> THEN <<>> ELSE Tail(queue)
    /\ display' = IF current_service' < number_of_services' THEN "drawing" ELSE "finished"
    /\ tableDone' = (current_service' >= Len(services'))
    /\ asleep' = IF asleep = 0 THEN 0 ELSE asleep - 1
    /\ UNCHANGED <<wanted, script, pc, step, index, restarts, process>>

\* Fifteen minutes after its start the thread prints "Timed out. Ending up
\* process." and ends.
TimeOut ==
    /\ process = "alive" /\ display = "drawing"
    /\ display' = "timed out"
    /\ UNCHANGED <<workerVars, data, current_service, last_completed, number_of_services,
                   tableDone, process>>

\* Without the table nothing but the clock wakes the worker.
TimePasses ==
    /\ process = "alive" /\ display # "drawing" /\ asleep > 0
    /\ asleep' = asleep - 1
    /\ UNCHANGED <<wanted, script, services, queue, pc, step, index, restarts,
                   displayVars, process>>

-----------------------------------------------------------------------------
(* The main thread.                                                        *)

Paced == Len(queue) < MaxBacklog \/ display # "drawing"

Worker ==
    /\ process = "alive" /\ Paced
    /\ Proceed
    /\ UNCHANGED <<displayVars, process>>

WorkerFails ==
    /\ process = "alive"
    /\ Fail
    /\ UNCHANGED <<displayVars, process>>

\* The program ends with its main thread, after the last sleep or at once.
Leave ==
    /\ process = "alive" /\ ~Working
    /\ pc = "completed" => asleep = 0
    /\ process' = "ended"
    /\ UNCHANGED <<workerVars, displayVars>>

Next == Worker \/ WorkerFails \/ Leave \/ Tick \/ TimePasses \/ TimeOut

\* The operating system runs both threads, and time passes; nothing has to fail.
Spec == /\ Init /\ [][Next]_vars
        /\ WF_vars(Worker) /\ WF_vars(Leave) /\ WF_vars(Tick) /\ WF_vars(TimePasses)

-----------------------------------------------------------------------------
(* Properties.                                                             *)

\* Types, and the bound on the backlog.
TypeOK ==
    /\ WorkerTypeOK
    /\ display \in {"drawing", "finished", "timed out"}
    /\ data \in Names \cup ScriptNames \cup {COMPLETED, ""}
    /\ current_service \in 0..(Len(services) - 1) \cup {99}
    /\ last_completed \in 0..(Len(services) - 1)
    /\ number_of_services \in 1..Len(services)
    /\ tableDone \in BOOLEAN
    /\ process \in {"alive", "ended"}

\* start_services walks the very list the table inserts into: no service is
\* restarted twice because a row moved under the iterator, and when the
\* installation is complete none was passed over.
RestartedOnce ==
    \A i \in DOMAIN Registered :
        LET s == Registered[i] IN
        /\ restarts[s.name] <= 1
        /\ pc = "completed" /\ Restartable(s) /\ s.name \in wanted => restarts[s.name] = 1

\* The installation ends, whatever the screen does.
Ends == <>(process = "ended")

\* The table stops before COMPLETED only when it times out; when it stops by
\* itself the installation is complete: the console implements InstallReport.
Report == INSTANCE InstallReport WITH
    outcome <- Outcome,
    report <- IF display = "finished" THEN "Completed" ELSE "none"
ImplementsReport == Report!Spec

=============================================================================
