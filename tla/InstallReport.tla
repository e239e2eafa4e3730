---------------------------- MODULE InstallReport ----------------------------
(***************************************************************************)
(* What the user is promised about an installation: it ends in one of two  *)
(* ways, and the screen says at most once, and truthfully, which.  The     *)
(* progress table of the console (ShowProgress) and the last form of the   *)
(* wizard (InstallStepsForm) are two implementations.                      *)
(***************************************************************************)
VARIABLES
    outcome,    \* how the installation ended
    report      \* what the screen has said about it

Init ==
    /\ outcome = "running"
    /\ report = "none"

\* do_installation returns, or one of its steps fails.
Finish ==
    /\ outcome = "running"
    /\ outcome' \in {"completed", "failed"}
    /\ UNCHANGED report

ReportCompleted ==
    /\ outcome = "completed" /\ report = "none"
    /\ report' = "Completed"
    /\ UNCHANGED outcome

ReportError ==
    /\ outcome = "failed" /\ report = "none"
    /\ report' = "ERROR"
    /\ UNCHANGED outcome

Next == Finish \/ ReportCompleted \/ ReportError

Spec == Init /\ [][Next]_<<outcome, report>>
=============================================================================
