-------------------------- MODULE ScanJobLifecycle --------------------------
(***************************************************************************)
(* What a scan job that nobody cancels promises: the statuses it goes       *)
(* through, that it completes with its report unless fingerprinting failed, *)
(* and that it ends.                                                       *)
(***************************************************************************)

CONSTANTS HasTasks,    \* does the job have tasks?
          HasReport    \* does it come with a report (upload, merge)?

VARIABLES status, report,
          reportFailed \* has fingerprinting failed?

lifecycle == <<status, report, reportFailed>>

Init == status = "none" /\ report = FALSE /\ reportFailed = FALSE

Create == status = "none" /\ status' = "created" /\ report' = HasReport
          /\ UNCHANGED reportFailed

Advance(from, to) == status = from /\ status' = to /\ UNCHANGED <<report, reportFailed>>

(* The fingerprint task also reports on a job an inspect task has failed. *)
AssignReport ==
    /\ status \in {"running", "failed"}
    /\ report' = TRUE
    /\ UNCHANGED <<status, reportFailed>>

FailReport ==
    /\ status \in {"running", "failed"}
    /\ reportFailed' = TRUE
    /\ UNCHANGED <<status, report>>

Complete == (HasTasks => report \/ reportFailed) /\ Advance("running", "completed")

Progress ==
    \/ Create
    \/ Advance("created", "pending")
    \/ Advance("pending", "running")
    \/ Advance("running", "failed")
    \/ Complete

Next == Progress \/ AssignReport \/ FailReport

(* What a job may do, and that it does not stop before it has ended. *)
Safety == Init /\ [][Next]_lifecycle

Liveness == WF_lifecycle(Progress)

Spec == Safety /\ Liveness
=============================================================================
