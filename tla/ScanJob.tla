------------------------------- MODULE ScanJob -------------------------------
(***************************************************************************)
(* One scan job from the request that creates it to the status it ends     *)
(* with: the ScanJob and ScanTask rows of the database, the API request     *)
(* that starts the job, the API requests that cancel it, and the Celery     *)
(* tasks that do the work (one celery_run_task_runner per source, then      *)
(* fingerprint, then finalize_scan).                                       *)
(*                                                                         *)
(* Every process works on an in-memory instance of the ScanJob row that it  *)
(* loaded at some point, decides on the status in that instance, and saves  *)
(* the WHOLE row (Django's Model.save()).  mem[p] is the instance of p, job *)
(* is the row.  A step is what runs between two points where another        *)
(* process can commit: one query, one save, or one transaction.            *)
(*                                                                         *)
(* Left out: messages, timestamps and logging; pause and restart, whose     *)
(* signals nothing sends; the deletion of a scan (see README).             *)
(***************************************************************************)
EXTENDS Integers, FiniteSets

CONSTANTS Sources,          \* the sources of the scan: one inspect task each
          FP,               \* the fingerprint task
          FIN,              \* the finalize_scan Celery task
          Starter,          \* the API request that creates and starts the job
          Cancelers,        \* the API requests that cancel it
          NULL,             \* no row, no instance
          ScanType,         \* "inspect", or "fingerprint" (upload, merge)
          MaxScanned,       \* bound on systems_scanned of one task
          ControlTimeouts,  \* may inspect().revoked() go unanswered?
          Crashes           \* may a process die between two steps?

Tasks == Sources \cup {FP}
Workers == Tasks \cup {FIN}
Procs == Workers \cup Cancelers \cup {Starter}

ASSUME ConstantsAssumption ==
    /\ ScanType \in {"inspect", "fingerprint"}
    /\ ScanType = "fingerprint" => Sources = {}
    /\ MaxScanned \in Nat
    /\ ControlTimeouts \in BOOLEAN
    /\ Crashes \in BOOLEAN
    /\ IsFiniteSet(Sources)

ASSUME DistinctAssumption ==
    /\ FP \notin Sources \cup Cancelers
    /\ FIN \notin Tasks \cup Cancelers
    /\ Starter \notin Workers \cup Cancelers
    /\ Sources \cap Cancelers = {}

Terminal == {"completed", "failed", "canceled"}
Status == {"created", "pending", "running"} \cup Terminal

JobRow == [status: Status, report: BOOLEAN]
TaskRow == [status: Status, scanned: 0..MaxScanned]

ASSUME NullAssumption == NULL \notin JobRow \cup TaskRow

NoTasks == [t \in Tasks |-> NULL]
NewTask == [status |-> "pending", scanned |-> 0]

VARIABLES job,        \* the ScanJob row; report: is a Report assigned?
          task,       \* the ScanTask rows
          mem,        \* the ScanJob instance a process may still save
          memTask,    \* the ScanTask instance of a worker
          snap,       \* the task rows status_cancel has read, to be canceled
          pc,
          canvas,     \* the Celery tasks sent by apply_async
          cachedId,   \* is finalize_scan's id in redis?
          revoking,   \* a revoke of that id is on its way to the worker
          revoked     \* that id is in the worker's list of revoked tasks

vars == <<job, task, mem, memTask, snap, pc, canvas, cachedId, revoking, revoked>>
celery == <<canvas, cachedId, revoking, revoked>>

-----------------------------------------------------------------------------
(* ScanJob.validate_status_change: TRUE when the change must be refused. *)
HasError(current, target, valid) == current # target /\ current \notin valid

Moved(row, status) == [row EXCEPT !.status = status]

(* Continue at a label, keeping the instance; or return, dropping it. *)
Goto(p, label) == pc' = [pc EXCEPT ![p] = label]

Return(p) == Goto(p, "done") /\ mem' = [mem EXCEPT ![p] = NULL]

(* instance.save(): the whole row becomes what p has in memory. *)
Save(p, row, label) ==
    /\ job' = row
    /\ mem' = [mem EXCEPT ![p] = row]
    /\ Goto(p, label)

Init ==
    /\ job = NULL
    /\ task = NoTasks
    /\ mem = [p \in Procs |-> NULL]
    /\ memTask = [t \in Tasks |-> NewTask]
    /\ snap = [p \in Procs |-> NoTasks]
    /\ pc = [p \in Procs |-> IF p = Starter THEN "create" ELSE "idle"]
    /\ canvas = {}
    /\ cachedId = FALSE
    /\ revoking = FALSE
    /\ revoked = FALSE

-----------------------------------------------------------------------------
(* The request that starts the job: jobs (or an upload or a merge of       *)
(* reports, which come with their Report), then handle_scan.               *)

Create ==
    /\ pc[Starter] = "create"
    /\ Save(Starter, [status |-> "created", report |-> ScanType = "fingerprint"], "queue")
    /\ UNCHANGED <<task, memTask, snap, celery>>

(* ScanJob.queue: one transaction that creates the tasks. *)
Queue ==
    /\ pc[Starter] = "queue"
    /\ IF HasError(mem[Starter].status, "pending", {"created"})
       THEN Goto(Starter, "start") /\ UNCHANGED <<job, task, mem>>
       ELSE /\ task' = [t \in Tasks |->
                          IF Sources # {} \/ ScanType = "fingerprint"
                          THEN NewTask
                          ELSE NULL]
            /\ Save(Starter, Moved(mem[Starter], "pending"), "start")
    /\ UNCHANGED <<memTask, snap, celery>>

(* ScanJob.status_start; when it is refused so is the status_fail after it, *)
(* and run() returns without sending anything.                             *)
Start ==
    /\ pc[Starter] = "start"
    /\ IF HasError(mem[Starter].status, "running", {"pending"})
       THEN Goto(Starter, "cache_id") /\ UNCHANGED job
       ELSE /\ job' = Moved(mem[Starter], "running")
            /\ Goto(Starter, "dispatch")
    /\ mem' = [mem EXCEPT ![Starter] = NULL]    \* never saved again
    /\ UNCHANGED <<task, memTask, snap, celery>>

Incomplete(t) == task[t] # NULL /\ task[t].status \in {"pending", "running"}

(* CeleryBasedScanJobRunner.run: group | fingerprint | finalize_scan. *)
Dispatch ==
    /\ pc[Starter] = "dispatch"
    /\ canvas' = {t \in Tasks : Incomplete(t)} \cup {FIN}
    /\ pc' = [p \in Procs |-> IF p = Starter THEN "cache_id"
                              ELSE IF p \in canvas' THEN "queued" ELSE pc[p]]
    /\ UNCHANGED <<job, task, mem, memTask, snap, cachedId, revoking, revoked>>

(* CeleryScanManager.put, after run() has returned. *)
CacheId ==
    /\ pc[Starter] = "cache_id"
    /\ cachedId' = (canvas # {})
    /\ Goto(Starter, "done")
    /\ UNCHANGED <<job, task, mem, memTask, snap, canvas, revoking, revoked>>

-----------------------------------------------------------------------------
(* ScanJob.status_cancel: a transaction, run by API requests and by workers *)
(* that find the job revoked.  It reads the rows of the unfinished tasks;   *)
(* its commit overwrites them and the job's row.                           *)

SelectTasks(p, select, commit) ==
    /\ pc[p] = select
    /\ IF HasError(mem[p].status, "canceled", {"created", "pending", "running"})
       THEN Return(p) /\ UNCHANGED snap
       ELSE /\ snap' = [snap EXCEPT ![p] =
                          [t \in Tasks |-> IF task[t] # NULL /\ task[t].status \notin Terminal
                                           THEN task[t] ELSE NULL]]
            /\ Goto(p, commit)
            /\ UNCHANGED mem
    /\ UNCHANGED <<job, task, memTask, celery>>

CommitCancel(p) ==
    /\ task' = [t \in Tasks |-> IF snap[p][t] = NULL THEN task[t]
                                ELSE Moved(snap[p][t], "canceled")]
    /\ job' = Moved(mem[p], "canceled")
    /\ snap' = [snap EXCEPT ![p] = NoTasks]
    /\ UNCHANGED <<memTask, celery>>

(* The cancel request loads the job and answers 400 when it has ended. *)
CancelRequest(c) ==
    /\ pc[c] = "idle"
    /\ job # NULL
    /\ IF job.status \in Terminal
       THEN Goto(c, "done") /\ UNCHANGED mem
       ELSE Goto(c, "cancel") /\ mem' = [mem EXCEPT ![c] = job]
    /\ UNCHANGED <<job, task, memTask, snap, celery>>

(* CeleryScanManager.kill: status_cancel, a loop that changes instances it  *)
(* does not save, then a revoke of finalize_scan if its id is known yet.    *)
KillCommit(c) ==
    /\ pc[c] = "cancel_commit"
    /\ CommitCancel(c)
    /\ mem' = [mem EXCEPT ![c] = job']
    /\ Goto(c, "revoke")

Revoke(c) ==
    /\ pc[c] = "revoke"
    /\ revoking' = (revoking \/ cachedId)
    /\ Goto(c, "cancel_again")
    /\ UNCHANGED <<job, task, mem, memTask, snap, canvas, cachedId, revoked>>

(* The view cancels a second time after the signal. *)
CancelAgainCommit(c) ==
    /\ pc[c] = "cancel_again_commit"
    /\ CommitCancel(c)
    /\ Return(c)

(* A revoke is a broadcast: it reaches the worker at some later time. *)
DeliverRevoke ==
    /\ revoking
    /\ revoking' = FALSE
    /\ revoked' = TRUE
    /\ UNCHANGED <<job, task, mem, memTask, snap, pc, canvas, cachedId>>

-----------------------------------------------------------------------------
(* What every worker does first: load the job, ask whether it is canceled. *)

(* Mutant: fingerprint does not wait for the group. *)
PrerequisitesUngrouped(w) == IF w = FIN THEN canvas \cap {FP} ELSE {}

(* Celery delivers fingerprint when the group has returned, finalize_scan   *)
(* when fingerprint has.  A task that is lost never returns.               *)
Prerequisites(w) ==
    CASE w \in Sources -> {}
      [] w = FP -> canvas \cap Sources
      [] OTHER -> canvas \ {FIN}

Deliverable(w) ==
    /\ pc[w] = "queued"
    /\ \A t \in Prerequisites(w) : pc[t] = "done"

(* The worker discards a task whose id was revoked: only finalize_scan's is. *)
Discard ==
    /\ Deliverable(FIN)
    /\ revoked
    /\ Goto(FIN, "done")
    /\ UNCHANGED <<job, task, mem, memTask, snap, celery>>

Load(w) ==
    /\ Deliverable(w)
    /\ ~(w = FIN /\ revoked)
    /\ mem' = [mem EXCEPT ![w] = job]
    /\ memTask' = IF w = FIN THEN memTask ELSE [memTask EXCEPT ![w] = task[w]]
    /\ Goto(w, "check")
    /\ UNCHANGED <<job, task, snap, celery>>

IsCanceled == cachedId /\ revoked    \* scan_job_is_canceled

NotCanceled(w, next) ==
    /\ pc[w] = "check"
    /\ ~IsCanceled
    /\ Goto(w, next)
    /\ UNCHANGED <<job, task, mem, memTask, snap, celery>>

(* fingerprint and finalize_scan then cancel the job themselves. *)
FoundCanceled(w) ==
    /\ pc[w] = "check"
    /\ IsCanceled
    /\ IF w \in Sources THEN Return(w) ELSE Goto(w, "cancel") /\ UNCHANGED mem
    /\ UNCHANGED <<job, task, memTask, snap, celery>>

(* inspect().revoked() is None when no worker answers in time: indexing it  *)
(* raises, and the decorators of the Celery tasks take over.               *)
NoAnswer(w) ==
    /\ pc[w] = "check"
    /\ ControlTimeouts
    /\ cachedId
    /\ Goto(w, "on_exception")
    /\ mem' = [mem EXCEPT ![w] = NULL]
    /\ UNCHANGED <<job, task, memTask, snap, celery>>

WorkerCancelCommit(w) ==
    /\ pc[w] = "cancel_commit"
    /\ CommitCancel(w)
    /\ Return(w)

(* set_scan_task_failure_on_exception *)
SetTaskFailure(t) ==
    /\ pc[t] = "on_exception"
    /\ task' = [task EXCEPT ![t].status = "failed"]
    /\ Return(t)
    /\ UNCHANGED <<job, memTask, snap, celery>>

(* set_scan_job_failure_on_exception loads the job anew. *)
ReloadJob ==
    /\ pc[FIN] = "on_exception"
    /\ mem' = [mem EXCEPT ![FIN] = job]
    /\ Goto(FIN, "fail_job")
    /\ UNCHANGED <<job, task, memTask, snap, celery>>

(* Mutants: the change of status is not validated. *)
StatusFailUnchecked(p) == job' = Moved(mem[p], "failed")

StatusCompleteUnchecked(p) == job' = Moved(mem[p], "completed")

(* ScanJob.status_fail and ScanJob.status_complete *)
StatusFail(p) ==
    job' = IF HasError(mem[p].status, "failed", {"running"})
           THEN job ELSE Moved(mem[p], "failed")

StatusComplete(p) ==
    job' = IF HasError(mem[p].status, "completed", {"running"})
           THEN job ELSE Moved(mem[p], "completed")

FailJob(w) ==
    /\ pc[w] = "fail_job"
    /\ StatusFail(w)
    /\ Return(w)
    /\ UNCHANGED <<task, memTask, snap, celery>>

(* The except clause of run_task_runner re-raises after status_fail. *)
FailJobAndRaise(t) ==
    /\ pc[t] = "fail_job_and_raise"
    /\ StatusFail(t)
    /\ Goto(t, "on_exception")
    /\ mem' = [mem EXCEPT ![t] = NULL]
    /\ UNCHANGED <<task, memTask, snap, celery>>

-----------------------------------------------------------------------------
(* run_task_runner: the task's row while its runner works. *)

SaveTask(t, row, label) ==
    /\ task' = [task EXCEPT ![t] = row]
    /\ memTask' = [memTask EXCEPT ![t] = row]
    /\ Goto(t, label)
    /\ UNCHANGED <<job, snap, celery>>

StartTask(t) ==
    /\ pc[t] = "start_task"
    /\ SaveTask(t, Moved(memTask[t], "running"), "run")
    /\ UNCHANGED mem

(* ScanTask.increment_stats: an UPDATE of the one column, then a refresh. *)
IncrementStats(t) ==
    /\ pc[t] = "run"
    /\ task[t].scanned < MaxScanned
    /\ SaveTask(t, [task[t] EXCEPT !.scanned = @ + 1], "run")
    /\ UNCHANGED mem

(* ScanTask.update_stats and status_complete refresh the instance, then     *)
(* save all of it: whatever is committed in between is overwritten.        *)
Refresh(t) ==
    /\ pc[t] = "run"
    /\ memTask' = [memTask EXCEPT ![t] = task[t]]
    /\ Goto(t, "refreshed")
    /\ UNCHANGED <<job, task, mem, snap, celery>>

UpdateStats(t) ==
    /\ pc[t] = "refreshed"
    /\ \E n \in 0..MaxScanned : SaveTask(t, [memTask[t] EXCEPT !.scanned = n], "run")
    /\ UNCHANGED mem

CompleteTask(t) ==
    /\ pc[t] = "refreshed"
    /\ SaveTask(t, Moved(memTask[t], "completed"), "done")
    /\ mem' = [mem EXCEPT ![t] = NULL]

(* The runner returned FAILED or CANCELED. *)
EndTask(t, status) ==
    /\ pc[t] = "run"
    /\ SaveTask(t, Moved(memTask[t], status), "done")
    /\ mem' = [mem EXCEPT ![t] = NULL]

(* The runner raised. *)
RunnerRaises(t) ==
    /\ pc[t] = "run"
    /\ SaveTask(t, Moved(memTask[t], "failed"), "fail_job_and_raise")
    /\ UNCHANGED mem

-----------------------------------------------------------------------------
(* fingerprint and finalize_scan *)

Scanned == \E t \in Sources : task[t] # NULL /\ task[t].scanned > 0

(* Mutant: the report is created and not assigned. *)
CreateReportUnassigned ==
    /\ pc[FP] = "report"
    /\ \/ /\ mem[FP].report \/ Scanned
          /\ Goto(FP, "assign_report")
       \/ /\ ~mem[FP].report /\ ~Scanned
          /\ Goto(FP, "fail_job")
    /\ UNCHANGED <<job, mem, task, memTask, snap, celery>>

(* create_report_for_scan_job, for a job that has no report. *)
CreateReport ==
    /\ pc[FP] = "report"
    /\ \/ /\ mem[FP].report
          /\ Goto(FP, "assign_report")
          /\ UNCHANGED <<job, mem>>
       \/ /\ ~mem[FP].report /\ Scanned
          /\ Save(FP, [mem[FP] EXCEPT !.report = TRUE], "assign_report")
       \/ /\ ~mem[FP].report /\ ~Scanned
          /\ Goto(FP, "fail_job")
          /\ UNCHANGED <<job, mem>>
    /\ UNCHANGED <<task, memTask, snap, celery>>

AssignReport ==
    /\ pc[FP] = "assign_report"
    /\ Save(FP, mem[FP], "start_task")
    /\ UNCHANGED <<task, memTask, snap, celery>>

Statuses == {task[t].status : t \in {u \in Tasks : task[u] # NULL}}

(* Mutant: _finalize_scan has no branch for tasks that all failed. *)
ReadTasksNoElse ==
    /\ pc[FIN] = "read_tasks"
    /\ Goto(FIN, CASE Statuses = {} -> "complete_job"
                   [] Statuses = {"canceled"} -> "cancel"
                   [] Statuses # {"canceled"} /\ "completed" \in Statuses -> "complete_job"
                   [] OTHER -> "done")
    /\ UNCHANGED <<job, task, mem, memTask, snap, celery>>

(* _finalize_scan reads the statuses of the tasks once ... *)
ReadTasks ==
    /\ pc[FIN] = "read_tasks"
    /\ Goto(FIN, CASE Statuses = {} -> "complete_job"
                   [] Statuses = {"canceled"} -> "cancel"
                   [] Statuses # {"canceled"} /\ "completed" \in Statuses -> "complete_job"
                   [] OTHER -> "fail_job")
    /\ UNCHANGED <<job, task, mem, memTask, snap, celery>>

(* ... and moves the instance it loaded before that. *)
CompleteJob ==
    /\ pc[FIN] = "complete_job"
    /\ StatusComplete(FIN)
    /\ Return(FIN)
    /\ UNCHANGED <<task, memTask, snap, celery>>

-----------------------------------------------------------------------------
(* A process dies: its memory and its open transaction are gone, and Celery *)
(* has acknowledged its message already, so nothing runs the task again.   *)
Crash(p) ==
    /\ Crashes
    /\ pc[p] \notin {"idle", "create", "queued", "done", "lost"}
    /\ Goto(p, "lost")
    /\ mem' = [mem EXCEPT ![p] = NULL]
    /\ snap' = [snap EXCEPT ![p] = NoTasks]
    /\ UNCHANGED <<job, task, memTask, celery>>

StarterStep == Create \/ Queue \/ Start \/ Dispatch \/ CacheId

CancelerStep(c) ==
    \/ SelectTasks(c, "cancel", "cancel_commit")
    \/ KillCommit(c)
    \/ Revoke(c)
    \/ SelectTasks(c, "cancel_again", "cancel_again_commit")
    \/ CancelAgainCommit(c)

FirstCheck(w, next) ==
    Load(w) \/ NotCanceled(w, next) \/ FoundCanceled(w) \/ NoAnswer(w)

WorkerCancel(w) == SelectTasks(w, "cancel", "cancel_commit") \/ WorkerCancelCommit(w)

RunTask(t) ==
    \/ StartTask(t)
    \/ Refresh(t)
    \/ CompleteTask(t)
    \/ EndTask(t, "failed")
    \/ RunnerRaises(t)
    \/ FailJobAndRaise(t)
    \/ SetTaskFailure(t)

InspectStep(t) ==
    \/ FirstCheck(t, "start_task")
    \/ RunTask(t)
    \/ EndTask(t, "canceled")

FingerprintStep ==
    \/ FirstCheck(FP, "report")
    \/ WorkerCancel(FP)
    \/ CreateReport
    \/ AssignReport
    \/ FailJob(FP)
    \/ RunTask(FP)

FinalizeStep ==
    \/ Discard
    \/ FirstCheck(FIN, "read_tasks")
    \/ WorkerCancel(FIN)
    \/ ReadTasks
    \/ CompleteJob
    \/ ReloadJob
    \/ FailJob(FIN)

Next ==
    \/ StarterStep
    \/ \E c \in Cancelers : CancelRequest(c) \/ CancelerStep(c)
    \/ DeliverRevoke
    \/ \E t \in Sources : InspectStep(t) \/ IncrementStats(t) \/ UpdateStats(t)
    \/ FingerprintStep
    \/ FinalizeStep
    \/ \E p \in Procs : Crash(p)

Spec == Init /\ [][Next]_vars

(* A process that has a step to take takes it, and a runner does not       *)
(* update its statistics for ever: every runner ends.                      *)
Fairness ==
    /\ WF_vars(StarterStep)
    /\ WF_vars(DeliverRevoke)
    /\ \A c \in Cancelers : WF_vars(CancelerStep(c))
    /\ \A t \in Sources : WF_vars(InspectStep(t)) /\ SF_vars(CompleteTask(t))
    /\ WF_vars(FingerprintStep)
    /\ WF_vars(FinalizeStep)

FairSpec == Spec /\ Fairness
-----------------------------------------------------------------------------
(* Properties *)

Labels == {"create", "queue", "start", "dispatch", "cache_id", "idle", "queued",
           "check", "on_exception", "cancel", "cancel_commit", "revoke",
           "cancel_again", "cancel_again_commit", "start_task", "run", "refreshed",
           "fail_job", "fail_job_and_raise", "report", "assign_report",
           "read_tasks", "complete_job", "done", "lost"}

(* The type invariant: rows, instances and snapshots have the model's types. *)
TypeOK ==
    /\ job \in JobRow \cup {NULL}
    /\ task \in [Tasks -> TaskRow \cup {NULL}]
    /\ mem \in [Procs -> JobRow \cup {NULL}]
    /\ memTask \in [Tasks -> TaskRow]
    /\ snap \in [Procs -> [Tasks -> TaskRow \cup {NULL}]]
    /\ pc \in [Procs -> Labels]
    /\ canvas \subseteq Workers
    /\ cachedId \in BOOLEAN
    /\ revoking \in BOOLEAN
    /\ revoked \in BOOLEAN

JobIs(status) == job # NULL /\ job.status = status
JobEnded == job # NULL /\ job.status \in Terminal

(* A job that finalize_scan completed has the report its tasks were run for *)
(* (scanner/tasks.py:211-219 assigns it, 285 completes the job) if its      *)
(* fingerprint task completed too; although cancel requests save instances  *)
(* loaded before the report was assigned.                                  *)
CompletedHasReport ==
    JobIs("completed") /\ Statuses # {} /\ task[FP].status = "completed" => job.report

(* A completed job has no task left pending or running: finalize_scan runs  *)
(* behind every other task, whatever cancel requests and crashes do.       *)
CompletedTasksSettled ==
    JobIs("completed") => Statuses \subseteq Terminal

(* A job that completed or failed can still become canceled, by a request   *)
(* that loaded it earlier, but it never runs again and never turns from     *)
(* failed to completed or back (ScanJob.validate_status_change on the       *)
(* instances the workers loaded, which may be older than the row).         *)
FinishedOnlyCanceled ==
    [][\A s \in {"completed", "failed"} :
          JobIs(s) => JobIs(s)' \/ JobIs("canceled")']_vars

Agreed(s) == JobIs(s) /\ \A p \in Procs : mem[p] # NULL => mem[p].status = s

(* Once the row and every instance in memory agree that the job has ended,  *)
(* it has: no later request, worker or exception handler gives the row, or  *)
(* an instance, another status.                                            *)
AgreementIsStable ==
    [][\A s \in Terminal : Agreed(s) => Agreed(s)']_vars

JobStatus == IF job = NULL THEN "none" ELSE job.status
Reported == job # NULL /\ job.report
FingerprintFailed == task[FP] # NULL /\ task[FP].status = "failed"
HasTasks == Sources # {} \/ ScanType = "fingerprint"

Lifecycle == INSTANCE ScanJobLifecycle WITH
    HasTasks <- HasTasks, HasReport <- ScanType = "fingerprint",
    status <- JobStatus, report <- Reported, reportFailed <- FingerprintFailed

(* The row of a job that nobody cancels goes through the lifecycle, however *)
(* the saves of the workers' instances interleave: scanner/tasks.py and     *)
(* ScanJob's status_* methods write the whole row from memory.             *)
FollowsLifecycle == Lifecycle!Safety

(* ... and, when no process dies, to its end. *)
EndsLifecycle == Lifecycle!Liveness

(* What the cancel view says: "Cancel the running scan."                    *)
(* (api/scanjob/view_v1.py:209): a job that was canceled does not run on.   *)
CancelEndsJob ==
    \A c \in Cancelers : (pc[c] = "cancel_again") ~> []JobEnded
=============================================================================
