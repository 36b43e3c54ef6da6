--------------------------- MODULE ScanJob_proofs ---------------------------
(* What holds of ScanJob for every set of sources and of cancel requests. *)
EXTENDS ScanJob, TLAPS

(* The labels at which a process still has a ScanJob instance to save. *)
Holding == {"queue", "start", "check", "cancel", "cancel_commit", "revoke",
            "cancel_again", "cancel_again_commit", "start_task", "run", "refreshed",
            "fail_job", "fail_job_and_raise", "report", "assign_report",
            "read_tasks", "complete_job"}

(* A process has an instance exactly at those labels.  Nobody acts before   *)
(* the row exists.  Celery tasks run only once they are sent, which is      *)
(* after the tasks' rows are there.  A cancel about to commit works on an   *)
(* instance that may be canceled.                                          *)
Orderly ==
    /\ \A p \in Procs : mem[p] # NULL <=> pc[p] \in Holding
    /\ pc[Starter] = "create" <=> job = NULL
    /\ job = NULL => \A p \in Procs \ {Starter} : pc[p] = "idle"
    /\ pc[Starter] \in {"create", "queue", "start", "dispatch"} => canvas = {}
    /\ \A w \in Workers \ canvas : pc[w] = "idle"
    /\ \A t \in Tasks \cap canvas : task[t] # NULL
    /\ \A p \in Procs : pc[p] \in {"cancel_commit", "cancel_again_commit"} =>
          mem[p].status \notin {"completed", "failed"}

(* Rows stay rows when their status changes. *)
LEMMA MovedJob ==
    \A row \in JobRow, s \in Status :
        /\ Moved(row, s) \in JobRow
        /\ Moved(row, s).status = s
        /\ Moved(row, s).report = row.report
        /\ Moved(row, s) # NULL
BY NullAssumption, Zenon DEF Moved, JobRow

(* The same for the row of a task. *)
LEMMA MovedTask ==
    \A row \in TaskRow, s \in Status :
        /\ Moved(row, s) \in TaskRow
        /\ Moved(row, s).status = s
        /\ Moved(row, s).scanned = row.scanned
        /\ Moved(row, s) # NULL
BY NullAssumption, Zenon DEF Moved, TaskRow

(* The rows that requests create, and the statuses they name, are typed. *)
LEMMA NewRows ==
    /\ NewTask \in TaskRow
    /\ NewTask # NULL
    /\ \A b \in BOOLEAN : [status |-> "created", report |-> b] \in JobRow
    /\ NoTasks \in [Tasks -> TaskRow \cup {NULL}]
    /\ {"created", "pending", "running", "completed", "failed", "canceled"} = Status
BY NullAssumption, ConstantsAssumption
   DEF NewTask, TaskRow, JobRow, Status, Terminal, NoTasks

(* status_cancel snapshots rows of tasks. *)
LEMMA SelectedRows ==
    ASSUME TypeOK, NEW p \in Procs, NEW a, NEW b, SelectTasks(p, a, b)
    PROVE  snap' \in [Procs -> [Tasks -> TaskRow \cup {NULL}]]
<1> DEFINE S == [t \in Tasks |-> IF task[t] # NULL /\ task[t].status \notin Terminal
                                 THEN task[t] ELSE NULL]
<1>1. S \in [Tasks -> TaskRow \cup {NULL}]
  BY Zenon DEF TypeOK
<1>2. snap' = snap \/ snap' = [snap EXCEPT ![p] = S]
  BY Zenon DEF SelectTasks
<1> HIDE DEF S
<1> QED BY <1>1, <1>2, Zenon DEF TypeOK

(* Its commit writes rows, leaves no row out, and cancels the job. *)
LEMMA CommittedRows ==
    ASSUME TypeOK, NEW p \in Procs, mem[p] # NULL, CommitCancel(p)
    PROVE  /\ job' \in JobRow
           /\ job' # NULL
           /\ job'.status = "canceled"
           /\ task' \in [Tasks -> TaskRow \cup {NULL}]
           /\ \A t \in Tasks : task[t] # NULL => task'[t] # NULL
           /\ snap' \in [Procs -> [Tasks -> TaskRow \cup {NULL}]]
           /\ UNCHANGED <<memTask, celery>>
<1>1. mem[p] \in JobRow /\ "canceled" \in Status
  BY Zenon DEF TypeOK, Status, Terminal
<1>2. job' \in JobRow /\ job' # NULL /\ job'.status = "canceled"
  BY <1>1, MovedJob, Zenon DEF CommitCancel
<1>3. \A t \in Tasks : snap[p][t] \in TaskRow \cup {NULL}
  BY Zenon DEF TypeOK
<1>4. \A t \in Tasks : snap[p][t] # NULL =>
        Moved(snap[p][t], "canceled") \in TaskRow /\ Moved(snap[p][t], "canceled") # NULL
  BY <1>1, <1>3, MovedTask, Zenon
<1>5. /\ task' \in [Tasks -> TaskRow \cup {NULL}]
      /\ \A t \in Tasks : task[t] # NULL => task'[t] # NULL
  BY <1>4, Zenon DEF CommitCancel, TypeOK
<1>6. snap' \in [Procs -> [Tasks -> TaskRow \cup {NULL}]]
  BY NewRows, Zenon DEF CommitCancel, TypeOK
<1> QED BY <1>2, <1>5, <1>6, Zenon DEF CommitCancel

(* Every step keeps the types and the order. *)
LEMMA StepKeepsOrder ==
    TypeOK /\ Orderly /\ [Next]_vars => TypeOK' /\ Orderly'
<1> SUFFICES ASSUME TypeOK, Orderly, [Next]_vars
             PROVE  TypeOK' /\ Orderly'
  BY Zenon
<1> USE DistinctAssumption, NullAssumption
    DEF Orderly, Holding, Tasks, Workers, Procs, Labels
<1>1. ASSUME Create
      PROVE  TypeOK' /\ Orderly'
  <2>1. job' \in JobRow /\ mem' = [mem EXCEPT ![Starter] = job']
    BY <1>1, NewRows, ZenonT(60) DEF Create, Save
  <2>2. TypeOK'
    BY <1>1, <2>1 DEF Create, Save, Goto, celery, TypeOK
  <2>3. Orderly'
    BY <1>1, <2>1 DEF Create, Save, Goto, celery, TypeOK
  <2> QED BY <2>2, <2>3, Zenon
<1>2. ASSUME Queue
      PROVE  TypeOK' /\ Orderly'
  <2>1. mem[Starter] \in JobRow
    BY <1>2, Zenon DEF Queue, TypeOK
  <2>2. Moved(mem[Starter], "pending") \in JobRow /\ Moved(mem[Starter], "pending") # NULL
    BY <2>1, MovedJob, NewRows, Zenon
  <2>3. task' \in [Tasks -> TaskRow \cup {NULL}]
    BY <1>2, NewRows DEF Queue, TypeOK
  <2>4. TypeOK'
    BY <1>2, <2>2, <2>3 DEF Queue, Save, Goto, celery, TypeOK
  <2>5. Orderly'
    BY <1>2, <2>2 DEF Queue, Save, Goto, celery, TypeOK
  <2> QED BY <2>4, <2>5, Zenon
<1>3. ASSUME Start
      PROVE  TypeOK' /\ Orderly'
  <2>1. mem[Starter] \in JobRow
    BY <1>3, Zenon DEF Start, TypeOK
  <2>2. Moved(mem[Starter], "running") \in JobRow /\ Moved(mem[Starter], "running") # NULL
    BY <2>1, MovedJob, NewRows, Zenon
  <2>3. TypeOK'
    BY <1>3, <2>2 DEF Start, Goto, celery, TypeOK
  <2>4. Orderly'
    BY <1>3, <2>2 DEF Start, Goto, celery, TypeOK
  <2> QED BY <2>3, <2>4, Zenon
<1>4. ASSUME Dispatch
      PROVE  TypeOK' /\ Orderly'
  <2>1. TypeOK'
    BY <1>4, SMTT(60) DEF Dispatch, Incomplete, celery, TypeOK, Status, Terminal, JobRow, TaskRow, NoTasks, NewTask, Moved
  <2>2. Orderly'
    BY <1>4, <2>1 DEF Dispatch, Incomplete, celery, TypeOK, Status, Terminal, JobRow, TaskRow, NoTasks, NewTask, Moved
  <2> QED BY <2>1, <2>2, Zenon
<1>5. ASSUME CacheId
      PROVE  TypeOK' /\ Orderly'
  <2>1. TypeOK'
    BY <1>5, Zenon DEF CacheId, Goto, celery, TypeOK, Status, Terminal, JobRow, TaskRow, NoTasks, NewTask, Moved
  <2>2. Orderly'
    BY <1>5, <2>1, Zenon DEF CacheId, Goto, celery, TypeOK, Status, Terminal, JobRow, TaskRow, NoTasks, NewTask, Moved
  <2> QED BY <2>1, <2>2, Zenon
<1>6. ASSUME NEW c \in Cancelers, CancelRequest(c)
      PROVE  TypeOK' /\ Orderly'
  <2>1. /\ pc[c] = "idle" /\ job # NULL /\ UNCHANGED <<job, task, memTask, snap, celery>>
        /\ \/ pc' = [pc EXCEPT ![c] = "done"] /\ UNCHANGED mem
           \/ pc' = [pc EXCEPT ![c] = "cancel"] /\ mem' = [mem EXCEPT ![c] = job]
    BY <1>6, Zenon DEF CancelRequest, Goto
  <2>2. /\ pc' \in [Procs -> Labels]
        /\ mem' \in [Procs -> JobRow \cup {NULL}]
    <3>1. c \in Procs /\ job \in JobRow
      BY <2>1, Zenon DEF TypeOK
    <3>2. pc' \in [Procs -> Labels]
      BY <2>1, <3>1, Zenon DEF TypeOK
    <3>3. mem' \in [Procs -> JobRow \cup {NULL}]
      BY <2>1, <3>1 DEF TypeOK
    <3> QED BY <3>2, <3>3, Zenon
  <2>3. TypeOK'
    BY <2>1, <2>2, Zenon DEF celery, TypeOK
  <2>4. Orderly'
    BY <2>1 DEF celery, TypeOK
  <2> QED BY <2>3, <2>4, Zenon
<1>7. ASSUME NEW p \in Cancelers \cup {FP, FIN}, SelectTasks(p, "cancel", "cancel_commit")
      PROVE  TypeOK' /\ Orderly'
  <2>1. snap' \in [Procs -> [Tasks -> TaskRow \cup {NULL}]]
    BY <1>7, SelectedRows, ZenonT(60)
  <2>2. /\ pc[p] = "cancel"
        /\ UNCHANGED <<job, task, memTask, celery>>
        /\ \/ pc' = [pc EXCEPT ![p] = "done"] /\ mem' = [mem EXCEPT ![p] = NULL]
           \/ /\ pc' = [pc EXCEPT ![p] = "cancel_commit"]
              /\ UNCHANGED mem
              /\ mem[p].status \notin {"completed", "failed"}
    BY <1>7, Zenon DEF SelectTasks, Goto, Return, HasError
  <2>3. pc' \in [Procs -> Labels] /\ mem' \in [Procs -> JobRow \cup {NULL}]
    BY <2>2, ZenonT(60) DEF TypeOK
  <2>4. TypeOK'
    BY <2>1, <2>2, <2>3, Zenon DEF celery, TypeOK
  <2>5. CASE pc' = [pc EXCEPT ![p] = "done"] /\ mem' = [mem EXCEPT ![p] = NULL]
    BY <2>2, <2>4, <2>5, SMTT(60) DEF celery, TypeOK
  <2>6. CASE pc' = [pc EXCEPT ![p] = "cancel_commit"] /\ UNCHANGED mem
    BY <2>2, <2>4, <2>6 DEF celery, TypeOK
  <2> QED BY <2>2, <2>5, <2>6, Zenon
<1>8. ASSUME NEW c \in Cancelers, SelectTasks(c, "cancel_again", "cancel_again_commit")
      PROVE  TypeOK' /\ Orderly'
  <2>1. snap' \in [Procs -> [Tasks -> TaskRow \cup {NULL}]]
    BY <1>8, SelectedRows, ZenonT(60)
  <2>2. /\ pc[c] = "cancel_again"
        /\ UNCHANGED <<job, task, memTask, celery>>
        /\ \/ pc' = [pc EXCEPT ![c] = "done"] /\ mem' = [mem EXCEPT ![c] = NULL]
           \/ /\ pc' = [pc EXCEPT ![c] = "cancel_again_commit"]
              /\ UNCHANGED mem
              /\ mem[c].status \notin {"completed", "failed"}
    BY <1>8, Zenon DEF SelectTasks, Goto, Return, HasError
  <2>3. pc' \in [Procs -> Labels] /\ mem' \in [Procs -> JobRow \cup {NULL}]
    BY <2>2, ZenonT(60) DEF TypeOK
  <2>4. TypeOK'
    BY <2>1, <2>2, <2>3, Zenon DEF celery, TypeOK
  <2>5. CASE pc' = [pc EXCEPT ![c] = "done"] /\ mem' = [mem EXCEPT ![c] = NULL]
    BY <2>2, <2>4, <2>5, Zenon DEF celery, TypeOK
  <2>6. CASE pc' = [pc EXCEPT ![c] = "cancel_again_commit"] /\ UNCHANGED mem
    BY <2>2, <2>4, <2>6, SMTT(60) DEF celery, TypeOK
  <2> QED BY <2>2, <2>5, <2>6, Zenon
<1>9. ASSUME NEW c \in Cancelers, KillCommit(c)
      PROVE  TypeOK' /\ Orderly'
  <2>1. mem[c] # NULL /\ CommitCancel(c)
    BY <1>9, Zenon DEF KillCommit
  <2>2. TypeOK'
    BY <1>9, <2>1, CommittedRows, ZenonT(60) DEF KillCommit, Goto, celery, TypeOK
  <2>3. Orderly'
    BY <1>9, <2>1, CommittedRows, ZenonT(60) DEF KillCommit, Goto, celery, TypeOK
  <2> QED BY <2>2, <2>3, Zenon
<1>10. ASSUME NEW c \in Cancelers, Revoke(c)
      PROVE  TypeOK' /\ Orderly'
  <2>1. TypeOK'
    BY <1>10, Zenon DEF Revoke, Goto, celery, TypeOK, Status, Terminal, JobRow, TaskRow, NoTasks, NewTask, Moved
  <2>2. Orderly'
    BY <1>10, <2>1, Zenon DEF Revoke, Goto, celery, TypeOK, Status, Terminal, JobRow, TaskRow, NoTasks, NewTask, Moved
  <2> QED BY <2>1, <2>2, Zenon
<1>11. ASSUME NEW c \in Cancelers, CancelAgainCommit(c)
      PROVE  TypeOK' /\ Orderly'
  <2>1. mem[c] # NULL /\ CommitCancel(c)
    BY <1>11, Zenon DEF CancelAgainCommit
  <2>2. TypeOK'
    BY <1>11, <2>1, CommittedRows, ZenonT(60) DEF CancelAgainCommit, Goto, Return, celery, TypeOK
  <2>3. Orderly'
    BY <1>11, <2>1, CommittedRows, ZenonT(60) DEF CancelAgainCommit, Goto, Return, celery, TypeOK
  <2> QED BY <2>2, <2>3, Zenon
<1>12. ASSUME DeliverRevoke
      PROVE  TypeOK' /\ Orderly'
  <2>1. TypeOK'
    BY <1>12, ZenonT(60) DEF DeliverRevoke, celery, TypeOK, Status, Terminal, JobRow, TaskRow, NoTasks, NewTask, Moved
  <2>2. Orderly'
    BY <1>12, <2>1, Zenon DEF DeliverRevoke, celery, TypeOK, Status, Terminal, JobRow, TaskRow, NoTasks, NewTask, Moved
  <2> QED BY <2>1, <2>2, Zenon
<1>13. ASSUME Discard
      PROVE  TypeOK' /\ Orderly'
  <2>1. TypeOK'
    BY <1>13, SMTT(60) DEF Discard, Deliverable, Goto, celery, TypeOK, Status, Terminal, JobRow, TaskRow, NoTasks, NewTask, Moved
  <2>2. Orderly'
    BY <1>13, <2>1, Zenon DEF Discard, Deliverable, Goto, celery, TypeOK, Status, Terminal, JobRow, TaskRow, NoTasks, NewTask, Moved
  <2> QED BY <2>1, <2>2, Zenon
<1>14. ASSUME NEW w \in Workers, Load(w)
      PROVE  TypeOK' /\ Orderly'
  <2>1. TypeOK'
    BY <1>14, SMTT(60) DEF Load, Deliverable, Goto, celery, TypeOK, Status, Terminal, JobRow, TaskRow, NoTasks, NewTask, Moved
  <2>2. Orderly'
    BY <1>14, <2>1, Zenon DEF Load, Deliverable, Goto, celery, TypeOK, Status, Terminal, JobRow, TaskRow, NoTasks, NewTask, Moved
  <2> QED BY <2>1, <2>2, Zenon
<1>15. ASSUME NEW w \in Workers, NEW l \in {"start_task", "report", "read_tasks"}, NotCanceled(w, l)
      PROVE  TypeOK' /\ Orderly'
  <2>1. TypeOK'
    BY <1>15, Zenon DEF NotCanceled, Goto, celery, TypeOK, Status, Terminal, JobRow, TaskRow, NoTasks, NewTask, Moved
  <2>2. Orderly'
    BY <1>15, <2>1, Zenon DEF NotCanceled, Goto, celery, TypeOK, Status, Terminal, JobRow, TaskRow, NoTasks, NewTask, Moved
  <2> QED BY <2>1, <2>2, Zenon
<1>16. ASSUME NEW w \in Workers, FoundCanceled(w)
      PROVE  TypeOK' /\ Orderly'
  <2>1. /\ pc[w] = "check" /\ UNCHANGED <<job, task, memTask, snap, celery>>
        /\ \/ pc' = [pc EXCEPT ![w] = "done"] /\ mem' = [mem EXCEPT ![w] = NULL]
           \/ pc' = [pc EXCEPT ![w] = "cancel"] /\ UNCHANGED mem
    BY <1>16, Zenon DEF FoundCanceled, Goto, Return
  <2>2. pc' \in [Procs -> Labels] /\ mem' \in [Procs -> JobRow \cup {NULL}]
    BY <2>1 DEF TypeOK
  <2>3. TypeOK'
    BY <2>1, <2>2, SMTT(60) DEF celery, TypeOK
  <2>4. CASE pc' = [pc EXCEPT ![w] = "done"] /\ mem' = [mem EXCEPT ![w] = NULL]
    BY <2>1, <2>3, <2>4, SMTT(60) DEF celery, TypeOK
  <2>5. CASE pc' = [pc EXCEPT ![w] = "cancel"] /\ UNCHANGED mem
    BY <2>1, <2>3, <2>5, Zenon DEF celery, TypeOK
  <2> QED BY <2>1, <2>4, <2>5, Zenon
<1>17. ASSUME NEW w \in Workers, NoAnswer(w)
      PROVE  TypeOK' /\ Orderly'
  <2>1. TypeOK'
    BY <1>17, SMTT(60) DEF NoAnswer, Goto, celery, TypeOK, Status, Terminal, JobRow, TaskRow, NoTasks, NewTask, Moved
  <2>2. Orderly'
    BY <1>17, <2>1, Zenon DEF NoAnswer, Goto, celery, TypeOK, Status, Terminal, JobRow, TaskRow, NoTasks, NewTask, Moved
  <2> QED BY <2>1, <2>2, Zenon
<1>18. ASSUME NEW w \in {FP, FIN}, WorkerCancelCommit(w)
      PROVE  TypeOK' /\ Orderly'
  <2>1. mem[w] # NULL /\ CommitCancel(w)
    BY <1>18, Zenon DEF WorkerCancelCommit
  <2>2. TypeOK'
    BY <1>18, <2>1, CommittedRows, ZenonT(60) DEF WorkerCancelCommit, Goto, Return, celery, TypeOK
  <2>3. Orderly'
    BY <1>18, <2>1, CommittedRows, ZenonT(60) DEF WorkerCancelCommit, Goto, Return, celery, TypeOK
  <2> QED BY <2>2, <2>3, Zenon
<1>19. ASSUME NEW t \in Tasks, SetTaskFailure(t)
      PROVE  TypeOK' /\ Orderly'
  <2>1. task[t] \in TaskRow
    BY <1>19, Zenon DEF SetTaskFailure, TypeOK
  <2>2. task' = [task EXCEPT ![t] = Moved(task[t], "failed")]
    BY <1>19, <2>1, SMTT(60) DEF SetTaskFailure, Moved, TypeOK
  <2>3. Moved(task[t], "failed") \in TaskRow /\ Moved(task[t], "failed") # NULL
    BY <2>1, MovedTask, NewRows, Zenon
  <2>4. TypeOK'
    BY <1>19, <2>2, <2>3, SMTT(60) DEF SetTaskFailure, Goto, Return, celery, TypeOK
  <2>5. Orderly'
    BY <1>19, <2>2, <2>3, Zenon DEF SetTaskFailure, Goto, Return, celery, TypeOK
  <2> QED BY <2>4, <2>5, Zenon
<1>20. ASSUME ReloadJob
      PROVE  TypeOK' /\ Orderly'
  <2>1. TypeOK'
    BY <1>20, SMTT(60) DEF ReloadJob, Goto, celery, TypeOK, Status, Terminal, JobRow, TaskRow, NoTasks, NewTask, Moved
  <2>2. Orderly'
    BY <1>20, <2>1, Zenon DEF ReloadJob, Goto, celery, TypeOK, Status, Terminal, JobRow, TaskRow, NoTasks, NewTask, Moved
  <2> QED BY <2>1, <2>2, Zenon
<1>21. ASSUME NEW w \in {FP, FIN}, FailJob(w)
      PROVE  TypeOK' /\ Orderly'
  <2>1. TypeOK'
    BY <1>21 DEF FailJob, StatusFail, HasError, Goto, Return, celery, TypeOK, Status, Terminal, JobRow, TaskRow, NoTasks, NewTask, Moved
  <2>2. Orderly'
    BY <1>21, <2>1 DEF FailJob, StatusFail, HasError, Goto, Return, celery, TypeOK, Status, Terminal, JobRow, TaskRow, NoTasks, NewTask, Moved
  <2> QED BY <2>1, <2>2, Zenon
<1>22. ASSUME NEW t \in Tasks, FailJobAndRaise(t)
      PROVE  TypeOK' /\ Orderly'
  <2>1. TypeOK'
    BY <1>22 DEF FailJobAndRaise, StatusFail, HasError, Goto, celery, TypeOK, Status, Terminal, JobRow, TaskRow, NoTasks, NewTask, Moved
  <2>2. Orderly'
    BY <1>22, <2>1, SMTT(60) DEF FailJobAndRaise, StatusFail, HasError, Goto, celery, TypeOK, Status, Terminal, JobRow, TaskRow, NoTasks, NewTask, Moved
  <2> QED BY <2>1, <2>2, Zenon
<1>23. ASSUME NEW t \in Tasks, StartTask(t)
      PROVE  TypeOK' /\ Orderly'
  <2>1. Moved(memTask[t], "running") \in TaskRow /\ Moved(memTask[t], "running") # NULL
    BY MovedTask, NewRows, Zenon DEF TypeOK
  <2>2. TypeOK'
    BY <1>23, <2>1, SMTT(60) DEF StartTask, SaveTask, Goto, celery, TypeOK
  <2>3. Orderly'
    BY <1>23, <2>1, Zenon DEF StartTask, SaveTask, Goto, celery, TypeOK
  <2> QED BY <2>2, <2>3, Zenon
<1>24. ASSUME NEW t \in Tasks, IncrementStats(t)
      PROVE  TypeOK' /\ Orderly'
  <2> DEFINE row == [task[t] EXCEPT !.scanned = @ + 1]
  <2>1. task[t] \in TaskRow
    BY <1>24, Zenon DEF IncrementStats, TypeOK
  <2>2. row \in TaskRow
    BY <1>24, <2>1, ConstantsAssumption DEF IncrementStats, TaskRow
  <2>3. SaveTask(t, row, "run") /\ pc[t] = "run" /\ UNCHANGED mem
    BY <1>24, Zenon DEF IncrementStats
  <2> HIDE DEF row
  <2>4. TypeOK'
    BY <2>2, <2>3, SMTT(60) DEF SaveTask, Goto, celery, TypeOK
  <2>5. Orderly'
    BY <2>2, <2>3, SMTT(60) DEF SaveTask, Goto, celery, TypeOK
  <2> QED BY <2>4, <2>5, Zenon
<1>25. ASSUME NEW t \in Tasks, Refresh(t)
      PROVE  TypeOK' /\ Orderly'
  <2>1. TypeOK'
    BY <1>25, SMTT(60) DEF Refresh, Goto, celery, TypeOK, Status, Terminal, JobRow, TaskRow, NoTasks, NewTask, Moved
  <2>2. Orderly'
    BY <1>25, <2>1, SMTT(60) DEF Refresh, Goto, celery, TypeOK, Status, Terminal, JobRow, TaskRow, NoTasks, NewTask, Moved
  <2> QED BY <2>1, <2>2, Zenon
<1>26. ASSUME NEW t \in Tasks, UpdateStats(t)
      PROVE  TypeOK' /\ Orderly'
  <2>1. PICK n \in 0..MaxScanned : SaveTask(t, [memTask[t] EXCEPT !.scanned = n], "run")
    BY <1>26, Zenon DEF UpdateStats
  <2> DEFINE row == [memTask[t] EXCEPT !.scanned = n]
  <2>2. row \in TaskRow
    BY DEF TypeOK, TaskRow
  <2>3. SaveTask(t, row, "run") /\ pc[t] = "refreshed" /\ UNCHANGED mem
    BY <1>26, <2>1, Zenon DEF UpdateStats
  <2> HIDE DEF row
  <2>4. TypeOK'
    BY <2>2, <2>3, Zenon DEF SaveTask, Goto, celery, TypeOK
  <2>5. Orderly'
    BY <2>2, <2>3, Zenon DEF SaveTask, Goto, celery, TypeOK
  <2> QED BY <2>4, <2>5, Zenon
<1>27. ASSUME NEW t \in Tasks, CompleteTask(t)
      PROVE  TypeOK' /\ Orderly'
  <2>1. Moved(memTask[t], "completed") \in TaskRow /\ Moved(memTask[t], "completed") # NULL
    BY MovedTask, NewRows, Zenon DEF TypeOK
  <2>2. TypeOK'
    BY <1>27, <2>1, Zenon DEF CompleteTask, SaveTask, Goto, celery, TypeOK
  <2>3. Orderly'
    BY <1>27, <2>1, Zenon DEF CompleteTask, SaveTask, Goto, celery, TypeOK
  <2> QED BY <2>2, <2>3, Zenon
<1>28. ASSUME NEW t \in Tasks, NEW s \in {"failed", "canceled"}, EndTask(t, s)
      PROVE  TypeOK' /\ Orderly'
  <2>1. Moved(memTask[t], s) \in TaskRow /\ Moved(memTask[t], s) # NULL
    BY MovedTask, NewRows DEF TypeOK
  <2>2. TypeOK'
    BY <1>28, <2>1, SMTT(60) DEF EndTask, SaveTask, Goto, celery, TypeOK
  <2>3. Orderly'
    BY <1>28, <2>1, SMTT(60) DEF EndTask, SaveTask, Goto, celery, TypeOK
  <2> QED BY <2>2, <2>3, Zenon
<1>29. ASSUME NEW t \in Tasks, RunnerRaises(t)
      PROVE  TypeOK' /\ Orderly'
  <2>1. Moved(memTask[t], "failed") \in TaskRow /\ Moved(memTask[t], "failed") # NULL
    BY MovedTask, NewRows, SMTT(60) DEF TypeOK
  <2>2. TypeOK'
    BY <1>29, <2>1, SMTT(60) DEF RunnerRaises, SaveTask, Goto, celery, TypeOK
  <2>3. Orderly'
    BY <1>29, <2>1, Zenon DEF RunnerRaises, SaveTask, Goto, celery, TypeOK
  <2> QED BY <2>2, <2>3, Zenon
<1>30. ASSUME CreateReport
      PROVE  TypeOK' /\ Orderly'
  <2>1. mem[FP] \in JobRow
    BY <1>30, Zenon DEF CreateReport, TypeOK
  <2> DEFINE row == [mem[FP] EXCEPT !.report = TRUE]
  <2>2. row \in JobRow
    BY <2>1, ZenonT(60) DEF JobRow
  <2>3. /\ pc[FP] = "report"
        /\ UNCHANGED <<task, memTask, snap, celery>>
        /\ \/ \E l \in {"assign_report", "fail_job"} :
                 pc' = [pc EXCEPT ![FP] = l] /\ UNCHANGED <<job, mem>>
           \/ /\ job' = row
              /\ mem' = [mem EXCEPT ![FP] = row]
              /\ pc' = [pc EXCEPT ![FP] = "assign_report"]
    BY <1>30, Zenon DEF CreateReport, Save, Goto
  <2> HIDE DEF row
  <2>4. TypeOK'
    BY <2>2, <2>3, SMTT(60) DEF celery, TypeOK
  <2>5. Orderly'
    BY <2>2, <2>3, SMTT(60) DEF celery, TypeOK
  <2> QED BY <2>4, <2>5, Zenon
<1>31. ASSUME AssignReport
      PROVE  TypeOK' /\ Orderly'
  <2>1. TypeOK'
    BY <1>31, SMTT(60) DEF AssignReport, Save, Goto, celery, TypeOK, Status, Terminal, JobRow, TaskRow, NoTasks, NewTask, Moved
  <2>2. Orderly'
    BY <1>31, <2>1 DEF AssignReport, Save, Goto, celery, TypeOK, Status, Terminal, JobRow, TaskRow, NoTasks, NewTask, Moved
  <2> QED BY <2>1, <2>2, Zenon
<1>32. ASSUME ReadTasks
      PROVE  TypeOK' /\ Orderly'
  <2>1. TypeOK'
    BY <1>32, Zenon DEF ReadTasks, Goto, celery, TypeOK, Status, Terminal, JobRow, TaskRow, NoTasks, NewTask, Moved
  <2>2. Orderly'
    BY <1>32, <2>1, Zenon DEF ReadTasks, Goto, celery, TypeOK, Status, Terminal, JobRow, TaskRow, NoTasks, NewTask, Moved
  <2> QED BY <2>1, <2>2, Zenon
<1>33. ASSUME CompleteJob
      PROVE  TypeOK' /\ Orderly'
  <2>1. TypeOK'
    BY <1>33, SMTT(60) DEF CompleteJob, StatusComplete, HasError, Goto, Return, celery, TypeOK, Status, Terminal, JobRow, TaskRow, NoTasks, NewTask, Moved
  <2>2. Orderly'
    BY <1>33, <2>1, SMTT(60) DEF CompleteJob, StatusComplete, HasError, Goto, Return, celery, TypeOK, Status, Terminal, JobRow, TaskRow, NoTasks, NewTask, Moved
  <2> QED BY <2>1, <2>2, Zenon
<1>34. ASSUME NEW p \in Procs, Crash(p)
      PROVE  TypeOK' /\ Orderly'
  <2>1. TypeOK'
    BY <1>34, SMTT(60) DEF Crash, Goto, celery, TypeOK, Status, Terminal, JobRow, TaskRow, NoTasks, NewTask, Moved
  <2>2. Orderly'
    BY <1>34, <2>1, SMTT(60) DEF Crash, Goto, celery, TypeOK, Status, Terminal, JobRow, TaskRow, NoTasks, NewTask, Moved
  <2> QED BY <2>1, <2>2, Zenon
<1>35. CASE UNCHANGED vars
  BY <1>35, Zenon DEF vars, celery, TypeOK
<1> QED
  BY <1>1, <1>2, <1>3, <1>4, <1>5, <1>6, <1>7, <1>8, <1>9, <1>10, <1>11, <1>12, <1>13, <1>14, <1>15, <1>16, <1>17, <1>18, <1>19, <1>20, <1>21, <1>22, <1>23, <1>24, <1>25, <1>26, <1>27, <1>28, <1>29, <1>30, <1>31, <1>32, <1>33, <1>34, <1>35, ZenonT(60)
  DEF Next, StarterStep, CancelerStep, FirstCheck, WorkerCancel, RunTask,
      InspectStep, FingerprintStep, FinalizeStep

(* The order holds in every reachable state. *)
THEOREM Order == Spec => [](TypeOK /\ Orderly)
<1>1. Init => TypeOK /\ Orderly
  <2> SUFFICES ASSUME Init PROVE TypeOK /\ Orderly
    BY Zenon
  <2>1. memTask \in [Tasks -> TaskRow] /\ snap \in [Procs -> [Tasks -> TaskRow \cup {NULL}]]
    BY NewRows, Zenon DEF Init
  <2>2. TypeOK
    BY <2>1, NewRows, ZenonT(60) DEF Init, TypeOK, Labels
  <2>3. Orderly
    BY DistinctAssumption, Zenon DEF Init, Orderly, Holding, NoTasks, Workers, Tasks, Procs
  <2> QED BY <2>2, <2>3, Zenon
<1> QED BY <1>1, StepKeepsOrder, PTL DEF Spec

(* The rows, the instances and the snapshots keep their types. *)
THEOREM TypeCorrect == Spec => []TypeOK
BY Order, PTL

-----------------------------------------------------------------------------
(* A step that leaves the row alone, and at most drops or reloads an        *)
(* instance, keeps the agreement.                                          *)
LEMMA Untouched ==
    ASSUME NEW s \in Terminal, Agreed(s), UNCHANGED job,
           \A p \in Procs : mem'[p] \in {mem[p], NULL, job}
    PROVE  Agreed(s)'
BY Zenon DEF Agreed, JobIs

(* A step of p that writes the row and its own instance. *)
LEMMA Rewritten ==
    ASSUME NEW s \in Terminal, NEW p \in Procs, TypeOK, Agreed(s),
           job' # NULL, job'.status = s,
           \A q \in Procs : q # p => mem'[q] = mem[q],
           mem'[p] \in {NULL, job'}
    PROVE  Agreed(s)'
BY SMTT(60) DEF Agreed, JobIs

(* No step undoes an agreement on how the job ended. *)
LEMMA StepKeepsAgreement ==
    ASSUME TypeOK, Orderly, [Next]_vars, NEW s \in Terminal, Agreed(s)
    PROVE  Agreed(s)'
<1> USE DistinctAssumption DEF Procs, Workers, Tasks
<1>1. ASSUME Create
      PROVE  Agreed(s)'
  BY <1>1, Zenon DEF Create, Orderly, Agreed, JobIs
<1>2. ASSUME Queue
      PROVE  Agreed(s)'
  <2>1. mem[Starter].status = s
    BY <1>2, Zenon DEF Queue, Orderly, Holding, Agreed
  <2>2. UNCHANGED <<job, mem>>
    BY <1>2, <2>1, Zenon DEF Queue, HasError, Terminal
  <2> QED BY <2>2, Untouched, SMTT(60)
<1>3. ASSUME Start
      PROVE  Agreed(s)'
  <2>1. mem[Starter].status = s
    BY <1>3, Zenon DEF Start, Orderly, Holding, Agreed
  <2>2. UNCHANGED job /\ mem' = [mem EXCEPT ![Starter] = NULL]
    BY <1>3, <2>1, Zenon DEF Start, HasError, Terminal
  <2> QED BY <2>2, Untouched, Zenon DEF TypeOK
<1>4. ASSUME Dispatch
      PROVE  Agreed(s)'
  BY <1>4, Untouched, Zenon DEF Dispatch, Incomplete, TypeOK
<1>5. ASSUME CacheId
      PROVE  Agreed(s)'
  BY <1>5, Untouched, Zenon DEF CacheId, Goto, TypeOK
<1>6. ASSUME NEW c \in Cancelers, CancelRequest(c)
      PROVE  Agreed(s)'
  BY <1>6, Untouched, Zenon DEF CancelRequest, Goto, TypeOK
<1>7. ASSUME NEW p \in Cancelers \cup {FP, FIN}, SelectTasks(p, "cancel", "cancel_commit")
      PROVE  Agreed(s)'
  BY <1>7, Untouched, Zenon DEF SelectTasks, Goto, Return, HasError, TypeOK
<1>8. ASSUME NEW c \in Cancelers, SelectTasks(c, "cancel_again", "cancel_again_commit")
      PROVE  Agreed(s)'
  BY <1>8, Untouched, Zenon DEF SelectTasks, Goto, Return, HasError, TypeOK
<1>9. ASSUME NEW c \in Cancelers, KillCommit(c)
      PROVE  Agreed(s)'
  <2>1. mem[c] # NULL /\ mem[c].status \notin {"completed", "failed"}
    BY <1>9, Zenon DEF KillCommit, Orderly, Holding
  <2>2. s = "canceled"
    BY <2>1, SMTT(60) DEF Agreed, Terminal
  <2>3. job' # NULL /\ job'.status = "canceled"
    BY <1>9, <2>1, CommittedRows, Zenon DEF KillCommit
  <2>4. /\ mem'[c] \in {NULL, job'}
        /\ \A q \in Procs : q # c => mem'[q] = mem[q]
    BY <1>9, Zenon DEF KillCommit, Return, TypeOK
  <2> QED BY <2>2, <2>3, <2>4, Rewritten, Zenon
<1>10. ASSUME NEW c \in Cancelers, Revoke(c)
      PROVE  Agreed(s)'
  BY <1>10, Untouched, SMTT(60) DEF Revoke, Goto, TypeOK
<1>11. ASSUME NEW c \in Cancelers, CancelAgainCommit(c)
      PROVE  Agreed(s)'
  <2>1. mem[c] # NULL /\ mem[c].status \notin {"completed", "failed"}
    BY <1>11, SMTT(60) DEF CancelAgainCommit, Orderly, Holding
  <2>2. s = "canceled"
    BY <2>1, Zenon DEF Agreed, Terminal
  <2>3. job' # NULL /\ job'.status = "canceled"
    BY <1>11, <2>1, CommittedRows, Zenon DEF CancelAgainCommit
  <2>4. /\ mem'[c] \in {NULL, job'}
        /\ \A q \in Procs : q # c => mem'[q] = mem[q]
    BY <1>11, Zenon DEF CancelAgainCommit, Return, TypeOK
  <2> QED BY <2>2, <2>3, <2>4, Rewritten, Zenon
<1>12. ASSUME DeliverRevoke
      PROVE  Agreed(s)'
  BY <1>12, Untouched, Zenon DEF DeliverRevoke, TypeOK
<1>13. ASSUME Discard
      PROVE  Agreed(s)'
  BY <1>13, Untouched, Zenon DEF Discard, Deliverable, Goto, TypeOK
<1>14. ASSUME NEW w \in Workers, Load(w)
      PROVE  Agreed(s)'
  BY <1>14, Untouched, Zenon DEF Load, Deliverable, Goto, TypeOK
<1>15. ASSUME NEW w \in Workers, NEW l \in {"start_task", "report", "read_tasks"}, NotCanceled(w, l)
      PROVE  Agreed(s)'
  BY <1>15, Untouched, Zenon DEF NotCanceled, Goto, TypeOK
<1>16. ASSUME NEW w \in Workers, FoundCanceled(w)
      PROVE  Agreed(s)'
  BY <1>16, Untouched, Zenon DEF FoundCanceled, Goto, Return, TypeOK
<1>17. ASSUME NEW w \in Workers, NoAnswer(w)
      PROVE  Agreed(s)'
  BY <1>17, Untouched, Zenon DEF NoAnswer, Goto, TypeOK
<1>18. ASSUME NEW w \in {FP, FIN}, WorkerCancelCommit(w)
      PROVE  Agreed(s)'
  <2>1. mem[w] # NULL /\ mem[w].status \notin {"completed", "failed"}
    BY <1>18, Zenon DEF WorkerCancelCommit, Orderly, Holding
  <2>2. s = "canceled"
    BY <2>1, Zenon DEF Agreed, Terminal
  <2>3. job' # NULL /\ job'.status = "canceled"
    BY <1>18, <2>1, CommittedRows, Zenon DEF WorkerCancelCommit
  <2>4. /\ mem'[w] \in {NULL, job'}
        /\ \A q \in Procs : q # w => mem'[q] = mem[q]
    BY <1>18, Zenon DEF WorkerCancelCommit, Return, TypeOK
  <2> QED BY <2>2, <2>3, <2>4, Rewritten, Zenon
<1>19. ASSUME NEW t \in Tasks, SetTaskFailure(t)
      PROVE  Agreed(s)'
  BY <1>19, Untouched, Zenon DEF SetTaskFailure, Goto, Return, TypeOK
<1>20. ASSUME ReloadJob
      PROVE  Agreed(s)'
  BY <1>20, Untouched, Zenon DEF ReloadJob, Goto, TypeOK
<1>21. ASSUME NEW w \in {FP, FIN}, FailJob(w)
      PROVE  Agreed(s)'
  <2>1. mem[w] \in JobRow /\ mem[w].status = s
    BY <1>21, SMTT(60) DEF FailJob, Orderly, Holding, Agreed, TypeOK
  <2>2. job' # NULL /\ job'.status = s
    BY <1>21, <2>1, MovedJob, NewRows, Zenon DEF FailJob, StatusFail, HasError, Agreed, JobIs, Terminal
  <2>3. /\ mem'[w] \in {NULL, job'}
        /\ \A q \in Procs : q # w => mem'[q] = mem[q]
    BY <1>21, Zenon DEF FailJob, Return, TypeOK
  <2> QED BY <2>2, <2>3, Rewritten, Zenon
<1>22. ASSUME NEW t \in Tasks, FailJobAndRaise(t)
      PROVE  Agreed(s)'
  <2>1. mem[t] \in JobRow /\ mem[t].status = s
    BY <1>22, SMTT(60) DEF FailJobAndRaise, Orderly, Holding, Agreed, TypeOK
  <2>2. job' # NULL /\ job'.status = s
    BY <1>22, <2>1, MovedJob, NewRows, Zenon DEF FailJobAndRaise, StatusFail, HasError, Agreed, JobIs, Terminal
  <2>3. /\ mem'[t] \in {NULL, job'}
        /\ \A q \in Procs : q # t => mem'[q] = mem[q]
    BY <1>22, Zenon DEF FailJobAndRaise, Return, TypeOK
  <2> QED BY <2>2, <2>3, Rewritten, SMTT(60)
<1>23. ASSUME NEW t \in Tasks, StartTask(t)
      PROVE  Agreed(s)'
  BY <1>23, Untouched, Zenon DEF StartTask, SaveTask, Goto, TypeOK
<1>24. ASSUME NEW t \in Tasks, IncrementStats(t)
      PROVE  Agreed(s)'
  BY <1>24, Untouched, Zenon DEF IncrementStats, SaveTask, Goto, TypeOK
<1>25. ASSUME NEW t \in Tasks, Refresh(t)
      PROVE  Agreed(s)'
  BY <1>25, Untouched, Zenon DEF Refresh, Goto, TypeOK
<1>26. ASSUME NEW t \in Tasks, UpdateStats(t)
      PROVE  Agreed(s)'
  BY <1>26, Untouched, Zenon DEF UpdateStats, SaveTask, Goto, TypeOK
<1>27. ASSUME NEW t \in Tasks, CompleteTask(t)
      PROVE  Agreed(s)'
  BY <1>27, Untouched, Zenon DEF CompleteTask, SaveTask, Goto, TypeOK
<1>28. ASSUME NEW t \in Tasks, NEW z \in {"failed", "canceled"}, EndTask(t, z)
      PROVE  Agreed(s)'
  BY <1>28, Untouched, Zenon DEF EndTask, SaveTask, Goto, TypeOK
<1>29. ASSUME NEW t \in Tasks, RunnerRaises(t)
      PROVE  Agreed(s)'
  BY <1>29, Untouched, Zenon DEF RunnerRaises, SaveTask, Goto, TypeOK
<1>30. ASSUME CreateReport
      PROVE  Agreed(s)'
  <2>1. mem[FP] \in JobRow /\ mem[FP].status = s
    BY <1>30, Zenon DEF CreateReport, Orderly, Holding, Agreed, TypeOK
  <2>2. [mem[FP] EXCEPT !.report = TRUE] \in JobRow /\ [mem[FP] EXCEPT !.report = TRUE].status = s
    BY <2>1, ZenonT(60) DEF JobRow
  <2>3. CASE UNCHANGED <<job, mem>>
    BY <2>3, Untouched, Zenon
  <2>4. CASE Save(FP, [mem[FP] EXCEPT !.report = TRUE], "assign_report")
    BY <2>2, <2>4, Rewritten, NullAssumption, ZenonT(60) DEF Save, TypeOK
  <2> QED BY <1>30, <2>3, <2>4, Zenon DEF CreateReport
<1>31. ASSUME AssignReport
      PROVE  Agreed(s)'
  <2>1. mem[FP] # NULL /\ mem[FP].status = s
    BY <1>31, Zenon DEF AssignReport, Orderly, Holding, Agreed
  <2> QED BY <1>31, <2>1, Rewritten, ZenonT(60) DEF AssignReport, Save, TypeOK
<1>32. ASSUME ReadTasks
      PROVE  Agreed(s)'
  BY <1>32, Untouched, Zenon DEF ReadTasks, Goto, TypeOK
<1>33. ASSUME CompleteJob
      PROVE  Agreed(s)'
  <2>1. mem[FIN] \in JobRow /\ mem[FIN].status = s
    BY <1>33, Zenon DEF CompleteJob, Orderly, Holding, Agreed, TypeOK
  <2>2. job' # NULL /\ job'.status = s
    BY <1>33, <2>1, MovedJob, NewRows, Zenon DEF CompleteJob, StatusComplete, HasError, Agreed, JobIs, Terminal
  <2>3. /\ mem'[FIN] \in {NULL, job'}
        /\ \A q \in Procs : q # FIN => mem'[q] = mem[q]
    BY <1>33, Zenon DEF CompleteJob, Return, TypeOK
  <2> QED BY <2>2, <2>3, Rewritten, Zenon
<1>34. ASSUME NEW p \in Procs, Crash(p)
      PROVE  Agreed(s)'
  BY <1>34, Untouched, Zenon DEF Crash, Goto, TypeOK
<1>35. CASE UNCHANGED vars
  BY <1>35, Untouched, Zenon DEF vars
<1> QED
  BY <1>1, <1>2, <1>3, <1>4, <1>5, <1>6, <1>7, <1>8, <1>9, <1>10, <1>11, <1>12, <1>13, <1>14, <1>15, <1>16, <1>17, <1>18, <1>19, <1>20, <1>21, <1>22, <1>23, <1>24, <1>25, <1>26, <1>27, <1>28, <1>29, <1>30, <1>31, <1>32, <1>33, <1>34, <1>35, SMTT(60)
  DEF Next, StarterStep, CancelerStep, FirstCheck, WorkerCancel, RunTask,
      InspectStep, FingerprintStep, FinalizeStep

(* Once the row and every instance agree on how the job ended, no request,  *)
(* worker or exception handler changes it any more.                        *)
THEOREM AgreementStable == Spec => AgreementIsStable
<1>1. TypeOK /\ Orderly /\ [Next]_vars =>
        [\A s \in Terminal : Agreed(s) => Agreed(s)']_vars
  BY StepKeepsAgreement, Zenon
<1> QED BY <1>1, Order, PTL DEF Spec, AgreementIsStable

-----------------------------------------------------------------------------
(* How far the chord has come, and what a row that ended and the instances  *)
(* of the later workers know of it: fingerprint runs behind all inspect     *)
(* tasks, finalize_scan behind all others; only the end of finalize_scan    *)
(* completes a job; nobody loads a completed row; and what the fingerprint  *)
(* and finalize workers hold of a failed job is that it failed.            *)
Chord ==
    /\ pc[FP] \notin {"idle", "queued"} => \A t \in canvas \cap Sources : pc[t] = "done"
    /\ pc[FIN] \notin {"idle", "queued"} => \A t \in canvas \ {FIN} : pc[t] = "done"
    /\ JobIs("completed") => pc[FIN] = "done"
    /\ JobIs("failed") => canvas # {}
    /\ \A p \in Procs : mem[p] # NULL => mem[p].status # "completed"
    /\ \A w \in {FP, FIN} : mem[w] # NULL /\ JobIs("failed") => mem[w].status = "failed"

(* Every step keeps the chord in order, and a job that completed or failed  *)
(* changes only to canceled.                                               *)
LEMMA StepKeepsChord ==
    ASSUME TypeOK, Orderly, Chord, [Next]_vars
    PROVE  /\ Chord'
           /\ \A s \in {"completed", "failed"} :
                 JobIs(s) => JobIs(s)' \/ JobIs("canceled")'
<1> DEFINE Kept == \A s \in {"completed", "failed"} :
                      JobIs(s) => JobIs(s)' \/ JobIs("canceled")'
<1> USE DistinctAssumption DEF Procs, Workers, Tasks, Orderly, Holding, Chord, JobIs
<1>1. ASSUME Create
      PROVE  Chord' /\ Kept
  BY <1>1, SMTT(60) DEF Create, Save, Goto, celery, TypeOK
<1>2. ASSUME Queue
      PROVE  Chord' /\ Kept
  BY <1>2, MovedJob, NewRows, SMTT(60) DEF Queue, Save, Goto, HasError, celery, TypeOK
<1>3. ASSUME Start
      PROVE  Chord' /\ Kept
  BY <1>3, MovedJob, NewRows, SMTT(60) DEF Start, Goto, HasError, celery, TypeOK
<1>4. ASSUME Dispatch
      PROVE  Chord' /\ Kept
  BY <1>4, SMTT(60) DEF Dispatch, Incomplete, celery, TypeOK
<1>5. ASSUME CacheId
      PROVE  Chord' /\ Kept
  BY <1>5, SMTT(60) DEF CacheId, Goto, celery, TypeOK
<1>6. ASSUME NEW c \in Cancelers, CancelRequest(c)
      PROVE  Chord' /\ Kept
  <2>1. /\ pc[c] = "idle" /\ UNCHANGED <<job, task, memTask, snap, celery>>
        /\ \/ pc' = [pc EXCEPT ![c] = "done"] /\ UNCHANGED mem
           \/ /\ pc' = [pc EXCEPT ![c] = "cancel"] /\ mem' = [mem EXCEPT ![c] = job]
              /\ job.status # "completed"
    BY <1>6, SMTT(60) DEF CancelRequest, Goto, Terminal
  <2>2. \A p \in Procs \ {c} : pc'[p] = pc[p] /\ mem'[p] = mem[p]
    BY <2>1, SMTT(60) DEF TypeOK
  <2>3. mem'[c] # NULL => mem'[c].status # "completed"
    BY <2>1, SMTT(60) DEF TypeOK
  <2>4. Chord'
    BY <2>1, <2>2, <2>3, SMTT(60) DEF celery, TypeOK
  <2> QED BY <2>1, <2>4, Zenon
<1>7. ASSUME NEW p \in Cancelers \cup {FP, FIN}, SelectTasks(p, "cancel", "cancel_commit")
      PROVE  Chord' /\ Kept
  BY <1>7, SMTT(60) DEF SelectTasks, Goto, Return, HasError, celery, TypeOK
<1>8. ASSUME NEW c \in Cancelers, SelectTasks(c, "cancel_again", "cancel_again_commit")
      PROVE  Chord' /\ Kept
  BY <1>8, SMTT(60) DEF SelectTasks, Goto, Return, HasError, celery, TypeOK
<1>9. ASSUME NEW c \in Cancelers, KillCommit(c)
      PROVE  Chord' /\ Kept
  <2>1. mem[c] # NULL /\ CommitCancel(c)
    BY <1>9, SMTT(60) DEF KillCommit
  <2> QED BY <1>9, <2>1, CommittedRows, ZenonT(60) DEF KillCommit, Goto, Return, celery, TypeOK
<1>10. ASSUME NEW c \in Cancelers, Revoke(c)
      PROVE  Chord' /\ Kept
  BY <1>10, SMTT(60) DEF Revoke, Goto, celery, TypeOK
<1>11. ASSUME NEW c \in Cancelers, CancelAgainCommit(c)
      PROVE  Chord' /\ Kept
  <2>1. mem[c] # NULL /\ CommitCancel(c)
    BY <1>11, ZenonT(60) DEF CancelAgainCommit
  <2> QED BY <1>11, <2>1, CommittedRows, ZenonT(60) DEF CancelAgainCommit, Goto, Return, celery, TypeOK
<1>12. ASSUME DeliverRevoke
      PROVE  Chord' /\ Kept
  BY <1>12, SMTT(60) DEF DeliverRevoke, celery, TypeOK
<1>13. ASSUME Discard
      PROVE  Chord' /\ Kept
  BY <1>13, SMTT(60) DEF Discard, Deliverable, Goto, Prerequisites, celery, TypeOK
<1>14. ASSUME NEW w \in Workers, Load(w)
      PROVE  Chord' /\ Kept
  BY <1>14, SMTT(60) DEF Load, Deliverable, Goto, Prerequisites, celery, TypeOK
<1>15. ASSUME NEW w \in Workers, NEW l \in {"start_task", "report", "read_tasks"}, NotCanceled(w, l)
      PROVE  Chord' /\ Kept
  BY <1>15, SMTT(60) DEF NotCanceled, Goto, celery, TypeOK
<1>16. ASSUME NEW w \in Workers, FoundCanceled(w)
      PROVE  Chord' /\ Kept
  <2>1. /\ pc[w] = "check" /\ UNCHANGED <<job, task, memTask, snap, celery>>
        /\ \/ pc' = [pc EXCEPT ![w] = "done"] /\ mem' = [mem EXCEPT ![w] = NULL]
           \/ pc' = [pc EXCEPT ![w] = "cancel"] /\ UNCHANGED mem
    BY <1>16, SMTT(60) DEF FoundCanceled, Goto, Return
  <2> QED BY <2>1, SMTT(60) DEF celery, TypeOK
<1>17. ASSUME NEW w \in Workers, NoAnswer(w)
      PROVE  Chord' /\ Kept
  BY <1>17, SMTT(60) DEF NoAnswer, Goto, celery, TypeOK
<1>18. ASSUME NEW w \in {FP, FIN}, WorkerCancelCommit(w)
      PROVE  Chord' /\ Kept
  <2>1. mem[w] # NULL /\ CommitCancel(w)
    BY <1>18, Zenon DEF WorkerCancelCommit
  <2> QED BY <1>18, <2>1, CommittedRows, ZenonT(60) DEF WorkerCancelCommit, Goto, Return, celery, TypeOK
<1>19. ASSUME NEW t \in Tasks, SetTaskFailure(t)
      PROVE  Chord' /\ Kept
  BY <1>19, SMTT(60) DEF SetTaskFailure, Goto, Return, celery, TypeOK
<1>20. ASSUME ReloadJob
      PROVE  Chord' /\ Kept
  BY <1>20, SMTT(60) DEF ReloadJob, Goto, celery, TypeOK
<1>21. ASSUME NEW w \in {FP, FIN}, FailJob(w)
      PROVE  Chord' /\ Kept
  <2>1. mem[w] \in JobRow /\ w \in canvas /\ job # NULL
    BY <1>21, SMTT(60) DEF FailJob, TypeOK
  <2>2. job' = job \/ (job' # NULL /\ job'.status = "failed")
    BY <1>21, <2>1, MovedJob, NewRows, ZenonT(60) DEF FailJob, StatusFail
  <2>3. /\ pc[w] = "fail_job" /\ UNCHANGED celery
        /\ pc' = [pc EXCEPT ![w] = "done"] /\ mem' = [mem EXCEPT ![w] = NULL]
    BY <1>21, SMTT(60) DEF FailJob, Return, Goto
  <2>4. CASE w = FP
    BY <2>1, <2>2, <2>3, <2>4, SMTT(60) DEF celery, TypeOK
  <2>5. CASE w = FIN
    BY <2>1, <2>2, <2>3, <2>5, SMTT(60) DEF celery, TypeOK
  <2> QED BY <2>4, <2>5, Zenon
<1>22. ASSUME NEW t \in Tasks, FailJobAndRaise(t)
      PROVE  Chord' /\ Kept
  BY <1>22, MovedJob, NewRows, SMTT(60) DEF FailJobAndRaise, StatusFail, HasError, Goto, celery, TypeOK
<1>23. ASSUME NEW t \in Tasks, StartTask(t)
      PROVE  Chord' /\ Kept
  BY <1>23, SMTT(60) DEF StartTask, SaveTask, Goto, celery, TypeOK
<1>24. ASSUME NEW t \in Tasks, IncrementStats(t)
      PROVE  Chord' /\ Kept
  BY <1>24, SMTT(60) DEF IncrementStats, SaveTask, Goto, celery, TypeOK
<1>25. ASSUME NEW t \in Tasks, Refresh(t)
      PROVE  Chord' /\ Kept
  BY <1>25, SMTT(60) DEF Refresh, Goto, celery, TypeOK
<1>26. ASSUME NEW t \in Tasks, UpdateStats(t)
      PROVE  Chord' /\ Kept
  BY <1>26, SMTT(60) DEF UpdateStats, SaveTask, Goto, celery, TypeOK
<1>27. ASSUME NEW t \in Tasks, CompleteTask(t)
      PROVE  Chord' /\ Kept
  BY <1>27, SMTT(60) DEF CompleteTask, SaveTask, Goto, celery, TypeOK
<1>28. ASSUME NEW t \in Tasks, NEW z \in {"failed", "canceled"}, EndTask(t, z)
      PROVE  Chord' /\ Kept
  BY <1>28, SMTT(60) DEF EndTask, SaveTask, Goto, celery, TypeOK
<1>29. ASSUME NEW t \in Tasks, RunnerRaises(t)
      PROVE  Chord' /\ Kept
  BY <1>29, SMTT(60) DEF RunnerRaises, SaveTask, Goto, celery, TypeOK
<1>30. ASSUME CreateReport
      PROVE  Chord' /\ Kept
  <2> DEFINE row == [mem[FP] EXCEPT !.report = TRUE]
  <2>1. mem[FP] \in JobRow
    BY <1>30, SMTT(60) DEF CreateReport, TypeOK
  <2>2. row \in JobRow /\ row # NULL /\ row.status = mem[FP].status
    BY <2>1, NullAssumption, ZenonT(60) DEF JobRow
  <2>3. /\ pc[FP] = "report" /\ UNCHANGED celery
        /\ \/ \E l \in {"assign_report", "fail_job"} :
                 pc' = [pc EXCEPT ![FP] = l] /\ UNCHANGED <<job, mem>>
           \/ /\ job' = row
              /\ mem' = [mem EXCEPT ![FP] = row]
              /\ pc' = [pc EXCEPT ![FP] = "assign_report"]
    BY <1>30, Zenon DEF CreateReport, Save, Goto
  <2> HIDE DEF row
  <2> QED BY <2>1, <2>2, <2>3, SMTT(60) DEF celery, TypeOK
<1>31. ASSUME AssignReport
      PROVE  Chord' /\ Kept
  BY <1>31, SMTT(60) DEF AssignReport, Save, Goto, celery, TypeOK
<1>32. ASSUME ReadTasks
      PROVE  Chord' /\ Kept
  BY <1>32, SMTT(60) DEF ReadTasks, Goto, celery, TypeOK
<1>33. ASSUME CompleteJob
      PROVE  Chord' /\ Kept
  BY <1>33, MovedJob, NewRows, SMTT(60) DEF CompleteJob, StatusComplete, HasError, Goto, Return, celery, TypeOK
<1>34. ASSUME NEW p \in Procs, Crash(p)
      PROVE  Chord' /\ Kept
  BY <1>34, SMTT(60) DEF Crash, Goto, celery, TypeOK
<1>35. CASE UNCHANGED vars
  BY <1>35, Zenon DEF vars, celery
<1> HIDE DEF Orderly, Chord, Kept
<1> QED
  BY <1>1, <1>2, <1>3, <1>4, <1>5, <1>6, <1>7, <1>8, <1>9, <1>10, <1>11, <1>12, <1>13, <1>14, <1>15, <1>16, <1>17, <1>18, <1>19, <1>20, <1>21, <1>22, <1>23, <1>24, <1>25, <1>26, <1>27, <1>28, <1>29, <1>30, <1>31, <1>32, <1>33, <1>34, <1>35, ZenonT(60)
  DEF Next, StarterStep, CancelerStep, FirstCheck, WorkerCancel, RunTask,
      InspectStep, FingerprintStep, FinalizeStep, Kept

(* A completed or failed job never runs again, and never turns from one of  *)
(* the two into the other.                                                 *)
THEOREM FinishedStays == Spec => FinishedOnlyCanceled
<1>1. Init => Chord
  BY SMTT(60) DEF Init, Chord, JobIs, Workers, Tasks, Procs
<1>2. TypeOK /\ Orderly /\ Chord /\ [Next]_vars => Chord'
  BY StepKeepsChord, Zenon
<1>3. TypeOK /\ Orderly /\ Chord /\ [Next]_vars =>
        [\A s \in {"completed", "failed"} :
            JobIs(s) => JobIs(s)' \/ JobIs("canceled")']_vars
  BY StepKeepsChord, Zenon
<1> QED BY <1>1, <1>2, <1>3, Order, PTL DEF Spec, FinishedOnlyCanceled

-----------------------------------------------------------------------------
(* What a completed job leaves behind: no task is pending or running, and the  *)
(* report that fingerprint created is on the row.                            *)

(* Nothing is left to do for a task: it has no row or its row has ended. *)
Settled(t) == task[t] = NULL \/ task[t].status \in Terminal

(* How tasks and the row stand once tasks are sent.  Tasks are created all  *)
(* together and never in the status "created"; those that are not sent have *)
(* ended.  A task returns with its row ended but in two cases: an inspect   *)
(* task that finds finalize_scan revoked leaves its row alone, and then     *)
(* finalize_scan is discarded; fingerprint leaves it alone when it has      *)
(* nothing to report or cancels the job, and then the row of the job has    *)
(* ended and finalize_scan sees that.                                      *)
Settling ==
    /\ \A t, u \in Tasks : task[t] # NULL => task[u] # NULL
    /\ \A t \in Tasks : task[t] # NULL => task[t].status # "created"
    /\ \A t \in Tasks : memTask[t].status # "created"
    /\ pc[Starter] \in {"create", "queue"} => \A t \in Tasks : task[t] = NULL
    /\ \A p \in Procs, t \in Tasks : snap[p][t] # NULL => task[t] # NULL
    /\ pc[Starter] = "dispatch" \/ canvas # {} => job.status \in {"running"} \cup Terminal
    /\ canvas # {} => \A t \in Tasks \ canvas : Settled(t)
    /\ \A w \in Workers : mem[w] # NULL => mem[w].status \in {"running"} \cup Terminal
    /\ mem[FP] # NULL /\ job.status = "running" => mem[FP].status = "running"
    /\ \A t \in canvas \cap Sources :
          pc[t] = "done" /\ ~Settled(t) => revoked /\ pc[FIN] \in {"idle", "queued", "done"}
    /\ FP \in canvas /\ pc[FP] = "done" /\ ~Settled(FP) =>
          /\ job.status \in {"failed", "canceled"}
          /\ mem[FIN] # NULL => mem[FIN].status \in {"failed", "canceled"}
    /\ JobIs("completed") => \A t \in Tasks : Settled(t)

(* Where fingerprint has assigned the report, and its runner works. *)
Assigned == {"start_task", "run", "refreshed", "fail_job_and_raise"}

(* From the moment fingerprint has assigned the report, the row has it or   *)
(* was overwritten by a cancel, and so does what finalize_scan loads.      *)
Reporting ==
    /\ pc[FP] \in Assigned \cup {"assign_report"} => mem[FP].report
    /\ pc[FP] \in Assigned => job.report \/ job.status = "canceled"
    /\ task[FP] # NULL /\ task[FP].status = "completed" =>
          /\ pc[FP] = "done"
          /\ job.report \/ job.status = "canceled"
          /\ mem[FIN] # NULL => mem[FIN].report \/ mem[FIN].status = "canceled"

Inv == TypeOK /\ Orderly /\ Chord /\ Settling /\ Reporting

(* A step of the process p: the others stay where they are, with what they  *)
(* have in memory.                                                         *)
Only(p) == \A q \in Procs \ {p} : pc'[q] = pc[q] /\ mem'[q] = mem[q]

(* The processes are different, and where the workers belong. *)
LEMMA Roles ==
    /\ FP \in Tasks /\ FP \notin Sources /\ FP # FIN /\ FP # Starter
    /\ FIN \notin Tasks /\ FIN # Starter
    /\ FP \in Workers /\ FIN \in Workers /\ Starter \in Procs /\ Starter \notin Workers
    /\ Tasks \subseteq Workers /\ Workers \subseteq Procs /\ Sources \subseteq Tasks
    /\ \A t \in Tasks : t = FP \/ t \in Sources
    /\ \A w \in Workers : w = FIN \/ w \in Tasks
    /\ \A c \in Cancelers : c \in Procs /\ c \notin Workers /\ c # Starter
BY DistinctAssumption, Zenon DEF Tasks, Workers, Procs

(* While a task is on its way, what comes behind it has not begun and the   *)
(* job has not completed.                                                  *)
LEMMA Busy ==
    ASSUME TypeOK, Orderly, Chord, NEW t \in Tasks, pc[t] \notin {"idle", "done"}
    PROVE  /\ t \in canvas
           /\ ~JobIs("completed")
           /\ pc[FIN] \in {"idle", "queued"}
           /\ mem[FIN] = NULL
           /\ t \in Sources => pc[FP] \in {"idle", "queued"} /\ mem[FP] = NULL
BY Roles, SMTT(30) DEF Orderly, Chord, JobIs, Holding

(* The parts of the invariant that most steps use. *)
LEMMA Parts ==
    ASSUME Inv
    PROVE  /\ TypeOK /\ Orderly /\ Chord
           /\ \A q \in Procs, u \in Tasks : snap[q][u] # NULL => task[u] # NULL
           /\ \A u \in Tasks : memTask[u].status # "created"
BY Zenon DEF Inv, Settling

(* A step that moves no process and writes nothing (finalize_scan may be    *)
(* revoked by it) keeps both invariants.                                   *)
LEMMA Unmoved ==
    ASSUME Inv, UNCHANGED <<job, task, mem, memTask, snap, pc, canvas>>,
           revoked => revoked'
    PROVE  Settling' /\ Reporting'
<1>1. \A t \in Tasks : Settled(t)' <=> Settled(t)
  BY Zenon DEF Settled
<1>2. JobIs("completed")' <=> JobIs("completed")
  BY Zenon DEF JobIs
<1>3. \A t \in canvas' \cap Sources :
          pc'[t] = "done" /\ ~Settled(t)' => revoked' /\ pc'[FIN] \in {"idle", "queued", "done"}
  BY <1>1, Roles, Zenon DEF Inv, Settling
<1>4. /\ canvas' # {} => \A t \in Tasks \ canvas' : Settled(t)'
      /\ FP \in canvas' /\ pc'[FP] = "done" /\ ~Settled(FP)' =>
            /\ job'.status \in {"failed", "canceled"}
            /\ mem'[FIN] # NULL => mem'[FIN].status \in {"failed", "canceled"}
      /\ JobIs("completed")' => \A t \in Tasks : Settled(t)'
  BY <1>1, <1>2, Roles, Zenon DEF Inv, Settling
<1>5. Settling'
  BY <1>3, <1>4, Zenon DEF Inv, Settling
<1>6. Reporting'
  BY Zenon DEF Inv, Reporting
<1> QED BY <1>5, <1>6, Zenon

(* A step of one process that writes no row keeps both invariants. *)
LEMMA Aside ==
    ASSUME Inv, NEW p \in Procs, Only(p),
           UNCHANGED <<job, task, celery>>,
           \A q \in Procs, t \in Tasks : snap'[q][t] # NULL => task[t] # NULL,
           \A t \in Tasks : memTask'[t].status # "created",
           mem'[p] \in {NULL, mem[p], job},
           pc'[p] \notin {"create", "queue", "dispatch"},
           p \in Workers => pc[p] \notin {"idle", "done"},
           p \in Sources /\ pc'[p] = "done" => revoked,
           p = FP /\ pc'[p] = "done" => job.status \in {"failed", "canceled"},
           p = FIN /\ pc[p] = "queued" /\ pc'[p] # "done" => ~revoked,
           p = FP /\ pc'[p] \in Assigned \cup {"assign_report"} =>
              pc[p] \in Assigned /\ pc'[p] \in Assigned /\ mem'[p] = mem[p]
    PROVE  Settling' /\ Reporting'
<1> USE Roles
<1>1. \A t \in Tasks : Settled(t)' <=> Settled(t)
  BY Zenon DEF Settled
<1>2. p \in Workers => canvas # {} /\ p \in canvas
  BY Zenon DEF Inv, Orderly
<1>3. p \in Tasks => pc[FIN] \in {"idle", "queued"} /\ mem[FIN] = NULL /\ pc'[FIN] = pc[FIN] /\ mem'[FIN] = NULL
  BY Busy, Zenon DEF Inv, Only
<1>4. /\ \A t, u \in Tasks : task'[t] # NULL => task'[u] # NULL
      /\ \A t \in Tasks : task'[t] # NULL => task'[t].status # "created"
      /\ pc'[Starter] \in {"create", "queue"} => \A t \in Tasks : task'[t] = NULL
      /\ pc'[Starter] = "dispatch" \/ canvas' # {} => job'.status \in {"running"} \cup Terminal
      /\ canvas' # {} => \A t \in Tasks \ canvas' : Settled(t)'
      /\ JobIs("completed")' => \A t \in Tasks : Settled(t)'
  BY <1>1, Zenon DEF Inv, Settling, Only, celery, JobIs
<1>5. \A w \in Workers : mem'[w] # NULL => mem'[w].status \in {"running"} \cup Terminal
  BY <1>2, Zenon DEF Inv, Settling, Only
<1>6. mem'[FP] # NULL /\ job'.status = "running" => mem'[FP].status = "running"
  BY Zenon DEF Inv, Settling, Only
<1>7. \A t \in canvas' \cap Sources :
          pc'[t] = "done" /\ ~Settled(t)' => revoked' /\ pc'[FIN] \in {"idle", "queued", "done"}
  BY <1>1, <1>2, <1>3, Zenon DEF Inv, Settling, Only, celery
<1>8. FP \in canvas' /\ pc'[FP] = "done" /\ ~Settled(FP)' =>
          /\ job'.status \in {"failed", "canceled"}
          /\ mem'[FIN] # NULL => mem'[FIN].status \in {"failed", "canceled"}
  BY <1>1, <1>3, Zenon DEF Inv, Settling, Only, celery
<1>9. Reporting'
  <2>1. CASE p = FP
    BY <1>3, <2>1, Zenon DEF Inv, Reporting, Only
  <2>2. CASE p # FP
    BY <2>2, Zenon DEF Inv, Reporting, Only
  <2> QED BY <2>1, <2>2, Zenon
<1> HIDE DEF Settled
<1> QED BY <1>4, <1>5, <1>6, <1>7, <1>8, <1>9, Zenon DEF Settling

(* So does a step in which a task that runs saves its own row. *)
LEMMA Saves ==
    ASSUME Inv, NEW t \in Tasks, NEW row, Only(t),
           pc[t] \notin {"idle", "queued", "done"},
           UNCHANGED <<job, snap, celery>>,
           task' = [task EXCEPT ![t] = row],
           row # NULL, row.status # "created",
           \A u \in Tasks : memTask'[u].status # "created",
           mem'[t] \in {NULL, mem[t]},
           pc'[t] = "done" => row.status \in Terminal,
           t = FP /\ row.status = "completed" => pc[t] \in Assigned /\ pc'[t] = "done",
           t = FP /\ pc'[t] \in Assigned \cup {"assign_report"} =>
              pc[t] \in Assigned /\ pc'[t] \in Assigned /\ mem'[t] = mem[t]
    PROVE  Settling' /\ Reporting'
<1> USE Roles
<1>1. /\ t \in canvas /\ ~JobIs("completed") /\ mem[FIN] = NULL
      /\ pc[FIN] \in {"idle", "queued"}
      /\ t \in Sources => pc[FP] \in {"idle", "queued"}
  BY Busy, Zenon DEF Inv
<1>2. /\ \A u \in Tasks \ {t} : task'[u] = task[u] /\ (Settled(u)' <=> Settled(u))
      /\ task'[t] = row
      /\ task[t] # NULL
  <2>1. task \in [Tasks -> TaskRow \cup {NULL}] /\ task[t] # NULL
    BY <1>1, Zenon DEF Inv, TypeOK, Orderly
  <2> QED BY <2>1, Zenon DEF Settled
<1>3. pc'[t] = "done" => Settled(t)'
  BY <1>2, Zenon DEF Settled
<1>4. /\ \A u, v \in Tasks : task'[u] # NULL => task'[v] # NULL
      /\ \A u \in Tasks : task'[u] # NULL => task'[u].status # "created"
      /\ pc'[Starter] \notin {"create", "queue"}
      /\ \A p \in Procs, u \in Tasks : snap'[p][u] # NULL => task'[u] # NULL
  BY <1>2 DEF Inv, Settling, Only
<1>5. /\ pc'[Starter] = "dispatch" \/ canvas' # {} => job'.status \in {"running"} \cup Terminal
      /\ canvas' # {} => \A u \in Tasks \ canvas' : Settled(u)'
      /\ \A w \in Workers : mem'[w] # NULL => mem'[w].status \in {"running"} \cup Terminal
      /\ mem'[FP] # NULL /\ job'.status = "running" => mem'[FP].status = "running"
      /\ ~JobIs("completed")'
  BY <1>1, <1>2, Zenon DEF Inv, Settling, Only, celery, JobIs
<1>6. \A u \in canvas' \cap Sources :
          pc'[u] = "done" /\ ~Settled(u)' => revoked' /\ pc'[FIN] \in {"idle", "queued", "done"}
  BY <1>2, <1>3, Zenon DEF Inv, Settling, Only, celery
<1>7. FP \in canvas' /\ pc'[FP] = "done" /\ ~Settled(FP)' =>
          /\ job'.status \in {"failed", "canceled"}
          /\ mem'[FIN] # NULL => mem'[FIN].status \in {"failed", "canceled"}
  BY <1>1, <1>2, <1>3, Zenon DEF Inv, Settling, Only, celery
<1>8. Reporting'
  <2>1. CASE t = FP
    BY <1>1, <1>2, <2>1, Zenon DEF Inv, Reporting, Only
  <2>2. CASE t # FP
    BY <1>1, <1>2, <2>2, Zenon DEF Inv, Reporting, Only
  <2> QED BY <2>1, <2>2, Zenon
<1> QED BY <1>4, <1>5, <1>6, <1>7, <1>8, Zenon DEF Settling

(* A cancel's commit touches only tasks that exist, ends them, and keeps    *)
(* both invariants, whoever makes it.                                      *)
LEMMA Commits ==
    ASSUME Inv, NEW p \in Procs \ Sources, Only(p), CommitCancel(p),
           pc[p] \in {"cancel_commit", "cancel_again_commit"},
           pc'[p] \in {"revoke", "done"},
           mem'[p] \in {NULL, job'}
    PROVE  Settling' /\ Reporting'
<1> USE Roles
<1>1. mem[p] # NULL
  BY Zenon DEF Inv, Orderly, Holding
<1>2. /\ job' \in JobRow /\ job' # NULL /\ job'.status = "canceled"
      /\ UNCHANGED <<memTask, celery>>
  BY <1>1, CommittedRows, Zenon DEF Inv
<1>3. /\ \A t \in Tasks : /\ task'[t] = NULL <=> task[t] = NULL
                          /\ task'[t] # task[t] => task'[t].status = "canceled"
      /\ \A q \in Procs, t \in Tasks : snap'[q][t] # NULL => snap[q][t] # NULL
  <2>1. \A t \in Tasks : snap[p][t] # NULL =>
          /\ task[t] # NULL
          /\ Moved(snap[p][t], "canceled") # NULL
          /\ Moved(snap[p][t], "canceled").status = "canceled"
    BY MovedTask, NewRows, SMTT(30) DEF Inv, TypeOK, Settling
  <2>2. \A q \in Procs, t \in Tasks : snap'[q][t] # NULL => snap[q][t] # NULL
    BY Zenon DEF CommitCancel, NoTasks, Inv, TypeOK
  <2> QED BY <2>1, <2>2, Zenon DEF CommitCancel
<1>4. \A t \in Tasks : Settled(t) => Settled(t)'
  BY <1>3, Zenon DEF Settled, Terminal
<1>5. p = FP => mem[FIN] = NULL /\ mem'[FIN] = NULL
  BY Busy, Zenon DEF Inv, Only
<1>6. /\ \A t, u \in Tasks : task'[t] # NULL => task'[u] # NULL
      /\ \A t \in Tasks : task'[t] # NULL => task'[t].status # "created"
      /\ \A t \in Tasks : memTask'[t].status # "created"
      /\ pc'[Starter] \in {"create", "queue"} => \A t \in Tasks : task'[t] = NULL
      /\ \A q \in Procs, t \in Tasks : snap'[q][t] # NULL => task'[t] # NULL
      /\ canvas' # {} => \A t \in Tasks \ canvas' : Settled(t)'
  BY <1>2, <1>3, <1>4, Zenon DEF Inv, Settling, Only, celery
<1>7. \A w \in Workers : mem'[w] # NULL => mem'[w].status \in {"running"} \cup Terminal
  BY <1>2, Zenon DEF Inv, Settling, Only, Terminal
<1>8. \A t \in canvas' \cap Sources :
          pc'[t] = "done" /\ ~Settled(t)' => revoked' /\ pc'[FIN] \in {"idle", "queued", "done"}
  BY <1>2, <1>4, Zenon DEF Inv, Settling, Only, celery
<1>9. mem'[FIN] # NULL /\ FP \in canvas' /\ pc'[FP] = "done" /\ ~Settled(FP)' =>
        mem'[FIN].status \in {"failed", "canceled"}
  BY <1>2, <1>4, <1>5, Zenon DEF Inv, Settling, Only, celery
<1>10. Reporting'
  BY <1>2, <1>3, <1>5, Zenon DEF Inv, Reporting, Only, Assigned
<1> QED BY <1>2, <1>6, <1>7, <1>8, <1>9, <1>10, Zenon DEF Settling, JobIs, Terminal

(* A worker that runs saves the row of the job. *)
LEMMA Writes ==
    ASSUME Inv, NEW p \in Workers, Only(p),
           pc[p] \notin {"idle", "queued", "done"},
           UNCHANGED <<task, memTask, snap, celery>>,
           job' # NULL,
           job'.status \in {"running"} \cup Terminal,
           mem'[p] \in {NULL, job'},
           job'.status = "running" => p = FP,
           job'.status = "completed" => p = FIN /\ \A t \in Tasks : Settled(t),
           p \in Sources => pc'[p] # "done",
           p = FP /\ pc'[p] = "done" => job'.status \in {"failed", "canceled"},
           p = FP /\ pc'[p] \in Assigned \cup {"assign_report"} => mem'[p] # NULL /\ job'.report,
           p = FIN /\ task[FP] # NULL /\ task[FP].status = "completed" => job'.report
    PROVE  Settling' /\ Reporting'
<1> USE Roles
<1>1. \A t \in Tasks : Settled(t)' <=> Settled(t)
  BY Zenon DEF Settled
<1>2. p \in Tasks => /\ pc[FIN] \in {"idle", "queued"} /\ mem[FIN] = NULL
                     /\ pc'[FIN] = pc[FIN] /\ mem'[FIN] = NULL
                     /\ p \in Sources => pc[FP] \in {"idle", "queued"} /\ pc'[FP] = pc[FP]
  BY Busy, Zenon DEF Inv, Only
<1>3. p = FIN => /\ pc[FP] = "done" \/ FP \notin canvas
                 /\ mem[FP] = NULL
  BY Zenon DEF Inv, Chord, Orderly, Holding
<1>4. /\ \A t, u \in Tasks : task'[t] # NULL => task'[u] # NULL
      /\ \A t \in Tasks : task'[t] # NULL => task'[t].status # "created"
      /\ \A t \in Tasks : memTask'[t].status # "created"
      /\ pc'[Starter] \in {"create", "queue"} => \A t \in Tasks : task'[t] = NULL
      /\ \A q \in Procs, t \in Tasks : snap'[q][t] # NULL => task'[t] # NULL
      /\ canvas' # {} => \A t \in Tasks \ canvas' : Settled(t)'
      /\ JobIs("completed")' => \A t \in Tasks : Settled(t)'
  BY <1>1, Zenon DEF Inv, Settling, Only, celery, JobIs
<1>5. /\ \A w \in Workers : mem'[w] # NULL => mem'[w].status \in {"running"} \cup Terminal
      /\ mem'[FP] # NULL /\ job'.status = "running" => mem'[FP].status = "running"
  BY Zenon DEF Inv, Settling, Only
<1>6. \A t \in canvas' \cap Sources :
          pc'[t] = "done" /\ ~Settled(t)' => revoked' /\ pc'[FIN] \in {"idle", "queued", "done"}
  BY <1>1, <1>2, Zenon DEF Inv, Settling, Only, celery
<1>7. FP \in canvas' /\ pc'[FP] = "done" /\ ~Settled(FP)' =>
          /\ job'.status \in {"failed", "canceled"}
          /\ mem'[FIN] # NULL => mem'[FIN].status \in {"failed", "canceled"}
  BY <1>1, <1>2, Zenon DEF Inv, Settling, Only, celery, Terminal
<1>8. Reporting'
  <2>1. CASE p = FP
    BY <1>2, <2>1, Zenon DEF Inv, Reporting, Only
  <2>2. CASE p = FIN
    BY <1>3, <2>2, SMTT(30) DEF Inv, Reporting, Only, Orderly, Assigned
  <2>3. CASE p \in Sources
    BY <1>2, <2>3, Zenon DEF Inv, Reporting, Only, Assigned
  <2> QED BY <2>1, <2>2, <2>3, Zenon
<1> QED BY <1>4, <1>5, <1>6, <1>7, <1>8, Zenon DEF Settling

(* The request that starts the job. *)
LEMMA StarterSettles ==
    ASSUME Inv, StarterStep
    PROVE  Settling' /\ Reporting'
<1>a. TypeOK /\ Orderly /\ Chord
  BY Parts, Zenon
<1>b. /\ \A q \in Procs, u \in Tasks : snap[q][u] # NULL => task[u] # NULL
      /\ \A u \in Tasks : memTask[u].status # "created"
  BY Parts, Zenon
<1>1. CASE Create
  <2>1. /\ job = NULL /\ canvas = {} /\ \A p \in Procs \ {Starter} : pc[p] = "idle"
        /\ \A w \in Workers : mem[w] = NULL /\ pc[w] = "idle"
    BY <1>a, <1>1, Roles, Zenon DEF Create, Orderly, Holding
  <2>2. /\ Only(Starter) /\ pc'[Starter] = "queue" /\ UNCHANGED <<task, memTask, snap, celery>>
        /\ job' = [status |-> "created", report |-> ScanType = "fingerprint"]
    BY <1>a, <1>1, Roles, Zenon DEF Only, Create, Save, Goto, TypeOK
  <2>3. job'.status = "created"
    BY <2>2, Roles, Zenon
  <2> QED BY <1>1, <2>1, <2>2, <2>3, Roles, SMTT(30) DEF Inv, Settling, Settled, Reporting, Assigned, Only, celery, JobIs, Create
<1>2. CASE Queue
  <2>1. /\ mem[Starter] \in JobRow /\ canvas = {} /\ pc[Starter] = "queue"
        /\ \A w \in Workers : mem[w] = NULL /\ pc[w] = "idle"
    BY <1>a, <1>2, Roles, Zenon DEF Queue, Orderly, Holding, TypeOK
  <2>2. /\ Only(Starter) /\ pc'[Starter] = "start" /\ UNCHANGED <<memTask, snap, celery>>
    BY <1>a, <1>2, Roles, Zenon DEF Only, Queue, Save, Goto, TypeOK
  <2>3. CASE HasError(mem[Starter].status, "pending", {"created"})
    <3>1. UNCHANGED <<job, task, mem>>
      BY <1>2, <2>3, Roles, Zenon DEF Queue
    <3> QED BY <2>2, <3>1, <1>b, Aside, Roles, Zenon
  <2>4. CASE ~HasError(mem[Starter].status, "pending", {"created"})
    <3>1. /\ \A t \in Tasks : task'[t] = IF Sources # {} \/ ScanType = "fingerprint"
                                         THEN NewTask ELSE NULL
          /\ job' = Moved(mem[Starter], "pending")
      BY <1>2, <2>4, Roles, Zenon DEF Queue, Save
    <3>2. job' # NULL /\ job'.status = "pending"
      BY <2>1, <3>1, MovedJob, NewRows, Roles, Zenon
    <3>3. NewTask # NULL /\ NewTask.status = "pending"
      BY NewRows, Roles, Zenon DEF NewTask
    <3>4. \A t \in Tasks, q \in Procs : task[t] = NULL /\ snap[q][t] = NULL
      BY <2>1, Roles, Zenon DEF Inv, Settling
    <3>5. \A w \in Workers : mem'[w] = NULL /\ pc'[w] = "idle"
      BY <2>1, <2>2, Roles, Zenon DEF Only
    <3> HIDE DEF NewTask
    <3> QED BY <2>1, <2>2, <3>1, <3>2, <3>3, <3>4, <3>5, Roles, Zenon
            DEF Inv, Settling, Reporting, Assigned, celery, JobIs
  <2> QED BY <2>3, <2>4, Roles, Zenon
<1>3. CASE Start
  <2>1. /\ mem[Starter] \in JobRow /\ canvas = {}
        /\ \A w \in Workers : mem[w] = NULL /\ pc[w] = "idle"
    BY <1>a, <1>3, Roles, Zenon DEF Start, Orderly, Holding, TypeOK
  <2>2. /\ Only(Starter) /\ UNCHANGED <<task, memTask, snap, celery>>
        /\ \/ pc'[Starter] = "cache_id" /\ mem'[Starter] = NULL /\ UNCHANGED job
           \/ pc'[Starter] = "dispatch" /\ job' = Moved(mem[Starter], "running")
    BY <1>a, <1>3, Roles, Zenon DEF Only, Start, Goto, TypeOK
  <2>3. CASE UNCHANGED job /\ pc'[Starter] = "cache_id" /\ mem'[Starter] = NULL
    BY <2>2, <2>3, <1>b, Aside, Roles, Zenon
  <2>4. CASE pc'[Starter] = "dispatch" /\ job' = Moved(mem[Starter], "running")
    <3>1. job' # NULL /\ job'.status = "running"
      BY <2>1, <2>4, MovedJob, NewRows, Roles, Zenon
    <3>2. \A w \in Workers : mem'[w] = NULL /\ pc'[w] = "idle"
      BY <2>1, <2>2, Roles, Zenon DEF Only
    <3>3. task[FP] # NULL => task[FP].status # "completed"
      BY <2>1, Roles, Zenon DEF Inv, Reporting
    <3> QED BY <2>1, <2>2, <2>4, <3>1, <3>2, <3>3, Roles, Zenon
            DEF Inv, Settling, Settled, Reporting, Assigned, celery, JobIs
  <2> QED BY <2>2, <2>3, <2>4, Roles, Zenon
<1>4. CASE Dispatch
  <2>1. /\ pc[Starter] = "dispatch" /\ canvas = {}
        /\ \A w \in Workers : mem[w] = NULL /\ pc[w] = "idle"
    BY <1>a, <1>4, Roles, Zenon DEF Dispatch, Orderly, Holding
  <2>2. /\ canvas' = {t \in Tasks : Incomplete(t)} \cup {FIN}
        /\ UNCHANGED <<job, task, mem, memTask, snap, revoked>>
        /\ \A p \in Procs : pc'[p] = IF p = Starter THEN "cache_id"
                                      ELSE IF p \in canvas' THEN "queued" ELSE pc[p]
    BY <1>4, Roles, Zenon DEF Dispatch
  <2>3. \A t \in Tasks \ canvas' : Settled(t)'
    BY <1>a, <2>2, Roles, Zenon DEF Incomplete, TypeOK, TaskRow, Status, Terminal, Inv, Settling, Settled
  <2>4. \A w \in Workers : mem'[w] = NULL /\ pc'[w] \in {"idle", "queued"}
    BY <2>1, <2>2, Roles, Zenon
  <2>5. ~JobIs("completed")
    BY <1>a, <2>1, Roles, Zenon DEF Chord
  <2>6. job.status \in {"running"} \cup Terminal /\ pc'[Starter] = "cache_id"
    BY <2>1, <2>2, Roles, Zenon DEF Inv, Settling
  <2>7. task[FP] # NULL => task[FP].status # "completed"
    BY <2>1, Roles, Zenon DEF Inv, Reporting
  <2> QED BY <2>2, <2>3, <2>4, <2>5, <2>6, <2>7, Roles, SMTT(30) DEF Inv, Settling, Reporting, Assigned, JobIs
<1>5. CASE CacheId
  <2>1. /\ Only(Starter) /\ UNCHANGED <<job, task, mem, memTask, snap, canvas, revoking, revoked>>
        /\ pc'[Starter] = "done"
    BY <1>a, <1>5, Roles, Zenon DEF Only, CacheId, Goto, TypeOK
  <2>2. \A w \in Workers : pc'[w] = pc[w]
    BY <2>1, Roles, Zenon DEF Only
  <2> QED BY <2>1, <2>2, Roles, SMTT(30) DEF Inv, Settling, Settled, Reporting, JobIs
<1> QED BY <1>1, <1>2, <1>3, <1>4, <1>5, Roles, Zenon DEF StarterStep

(* A cancel request. *)
LEMMA CancelerSettles ==
    ASSUME Inv, NEW c \in Cancelers, CancelRequest(c) \/ CancelerStep(c)
    PROVE  Settling' /\ Reporting'
<1>a. TypeOK /\ Orderly /\ Chord
  BY Parts, Zenon
<1>b. /\ \A q \in Procs, u \in Tasks : snap[q][u] # NULL => task[u] # NULL
      /\ \A u \in Tasks : memTask[u].status # "created"
  BY Parts, Zenon
<1>1. CASE CancelRequest(c)
  <2>1. /\ Only(c) /\ UNCHANGED <<job, task, memTask, snap, celery>>
        /\ pc'[c] \in {"done", "cancel"} /\ mem'[c] \in {mem[c], job}
    BY <1>a, <1>1, Roles, Zenon DEF Only, CancelRequest, Goto, TypeOK
  <2> QED BY <2>1, <1>b, Aside, Roles, Zenon DEF Assigned
<1>2. CASE SelectTasks(c, "cancel", "cancel_commit")
  <2>1. \A q \in Procs, t \in Tasks : snap'[q][t] # NULL => task[t] # NULL
    BY <1>2, SelectedRows, Roles DEF Inv, Settling, SelectTasks, TypeOK
  <2>2. /\ Only(c) /\ UNCHANGED <<job, task, memTask, celery>>
        /\ pc[c] = "cancel"
        /\ mem'[c] \in {NULL, mem[c]}
        /\ \/ pc'[c] = "cancel_commit"
           \/ pc'[c] = "done" /\ mem[c].status # "running"
    BY <1>a, <1>2, Roles, Zenon DEF Only, SelectTasks, Goto, Return, HasError, TypeOK
  <2>3. c = FP /\ pc'[c] = "done" => job.status \in {"failed", "canceled"}
    <3>1. c = FP => /\ FP \in canvas /\ mem[FP] # NULL /\ job # NULL
                    /\ ~JobIs("completed")
      BY <1>a, <2>2, Busy, Roles, Zenon DEF Orderly, Holding
    <3> QED BY <2>2, <3>1, Roles, Zenon DEF Inv, Settling, Terminal, JobIs
  <2> QED BY <2>1, <2>2, <2>3, <1>b, Aside, Roles, Zenon DEF Assigned
<1>3. CASE KillCommit(c)
  <2>1. /\ Only(c) /\ CommitCancel(c)
        /\ pc[c] \in {"cancel_commit", "cancel_again_commit"}
        /\ pc'[c] \in {"revoke", "done"}
        /\ mem'[c] \in {NULL, job'}
    BY <1>a, <1>3, Roles, Zenon DEF Only, KillCommit, Goto, Return, TypeOK
  <2> QED BY <2>1, Commits, Roles, Zenon
<1>4. CASE Revoke(c)
  <2>1. /\ Only(c) /\ UNCHANGED <<job, task, mem, memTask, snap, canvas, cachedId, revoked>>
    BY <1>a, <1>4, Roles, Zenon DEF Only, Revoke, Goto, TypeOK
  <2>2. /\ \A w \in Workers : pc'[w] = pc[w]
        /\ pc'[Starter] = pc[Starter]
    BY <2>1, Roles, Zenon DEF Only
  <2> QED BY <2>1, <2>2, Roles, SMTT(30) DEF Inv, Settling, Settled, Reporting, JobIs
<1>5. CASE SelectTasks(c, "cancel_again", "cancel_again_commit")
  <2>1. \A q \in Procs, t \in Tasks : snap'[q][t] # NULL => task[t] # NULL
    BY <1>5, Roles DEF Inv, Settling, SelectTasks, TypeOK
  <2>2. /\ Only(c) /\ UNCHANGED <<job, task, memTask, celery>>
        /\ mem'[c] \in {NULL, mem[c]}
        /\ pc'[c] \in {"done", "cancel_again_commit"}
    BY <1>a, <1>5, Roles, Zenon DEF Only, SelectTasks, Goto, Return, TypeOK
  <2> QED BY <2>1, <2>2, <1>b, Aside, Roles, Zenon
<1>6. CASE CancelAgainCommit(c)
  <2>1. /\ Only(c) /\ CommitCancel(c)
        /\ pc[c] \in {"cancel_commit", "cancel_again_commit"}
        /\ pc'[c] \in {"revoke", "done"}
        /\ mem'[c] \in {NULL, job'}
    BY <1>a, <1>6, Roles, Zenon DEF Only, CancelAgainCommit, Goto, Return, TypeOK
  <2> QED BY <2>1, Commits, Roles, Zenon
<1> QED BY <1>1, <1>2, <1>3, <1>4, <1>5, <1>6, Roles, Zenon DEF CancelerStep

(* What every worker does first. *)
LEMMA FirstCheckSettles ==
    ASSUME Inv, NEW w \in Workers, NEW l \in {"start_task", "report", "read_tasks"},
           w = FP => l = "report", FirstCheck(w, l)
    PROVE  Settling' /\ Reporting'
<1>a. TypeOK /\ Orderly /\ Chord
  BY Parts, Zenon
<1>b. /\ \A q \in Procs, u \in Tasks : snap[q][u] # NULL => task[u] # NULL
      /\ \A u \in Tasks : memTask[u].status # "created"
  BY Parts, Zenon
<1>1. CASE Load(w)
  <2>1. /\ Only(w) /\ UNCHANGED <<job, task, snap, celery>>
        /\ pc[w] = "queued" /\ pc'[w] = "check" /\ mem'[w] = job
        /\ w = FIN => ~revoked
    BY <1>a, <1>1, Roles, Zenon DEF Only, Load, Deliverable, Goto, TypeOK
  <2>2. w \in Tasks => task[w] # NULL
    BY <1>a, <2>1, Roles, Zenon DEF Orderly
  <2>3. \A t \in Tasks : memTask'[t].status # "created"
    BY <1>a, <1>1, <2>2, Roles, Zenon DEF Load, TypeOK, Inv, Settling
  <2> QED BY <2>1, <2>3, <1>b, Aside, Roles, Zenon DEF Assigned
<1>2. CASE NotCanceled(w, l)
  <2>1. /\ Only(w) /\ UNCHANGED <<job, task, memTask, snap, celery>>
        /\ pc[w] = "check" /\ pc'[w] = l /\ UNCHANGED mem
    BY <1>a, <1>2, Roles, Zenon DEF Only, NotCanceled, Goto, TypeOK
  <2> QED BY <2>1, <1>b, Aside, Roles, Zenon DEF Assigned
<1>3. CASE FoundCanceled(w)
  <2>1. /\ Only(w) /\ UNCHANGED <<job, task, memTask, snap, celery>>
        /\ pc[w] = "check" /\ revoked
        /\ mem'[w] \in {NULL, mem[w]}
        /\ (w \in Sources /\ pc'[w] = "done") \/ pc'[w] = "cancel"
    BY <1>a, <1>3, Roles, Zenon DEF Only, FoundCanceled, IsCanceled, Goto, Return, TypeOK
  <2> QED BY <2>1, <1>b, Aside, Roles, Zenon DEF Assigned
<1>4. CASE NoAnswer(w)
  <2>1. /\ Only(w) /\ UNCHANGED <<job, task, memTask, snap, celery>>
        /\ pc[w] = "check" /\ pc'[w] = "on_exception" /\ mem'[w] = NULL
    BY <1>a, <1>4, Roles, Zenon DEF Only, NoAnswer, Goto, TypeOK
  <2> QED BY <2>1, <1>b, Aside, Roles, Zenon DEF Assigned
<1> QED BY <1>1, <1>2, <1>3, <1>4, Roles, Zenon DEF FirstCheck

(* A worker that cancels the job or fails it. *)
LEMMA WorkerCancelSettles ==
    ASSUME Inv, NEW w \in {FP, FIN}, WorkerCancel(w) \/ FailJob(w)
    PROVE  Settling' /\ Reporting'
<1>a. TypeOK /\ Orderly /\ Chord
  BY Parts, Zenon
<1>b. /\ \A q \in Procs, u \in Tasks : snap[q][u] # NULL => task[u] # NULL
      /\ \A u \in Tasks : memTask[u].status # "created"
  BY Parts, Zenon
<1>1. CASE SelectTasks(w, "cancel", "cancel_commit")
  <2>1. \A q \in Procs, t \in Tasks : snap'[q][t] # NULL => task[t] # NULL
    BY <1>1, SelectedRows, Roles DEF Inv, Settling, SelectTasks, TypeOK
  <2>2. /\ Only(w) /\ UNCHANGED <<job, task, memTask, celery>>
        /\ pc[w] = "cancel"
        /\ mem'[w] \in {NULL, mem[w]}
        /\ \/ pc'[w] = "cancel_commit"
           \/ pc'[w] = "done" /\ mem[w].status # "running"
    BY <1>a, <1>1, Roles, Zenon DEF Only, SelectTasks, Goto, Return, HasError, TypeOK
  <2>3. w = FP /\ pc'[w] = "done" => job.status \in {"failed", "canceled"}
    <3>1. w = FP => /\ FP \in canvas /\ mem[FP] # NULL /\ job # NULL
                    /\ ~JobIs("completed")
      BY <1>a, <2>2, Busy, Roles, Zenon DEF Orderly, Holding
    <3> QED BY <2>2, <3>1, Roles, Zenon DEF Inv, Settling, Terminal, JobIs
  <2> QED BY <2>1, <2>2, <2>3, <1>b, Aside, Roles, Zenon DEF Assigned
<1>2. CASE WorkerCancelCommit(w)
  <2>1. /\ Only(w) /\ CommitCancel(w)
        /\ pc[w] \in {"cancel_commit", "cancel_again_commit"}
        /\ pc'[w] \in {"revoke", "done"}
        /\ mem'[w] \in {NULL, job'}
    BY <1>a, <1>2, Roles DEF Only, WorkerCancelCommit, Goto, Return, TypeOK
  <2> QED BY <2>1, Commits, Roles, Zenon
<1>3. CASE FailJob(w)
  <2>1. mem[w] \in JobRow /\ job # NULL /\ mem[w].status # "completed"
    BY <1>a, <1>3, Roles DEF FailJob, Orderly, Holding, Chord, TypeOK
  <2>2. /\ Only(w) /\ UNCHANGED <<task, memTask, snap, celery>>
        /\ pc[w] = "fail_job" /\ pc'[w] = "done" /\ mem'[w] = NULL
    BY <1>a, <1>3, Roles, SMTT(30) DEF Only, FailJob, Goto, Return, TypeOK
  <2>3. CASE HasError(mem[w].status, "failed", {"running"})
    <3>1. UNCHANGED job /\ mem[w].status # "running"
      BY <1>3, <2>3, Roles, Zenon DEF FailJob, StatusFail, HasError
    <3>2. w = FP => job.status \in {"failed", "canceled"}
      <4>1. w = FP => FP \in canvas /\ ~JobIs("completed")
        BY <1>a, <2>2, Busy, Roles, Zenon
      <4> QED BY <2>1, <3>1, <4>1, NullAssumption, Roles, Zenon DEF Inv, Settling, Terminal, JobIs
    <3> QED BY <2>2, <3>1, <3>2, <1>b, Aside, Roles, Zenon DEF Assigned
  <2>4. CASE ~HasError(mem[w].status, "failed", {"running"})
    <3>1. job' = Moved(mem[w], "failed") /\ mem[w].status \in {"running", "failed"}
      BY <1>3, <2>4, Roles, Zenon DEF FailJob, StatusFail, HasError
    <3>2. job' # NULL /\ job'.status = "failed" /\ job'.report = mem[w].report
      BY <2>1, <3>1, MovedJob, NewRows, Roles, Zenon
    <3>3. w = FIN /\ task[FP] # NULL /\ task[FP].status = "completed" => job'.report
      BY <2>1, <3>1, <3>2, NullAssumption, Roles, Zenon DEF Inv, Reporting
    <3> QED BY <2>2, <3>2, <3>3, Writes, Roles, Zenon DEF Terminal, Assigned
  <2> QED BY <2>3, <2>4, Roles, Zenon
<1> QED BY <1>1, <1>2, <1>3, Roles, Zenon DEF WorkerCancel

(* The runner of a task. *)
LEMMA RunTaskSettles ==
    ASSUME Inv, NEW t \in Tasks, RunTask(t) \/ EndTask(t, "canceled")
    PROVE  Settling' /\ Reporting'
<1>a. TypeOK /\ Orderly /\ Chord
  BY Parts, Zenon
<1>b. /\ \A q \in Procs, u \in Tasks : snap[q][u] # NULL => task[u] # NULL
      /\ \A u \in Tasks : memTask[u].status # "created"
  BY Parts, Zenon
<1>1. CASE StartTask(t)
  <2> DEFINE row == Moved(memTask[t], "running")
  <2>1. row # NULL /\ row.status = "running"
    BY <1>a, MovedTask, NewRows, Roles, Zenon DEF TypeOK
  <2>2. /\ Only(t) /\ UNCHANGED <<job, snap, celery>>
        /\ task' = [task EXCEPT ![t] = row]
        /\ memTask' = [memTask EXCEPT ![t] = row]
        /\ pc[t] = "start_task" /\ pc'[t] = "run" /\ UNCHANGED mem
    BY <1>a, <1>1, Roles, Zenon DEF Only, StartTask, SaveTask, Goto, TypeOK
  <2>3. \A u \in Tasks : memTask'[u].status # "created"
    BY <1>a, <2>1, <2>2, Roles, Zenon DEF Inv, Settling, TypeOK
  <2> HIDE DEF row
  <2> QED BY <2>1, <2>2, <2>3, Saves, Roles, Zenon DEF Terminal, Assigned
<1>2. CASE Refresh(t)
  <2>1. /\ Only(t) /\ UNCHANGED <<job, task, mem, snap, celery>>
        /\ memTask' = [memTask EXCEPT ![t] = task[t]]
        /\ pc[t] = "run" /\ pc'[t] = "refreshed"
    BY <1>a, <1>2, Roles, Zenon DEF Only, Refresh, Goto, TypeOK
  <2>2. \A u \in Tasks : memTask'[u].status # "created"
    BY <1>a, <2>1, Roles, Zenon DEF Inv, Settling, Orderly, TypeOK
  <2> QED BY <2>1, <2>2, <1>b, Aside, Roles, Zenon DEF Assigned
<1>3. CASE CompleteTask(t)
  <2> DEFINE row == Moved(memTask[t], "completed")
  <2>1. row # NULL /\ row.status = "completed"
    BY <1>a, MovedTask, NewRows, Roles, Zenon DEF TypeOK
  <2>2. /\ Only(t) /\ UNCHANGED <<job, snap, celery>>
        /\ task' = [task EXCEPT ![t] = row]
        /\ memTask' = [memTask EXCEPT ![t] = row]
        /\ pc[t] = "refreshed" /\ pc'[t] = "done" /\ mem'[t] = NULL
    BY <1>a, <1>3, Roles, Zenon DEF Only, CompleteTask, SaveTask, Goto, TypeOK
  <2>3. \A u \in Tasks : memTask'[u].status # "created"
    BY <1>a, <2>1, <2>2, Roles, Zenon DEF Inv, Settling, TypeOK
  <2> HIDE DEF row
  <2> QED BY <2>1, <2>2, <2>3, Saves, Roles, Zenon DEF Terminal, Assigned
<1>4. CASE \E z \in {"failed", "canceled"} : EndTask(t, z)
  <2>0. PICK z \in {"failed", "canceled"} : EndTask(t, z)
    BY <1>4, Roles, Zenon
  <2> DEFINE row == Moved(memTask[t], z)
  <2>1. row # NULL /\ row.status = z
    BY <1>a, MovedTask, NewRows, Roles DEF TypeOK
  <2>2. /\ Only(t) /\ UNCHANGED <<job, snap, celery>>
        /\ task' = [task EXCEPT ![t] = row]
        /\ memTask' = [memTask EXCEPT ![t] = row]
        /\ pc[t] = "run" /\ pc'[t] = "done" /\ mem'[t] = NULL
    BY <1>a, <2>0, Roles, Zenon DEF Only, EndTask, SaveTask, Goto, TypeOK
  <2>3. \A u \in Tasks : memTask'[u].status # "created"
    BY <1>a, <2>1, <2>2, Roles, Zenon DEF Inv, Settling, TypeOK
  <2> HIDE DEF row
  <2> QED BY <2>1, <2>2, <2>3, Saves, Roles, Zenon DEF Terminal, Assigned
<1>5. CASE RunnerRaises(t)
  <2> DEFINE row == Moved(memTask[t], "failed")
  <2>1. row # NULL /\ row.status = "failed"
    BY <1>a, MovedTask, NewRows, Roles, Zenon DEF TypeOK
  <2>2. /\ Only(t) /\ UNCHANGED <<job, snap, celery>>
        /\ task' = [task EXCEPT ![t] = row]
        /\ memTask' = [memTask EXCEPT ![t] = row]
        /\ pc[t] = "run" /\ pc'[t] = "fail_job_and_raise" /\ UNCHANGED mem
    BY <1>a, <1>5, Roles, Zenon DEF Only, RunnerRaises, SaveTask, Goto, TypeOK
  <2>3. \A u \in Tasks : memTask'[u].status # "created"
    BY <1>a, <2>1, <2>2, Roles, Zenon DEF Inv, Settling, TypeOK
  <2> HIDE DEF row
  <2> QED BY <2>1, <2>2, <2>3, Saves, Roles, Zenon DEF Terminal, Assigned
<1>6. CASE FailJobAndRaise(t)
  <2>1. mem[t] \in JobRow /\ job # NULL /\ mem[t].status # "completed"
    BY <1>a, <1>6, Roles, Zenon DEF FailJobAndRaise, Orderly, Holding, Chord, TypeOK
  <2>2. /\ Only(t) /\ UNCHANGED <<task, memTask, snap, celery>>
        /\ pc[t] = "fail_job_and_raise" /\ pc'[t] = "on_exception" /\ mem'[t] = NULL
    BY <1>a, <1>6, Roles, Zenon DEF Only, FailJobAndRaise, Goto, Return, TypeOK
  <2>3. CASE HasError(mem[t].status, "failed", {"running"})
    <3>1. UNCHANGED job /\ mem[t].status # "running"
      BY <1>6, <2>3, Roles, Zenon DEF FailJobAndRaise, StatusFail, HasError
    <3> QED BY <2>2, <3>1, <1>b, Aside, Roles, Zenon DEF Assigned
  <2>4. CASE ~HasError(mem[t].status, "failed", {"running"})
    <3>1. job' = Moved(mem[t], "failed") /\ mem[t].status \in {"running", "failed"}
      BY <1>6, <2>4, Roles, Zenon DEF FailJobAndRaise, StatusFail, HasError
    <3>2. job' # NULL /\ job'.status = "failed" /\ job'.report = mem[t].report
      BY <2>1, <3>1, MovedJob, NewRows, Roles, Zenon
    <3>3. t = FIN /\ task[FP] # NULL /\ task[FP].status = "completed" => job'.report
      BY <2>1, <3>1, <3>2, NullAssumption, Roles, Zenon DEF Inv, Reporting
    <3> QED BY <2>2, <3>2, <3>3, Writes, Roles, Zenon DEF Terminal, Assigned
  <2> QED BY <2>3, <2>4, Roles, Zenon
<1>7. CASE SetTaskFailure(t)
  <2> DEFINE row == Moved(task[t], "failed")
  <2>1. task[t] \in TaskRow
    BY <1>a, <1>7, Roles, Zenon DEF SetTaskFailure, Orderly, TypeOK
  <2>2. row # NULL /\ row.status = "failed"
    BY <2>1, MovedTask, NewRows, Roles, Zenon
  <2>3. task' = [task EXCEPT ![t] = row]
    BY <1>a, <1>7, <2>1, Roles, Zenon DEF SetTaskFailure, Moved, TypeOK
  <2>4. /\ Only(t) /\ UNCHANGED <<job, memTask, snap, celery>>
        /\ pc[t] = "on_exception" /\ pc'[t] = "done" /\ mem'[t] = NULL
    BY <1>a, <1>7, Roles, Zenon DEF Only, SetTaskFailure, Return, Goto, TypeOK
  <2>5. \A u \in Tasks : memTask'[u].status # "created"
    BY <2>4, Roles, Zenon DEF Inv, Settling
  <2> HIDE DEF row
  <2> QED BY <2>2, <2>3, <2>4, <2>5, Saves, Roles, Zenon DEF Terminal, Assigned
<1> QED BY <1>1, <1>2, <1>3, <1>4, <1>5, <1>6, <1>7, Roles, Zenon DEF RunTask

(* The statistics of an inspect task. *)
LEMMA StatsSettle ==
    ASSUME Inv, NEW t \in Sources, IncrementStats(t) \/ UpdateStats(t)
    PROVE  Settling' /\ Reporting'
<1>a. TypeOK /\ Orderly /\ Chord
  BY Parts, Zenon
<1>b. /\ \A q \in Procs, u \in Tasks : snap[q][u] # NULL => task[u] # NULL
      /\ \A u \in Tasks : memTask[u].status # "created"
  BY Parts, Zenon
<1>1. CASE IncrementStats(t)
  <2> DEFINE row == [task[t] EXCEPT !.scanned = @ + 1]
  <2>1. task[t] \in TaskRow
    BY <1>a, <1>1, Roles, Zenon DEF IncrementStats, Orderly, TypeOK
  <2>2. row # NULL /\ row.status = task[t].status
    BY <1>1, <2>1, NullAssumption, ConstantsAssumption, Roles DEF IncrementStats, TaskRow
  <2>3. /\ Only(t) /\ UNCHANGED <<job, snap, celery>>
        /\ task' = [task EXCEPT ![t] = row]
        /\ memTask' = [memTask EXCEPT ![t] = row]
        /\ pc[t] = "run" /\ pc'[t] = "run" /\ UNCHANGED mem
    BY <1>a, <1>1, Roles, Zenon DEF Only, IncrementStats, SaveTask, Goto, TypeOK
  <2>4. row.status # "created"
    BY <2>1, <2>2, NullAssumption, Roles, Zenon DEF Inv, Settling
  <2>5. \A u \in Tasks : memTask'[u].status # "created"
    BY <1>a, <2>3, <2>4, Roles, Zenon DEF Inv, Settling, TypeOK
  <2> HIDE DEF row
  <2> QED BY <2>2, <2>3, <2>4, <2>5, Saves, Roles, Zenon
<1>2. CASE UpdateStats(t)
  <2>1. PICK n \in 0..MaxScanned : SaveTask(t, [memTask[t] EXCEPT !.scanned = n], "run")
    BY <1>2, Roles, Zenon DEF UpdateStats
  <2> DEFINE row == [memTask[t] EXCEPT !.scanned = n]
  <2>2. memTask[t] \in TaskRow /\ memTask[t].status # "created"
    BY <1>a, Roles, Zenon DEF TypeOK, Inv, Settling
  <2>3. row # NULL /\ row.status = memTask[t].status
    BY <2>2, NullAssumption, Roles, Zenon DEF TaskRow
  <2>4. /\ Only(t) /\ UNCHANGED <<job, snap, celery>>
        /\ task' = [task EXCEPT ![t] = row]
        /\ memTask' = [memTask EXCEPT ![t] = row]
        /\ pc[t] = "refreshed" /\ pc'[t] = "run" /\ UNCHANGED mem
    BY <1>a, <1>2, <2>1, Roles, Zenon DEF Only, UpdateStats, SaveTask, Goto, TypeOK
  <2>5. \A u \in Tasks : memTask'[u].status # "created"
    BY <1>a, <2>2, <2>3, <2>4, Roles, Zenon DEF Inv, Settling, TypeOK
  <2> HIDE DEF row
  <2> QED BY <2>2, <2>3, <2>4, <2>5, Saves, Roles, Zenon
<1> QED BY <1>1, <1>2, Roles, Zenon

(* fingerprint creates and assigns the report. *)
LEMMA ReportSettles ==
    ASSUME Inv, CreateReport \/ AssignReport
    PROVE  Settling' /\ Reporting'
<1>a. TypeOK /\ Orderly /\ Chord
  BY Parts, Zenon
<1>b. /\ \A q \in Procs, u \in Tasks : snap[q][u] # NULL => task[u] # NULL
      /\ \A u \in Tasks : memTask[u].status # "created"
  BY Parts, Zenon
<1>1. CASE CreateReport
  <2> DEFINE row == [mem[FP] EXCEPT !.report = TRUE]
  <2>1. mem[FP] \in JobRow /\ pc[FP] = "report" /\ job # NULL
    BY <1>a, <1>1, Roles, Zenon DEF CreateReport, Orderly, Holding, TypeOK
  <2>2. row # NULL /\ row.report = TRUE /\ row.status = mem[FP].status
    BY <2>1, NullAssumption, Zenon, Roles DEF JobRow
  <2>3. Only(FP) /\ UNCHANGED <<task, memTask, snap, celery>>
    BY <1>a, <1>1, Roles, Zenon DEF Only, CreateReport, Save, Goto, TypeOK
  <2>4. /\ mem[FP].status \in {"running"} \cup Terminal
        /\ mem[FP].status # "completed"
    BY <1>a, <2>1, NullAssumption, Roles, Zenon DEF Inv, Settling, Chord
  <2>5. CASE pc'[FP] = "fail_job" /\ UNCHANGED <<job, mem>>
    BY <2>1, <2>3, <2>5, <1>b, Aside, Roles, Zenon DEF Assigned
  <2>6. CASE mem[FP].report /\ pc'[FP] = "assign_report" /\ UNCHANGED <<job, mem>>
    <3>1. \A w \in Workers : w # FP => pc'[w] = pc[w]
      BY <2>3, Roles, Zenon DEF Only
    <3>2. task[FP] # NULL => task[FP].status # "completed"
      BY <2>1, Roles, Zenon DEF Inv, Reporting
    <3>3. pc'[Starter] = pc[Starter]
      BY <2>3, Roles, Zenon DEF Only
    <3> QED BY <2>3, <2>6, <3>1, <3>2, <3>3, Roles, Zenon DEF Inv, Settling, Settled, Reporting, Assigned, celery, JobIs
  <2>7. CASE job' = row /\ mem'[FP] = row /\ pc'[FP] = "assign_report"
    BY <2>1, <2>2, <2>3, <2>4, <2>7, Writes, Roles, Zenon DEF Assigned
  <2> QED BY <1>a, <1>1, <2>5, <2>6, <2>7, Roles, Zenon DEF CreateReport, Save, Goto, TypeOK
<1>2. CASE AssignReport
  <2>1. mem[FP] # NULL /\ pc[FP] = "assign_report" /\ mem[FP].report
    BY <1>a, <1>2, Roles, Zenon DEF AssignReport, Orderly, Holding, Inv, Reporting
  <2>2. /\ Only(FP) /\ UNCHANGED <<task, memTask, snap, celery>>
        /\ job' = mem[FP] /\ mem'[FP] = job' /\ pc'[FP] = "start_task"
    BY <1>a, <1>2, Roles, Zenon DEF Only, AssignReport, Save, Goto, TypeOK
  <2>3. /\ mem[FP].status \in {"running"} \cup Terminal
        /\ mem[FP].status # "completed"
    BY <1>a, <2>1, Roles, Zenon DEF Inv, Settling, Chord
  <2> QED BY <2>1, <2>2, <2>3, Writes, Roles, Zenon
<1> QED BY <1>1, <1>2, Roles, Zenon

(* finalize_scan. *)
LEMMA FinalizeSettles ==
    ASSUME Inv, Discard \/ ReadTasks \/ CompleteJob \/ ReloadJob
    PROVE  Settling' /\ Reporting'
<1>a. TypeOK /\ Orderly /\ Chord
  BY Parts, Zenon
<1>b. /\ \A q \in Procs, u \in Tasks : snap[q][u] # NULL => task[u] # NULL
      /\ \A u \in Tasks : memTask[u].status # "created"
  BY Parts, Zenon
<1>1. CASE Discard
  <2>1. /\ Only(FIN) /\ UNCHANGED <<job, task, memTask, snap, celery>>
        /\ pc[FIN] = "queued" /\ pc'[FIN] = "done" /\ UNCHANGED mem
    BY <1>a, <1>1, Roles, Zenon DEF Only, Discard, Deliverable, Goto, TypeOK
  <2> QED BY <2>1, <1>b, Aside, Roles, Zenon DEF Assigned
<1>2. CASE ReadTasks
  <2>1. /\ Only(FIN) /\ UNCHANGED <<job, task, memTask, snap, celery>>
        /\ pc[FIN] = "read_tasks" /\ pc'[FIN] \in {"complete_job", "cancel", "fail_job"} /\ UNCHANGED mem
    BY <1>a, <1>2, Roles, Zenon DEF Only, ReadTasks, Goto, TypeOK
  <2> QED BY <2>1, <1>b, Aside, Roles, Zenon DEF Assigned
<1>3. CASE CompleteJob
  <2>1. /\ mem[FIN] \in JobRow /\ job # NULL /\ mem[FIN].status # "completed"
        /\ pc[FIN] = "complete_job" /\ canvas # {}
        /\ \A t \in canvas \ {FIN} : pc[t] = "done"
    BY <1>a, <1>3, Roles DEF CompleteJob, Orderly, Holding, Chord, TypeOK
  <2>2. /\ Only(FIN) /\ UNCHANGED <<task, memTask, snap, celery>>
        /\ pc'[FIN] = "done" /\ mem'[FIN] = NULL
    BY <1>a, <1>3, Roles, Zenon DEF Only, CompleteJob, Goto, Return, TypeOK
  <2>3. CASE mem[FIN].status # "running"
    <3>1. UNCHANGED job
      BY <1>3, <2>1, <2>3, Roles, Zenon DEF CompleteJob, StatusComplete, HasError
    <3> QED BY <2>1, <2>2, <3>1, <1>b, Aside, Roles, Zenon DEF Assigned
  <2>4. CASE mem[FIN].status = "running"
    <3>1. job' = Moved(mem[FIN], "completed")
      BY <1>3, <2>4, Roles, Zenon DEF CompleteJob, StatusComplete, HasError
    <3>2. job' # NULL /\ job'.status = "completed" /\ job'.report = mem[FIN].report
      BY <2>1, <3>1, MovedJob, NewRows, Roles, Zenon
    <3>3. task[FP] # NULL /\ task[FP].status = "completed" => job'.report
      BY <2>1, <2>4, <3>2, NullAssumption, Roles, Zenon DEF Inv, Reporting
    <3>4. \A t \in Tasks : Settled(t)
      BY <2>1, <2>4, NullAssumption, Roles, Zenon DEF Inv, Settling
    <3> QED BY <2>1, <2>2, <3>2, <3>3, <3>4, Writes, Roles, Zenon DEF Terminal
  <2> QED BY <2>3, <2>4, Roles, Zenon
<1>4. CASE ReloadJob
  <2>1. /\ Only(FIN) /\ UNCHANGED <<job, task, memTask, snap, celery>>
        /\ pc[FIN] = "on_exception" /\ pc'[FIN] = "fail_job" /\ mem'[FIN] = job
    BY <1>a, <1>4, Roles, Zenon DEF Only, ReloadJob, Goto, TypeOK
  <2> QED BY <2>1, <1>b, Aside, Roles, Zenon DEF Assigned
<1> QED BY <1>1, <1>2, <1>3, <1>4, Roles, Zenon

(* A process dies. *)
LEMMA CrashSettles ==
    ASSUME Inv, NEW p \in Procs, Crash(p)
    PROVE  Settling' /\ Reporting'
<1>a. TypeOK /\ Orderly /\ Chord
  BY Parts, Zenon
<1>b. /\ \A q \in Procs, u \in Tasks : snap[q][u] # NULL => task[u] # NULL
      /\ \A u \in Tasks : memTask[u].status # "created"
  BY Parts, Zenon
<1>1. CASE Crash(p)
  <2>1. /\ Only(p) /\ UNCHANGED <<job, task, memTask, celery>>
        /\ \A q \in Procs, t \in Tasks : snap'[q][t] # NULL => snap[q][t] # NULL
        /\ pc[p] \notin {"idle", "queued", "done"} /\ pc'[p] = "lost" /\ mem'[p] = NULL
    BY <1>a, <1>1, Roles DEF Only, Crash, Goto, NoTasks, TypeOK
  <2> QED BY <2>1, <1>b, Aside, Roles, Zenon DEF Assigned
<1> QED BY <1>1, Roles, Zenon

(* Every step keeps both invariants. *)
LEMMA StepSettles ==
    ASSUME Inv, [Next]_vars
    PROVE  Settling' /\ Reporting'
<1>1. CASE StarterStep
  BY <1>1, StarterSettles, Roles, Zenon
<1>2. ASSUME NEW c \in Cancelers, CancelRequest(c) \/ CancelerStep(c)
      PROVE  Settling' /\ Reporting'
  BY <1>2, CancelerSettles, Roles, Zenon
<1>3. CASE DeliverRevoke
  BY <1>3, Unmoved, Zenon DEF DeliverRevoke
<1>4. ASSUME NEW t \in Sources, InspectStep(t) \/ IncrementStats(t) \/ UpdateStats(t)
      PROVE  Settling' /\ Reporting'
  BY <1>4, FirstCheckSettles, RunTaskSettles, StatsSettle, Roles, Zenon DEF InspectStep
<1>5. CASE FingerprintStep
  BY <1>5, FirstCheckSettles, WorkerCancelSettles, ReportSettles, RunTaskSettles, Roles, Zenon
     DEF FingerprintStep
<1>6. CASE FinalizeStep
  BY <1>6, FirstCheckSettles, WorkerCancelSettles, FinalizeSettles, Roles, Zenon DEF FinalizeStep
<1>7. ASSUME NEW p \in Procs, Crash(p)
      PROVE  Settling' /\ Reporting'
  BY <1>7, CrashSettles, Roles, Zenon
<1>8. CASE UNCHANGED vars
  BY <1>8, Unmoved, Zenon DEF vars
<1> QED BY <1>1, <1>2, <1>3, <1>4, <1>5, <1>6, <1>7, <1>8, Roles, Zenon DEF Next

(* The tasks and the report stand as described in every reachable state. *)
THEOREM Settlement == Spec => [](Chord /\ Settling /\ Reporting)
<1>1. Init => Chord /\ Settling /\ Reporting
  <2> SUFFICES ASSUME Init PROVE Chord /\ Settling /\ Reporting
    BY Zenon
  <2>1. Chord
    BY SMTT(60) DEF Init, Chord, JobIs, Workers, Tasks, Procs
  <2>2. NewTask.status = "pending" /\ \A t \in Tasks : NoTasks[t] = NULL
    BY Zenon DEF NewTask, NoTasks
  <2>3. Settling
    BY <2>2, DistinctAssumption, SMTT(60)
    DEF Init, Settling, Settled, JobIs, Workers, Tasks, Procs
  <2>4. Reporting
    BY <2>2, DistinctAssumption, SMTT(60)
    DEF Init, Reporting, Assigned, Workers, Tasks, Procs
  <2> QED BY <2>1, <2>3, <2>4, Zenon
<1>2. TypeOK /\ Orderly /\ Chord /\ Settling /\ Reporting /\ [Next]_vars
        => Chord' /\ Settling' /\ Reporting'
  BY StepKeepsChord, StepSettles, Zenon DEF Inv
<1> QED BY <1>1, <1>2, Order, PTL DEF Spec

(* A job is completed only when no task is left pending or running, for    *)
(* any number of sources, cancel requests, crashes and unanswered queries.  *)
THEOREM TasksSettled == Spec => []CompletedTasksSettled
<1>1. Settling => CompletedTasksSettled
  BY Zenon DEF Settling, Settled, CompletedTasksSettled, Statuses
<1> QED BY <1>1, Settlement, PTL

(* A completed job whose fingerprint task completed has its report,        *)
(* although every request and worker saves an instance of its own.         *)
THEOREM ReportKept == Spec => []CompletedHasReport
<1>1. Settling /\ Reporting => CompletedHasReport
  BY SMTT(60) DEF Settling, Reporting, CompletedHasReport, Statuses, Tasks, JobIs
<1> QED BY <1>1, Settlement, PTL

-----------------------------------------------------------------------------
(* A job that nobody cancels follows the lifecycle, for any number of       *)
(* sources and however its processes interleave, time out and die.         *)

(* Nothing is revoked or canceled without a cancel request: the runner of   *)
(* an inspect task may return CANCELED, fingerprint's cannot.  The starter, *)
(* fingerprint and finalize_scan hold the row as it is; an inspect task may *)
(* hold a row that another has failed since, but with the same report.     *)
(* Where fingerprint has failed, it saves its task as failed or no more.   *)
Uncanceled ==
    /\ ~revoking /\ ~revoked
    /\ pc[Starter] = "queue" => mem[Starter] = job /\ JobIs("created")
    /\ pc[Starter] = "start" => mem[Starter] = job /\ JobIs("pending")
    /\ HasTasks /\ (pc[Starter] \in {"start", "dispatch"} \/ canvas # {}) => task[FP] # NULL
    /\ \A w \in Workers : pc[w] \notin {"cancel", "cancel_commit"}
    /\ ~JobIs("canceled")
    /\ \A t \in Sources : mem[t] # NULL =>
          mem[t].status \in {"running", "failed"} /\ mem[t].report = job.report
    /\ \A w \in {FP, FIN} : mem[w] # NULL => mem[w] = job
    /\ memTask[FP].status # "canceled"
    /\ task[FP] # NULL => task[FP].status # "canceled"
    /\ FingerprintFailed => pc[FP] \in {"fail_job_and_raise", "on_exception", "done", "lost"}

(* The steps of the lifecycle, by what they do to the row. *)
LEMMA LifecycleSteps ==
    ASSUME \/ /\ JobStatus' = JobStatus
              /\ Reported' = Reported
              /\ FingerprintFailed' = FingerprintFailed
           \/ /\ JobStatus = "none" /\ JobStatus' = "created"
              /\ Reported' = (ScanType = "fingerprint")
              /\ FingerprintFailed' = FingerprintFailed
           \/ /\ <<JobStatus, JobStatus'>> \in
                    {<<"created", "pending">>, <<"pending", "running">>, <<"running", "failed">>}
              /\ Reported' = Reported
              /\ FingerprintFailed' = FingerprintFailed
           \/ /\ JobStatus \in {"running", "failed"} /\ JobStatus' = JobStatus
              /\ Reported' = TRUE
              /\ FingerprintFailed' = FingerprintFailed
           \/ /\ JobStatus \in {"running", "failed"} /\ JobStatus' = JobStatus
              /\ Reported' = Reported
              /\ FingerprintFailed' = TRUE
           \/ /\ JobStatus = "running" /\ JobStatus' = "completed"
              /\ HasTasks => Reported \/ FingerprintFailed
              /\ Reported' = Reported
              /\ FingerprintFailed' = FingerprintFailed
    PROVE  [Lifecycle!Next]_(Lifecycle!lifecycle)
BY Zenon DEF Lifecycle!Next, Lifecycle!Progress, Lifecycle!Create, Lifecycle!Advance,
             Lifecycle!Complete, Lifecycle!AssignReport, Lifecycle!FailReport, Lifecycle!lifecycle

(* While a worker is at work the row is running or failed (completed, only  *)
(* once finalize_scan has returned), and fingerprint and finalize_scan are  *)
(* alone.                                                                  *)
LEMMA AtWork ==
    ASSUME Inv, Uncanceled, NEW w \in Workers, pc[w] \notin {"idle", "done"}
    PROVE  /\ job \in JobRow /\ job # NULL /\ w \in canvas
           /\ job.status \in {"running", "failed"}
           /\ pc[Starter] \notin {"create", "queue", "start", "dispatch"}
           /\ w \in Tasks => mem[FIN] = NULL
           /\ w \in Sources => mem[FP] = NULL
           /\ w \in {FP, FIN} /\ pc[w] # "queued" => \A v \in Workers \ {w} : mem[v] = NULL
<1> USE Roles
<1>a. TypeOK /\ Orderly /\ Chord
  BY Parts, Zenon
<1>1. w \in canvas /\ job # NULL
  BY <1>a, Zenon DEF Orderly
<1>2. job \in JobRow
  BY <1>a, <1>1, Zenon DEF TypeOK
<1>3. ~JobIs("completed")
  <2>1. CASE w \in Tasks
    BY <1>a, <2>1, Busy, Zenon
  <2>2. CASE w = FIN
    BY <1>a, <2>2, Zenon DEF Chord
  <2> QED BY <2>1, <2>2, Zenon
<1>4. job.status \in {"running", "failed"}
  BY <1>1, <1>3, Zenon DEF Inv, Settling, Uncanceled, JobIs, Terminal
<1>5. pc[Starter] \notin {"create", "queue", "start", "dispatch"}
  BY <1>a, <1>1, Zenon DEF Orderly
<1>6. w \in Tasks => mem[FIN] = NULL
  BY <1>a, Busy, Zenon
<1>7. w \in Sources => mem[FP] = NULL
  BY <1>a, Busy, Zenon
<1>8. ASSUME w \in {FP, FIN}, pc[w] # "queued", NEW v \in Workers \ {w}
      PROVE  mem[v] = NULL
  <2>1. CASE v \notin canvas
    BY <1>a, <2>1, Zenon DEF Orderly, Holding
  <2>2. CASE v \in canvas /\ w = FIN
    BY <1>a, <1>8, <2>2, Zenon DEF Orderly, Chord, Holding
  <2>3. CASE v \in canvas /\ w = FP /\ v \in Sources
    BY <1>a, <1>8, <2>3, Zenon DEF Orderly, Chord, Holding
  <2>4. CASE w = FP /\ v = FIN
    BY <1>6, <2>4, Zenon
  <2> QED BY <1>8, <2>1, <2>2, <2>3, <2>4, Zenon
<1> QED BY <1>1, <1>2, <1>4, <1>5, <1>6, <1>7, <1>8, Zenon

(* A step that writes no row. *)
LEMMA Unwritten ==
    ASSUME Inv, Uncanceled, NEW p \in Procs, Only(p),
           UNCHANGED <<job, task, canvas, revoking, revoked>>,
           mem'[p] \in {NULL, mem[p], job},
           pc'[p] \notin {"queue", "start", "dispatch", "cancel", "cancel_commit"},
           p \in Workers => pc[p] \notin {"idle", "done"},
           memTask'[FP] \in {memTask[FP], task[FP]}, task[FP] = NULL => UNCHANGED memTask,
           p = FP /\ FingerprintFailed => pc'[FP] \in {"on_exception", "done", "lost"}
    PROVE  Uncanceled' /\ [Lifecycle!Next]_(Lifecycle!lifecycle)
<1> USE Roles
<1>1. /\ JobStatus' = JobStatus
      /\ Reported' = Reported
      /\ FingerprintFailed' = FingerprintFailed
  BY Zenon DEF JobStatus, Reported, FingerprintFailed
<1>2. [Lifecycle!Next]_(Lifecycle!lifecycle)
  BY <1>1, LifecycleSteps, Zenon
<1>3. \A t \in Sources : mem'[t] # NULL =>
          mem'[t].status \in {"running", "failed"} /\ mem'[t].report = job'.report
  <2> SUFFICES ASSUME NEW t \in Sources, mem'[t] # NULL
               PROVE  mem'[t].status \in {"running", "failed"} /\ mem'[t].report = job.report
    BY Zenon
  <2>1. CASE mem'[t] = mem[t]
    BY <2>1, Zenon DEF Uncanceled
  <2>2. CASE t = p /\ mem'[t] = job
    BY <2>2, AtWork, Zenon
  <2> QED BY <2>1, <2>2, Zenon DEF Only
<1>4. \A w \in {FP, FIN} : mem'[w] # NULL => mem'[w] = job'
  BY Zenon DEF Only, Uncanceled
<1>5. \A w \in Workers : pc'[w] \notin {"cancel", "cancel_commit"}
  BY Zenon DEF Only, Uncanceled
<1>6. /\ pc'[Starter] = "queue" => mem'[Starter] = job' /\ JobIs("created")'
      /\ pc'[Starter] = "start" => mem'[Starter] = job' /\ JobIs("pending")'
      /\ pc'[Starter] \in {"start", "dispatch"} => pc[Starter] \in {"start", "dispatch"}
  BY Zenon DEF Only, Uncanceled, JobIs
<1>7. memTask'[FP].status # "canceled"
  BY Zenon DEF Uncanceled
<1>8. FingerprintFailed' =>
          pc'[FP] \in {"fail_job_and_raise", "on_exception", "done", "lost"}
  BY <1>1, Zenon DEF Only, Uncanceled
<1>9. Uncanceled'
  BY <1>3, <1>4, <1>5, <1>6, <1>7, <1>8, Zenon DEF Uncanceled, JobIs
<1> QED BY <1>2, <1>9, Zenon

(* A worker saves its task, or the handler of its exception does. *)
LEMMA TaskWritten ==
    ASSUME Inv, Uncanceled, NEW t \in Tasks, Only(t),
           UNCHANGED <<job, canvas, revoking, revoked>>,
           \A u \in Tasks \ {t} : task'[u] = task[u] /\ memTask'[u] = memTask[u],
           task'[t] # NULL, mem'[t] \in {NULL, mem[t]},
           pc[t] \notin {"idle", "done"}, pc'[t] \notin {"cancel", "cancel_commit"},
           t = FP => /\ task'[FP].status # "canceled"
                     /\ memTask'[FP].status # "canceled"
                     /\ FingerprintFailed => task'[FP].status = "failed"
                     /\ task'[FP].status = "failed" => pc'[FP] \in {"fail_job_and_raise", "done"}
    PROVE  Uncanceled' /\ [Lifecycle!Next]_(Lifecycle!lifecycle)
<1> USE Roles
<1>1. /\ JobStatus' = JobStatus
      /\ Reported' = Reported
      /\ FingerprintFailed => FingerprintFailed'
      /\ JobStatus \in {"running", "failed"}
  BY AtWork, Zenon DEF JobStatus, Reported, FingerprintFailed
<1>2. [Lifecycle!Next]_(Lifecycle!lifecycle)
  <2>1. CASE FingerprintFailed
    <3>1. FingerprintFailed' = FingerprintFailed
      BY <1>1, <2>1, Zenon DEF FingerprintFailed
    <3> QED BY <1>1, <3>1, LifecycleSteps, Zenon
  <2>2. CASE ~FingerprintFailed /\ ~FingerprintFailed'
    <3>1. FingerprintFailed' = FingerprintFailed
      BY <2>2, Zenon DEF FingerprintFailed
    <3> QED BY <1>1, <3>1, LifecycleSteps, Zenon
  <2>3. CASE FingerprintFailed'
    <3>1. FingerprintFailed' = TRUE
      BY <2>3, Zenon DEF FingerprintFailed
    <3> QED BY <1>1, <3>1, LifecycleSteps, Zenon
  <2> QED BY <2>1, <2>2, <2>3, Zenon
<1>3. /\ pc'[Starter] = pc[Starter] /\ pc[Starter] \notin {"queue", "start", "dispatch"}
      /\ \A w \in Workers : mem'[w] \in {NULL, mem[w]}
      /\ \A w \in Workers : pc'[w] \notin {"cancel", "cancel_commit"}
  BY AtWork, Zenon DEF Only, Uncanceled
<1>4. /\ memTask'[FP].status # "canceled"
      /\ task'[FP] # NULL => task'[FP].status # "canceled"
      /\ task[FP] # NULL => task'[FP] # NULL
  BY Zenon DEF Uncanceled
<1>5. FingerprintFailed' =>
          pc'[FP] \in {"fail_job_and_raise", "on_exception", "done", "lost"}
  BY Zenon DEF Only, Uncanceled, FingerprintFailed
<1>6. /\ \A u \in Sources : mem'[u] # NULL =>
            mem'[u].status \in {"running", "failed"} /\ mem'[u].report = job'.report
      /\ \A w \in {FP, FIN} : mem'[w] # NULL => mem'[w] = job'
  BY <1>3, Zenon DEF Uncanceled
<1>7. /\ HasTasks /\ canvas' # {} => task'[FP] # NULL
      /\ ~revoking' /\ ~revoked' /\ ~JobIs("canceled")'
  BY <1>4, Zenon DEF Uncanceled, JobIs
<1>8. Uncanceled'
  BY <1>3, <1>4, <1>5, <1>6, <1>7, Zenon DEF Uncanceled
<1> QED BY <1>2, <1>8, Zenon

(* A worker fails the job: the row it saves has the report of the row that  *)
(* it overwrites.                                                          *)
LEMMA JobFailed ==
    ASSUME Inv, Uncanceled, NEW w \in Workers, Only(w), StatusFail(w),
           UNCHANGED <<task, memTask, canvas, revoking, revoked>>,
           pc[w] \in {"fail_job", "fail_job_and_raise"},
           pc'[w] \in {"done", "on_exception"}, mem'[w] = NULL
    PROVE  Uncanceled' /\ [Lifecycle!Next]_(Lifecycle!lifecycle)
<1> USE Roles
<1>1. /\ mem[w] \in JobRow /\ mem[w].status \in {"running", "failed"}
      /\ mem[w].report = job.report
      /\ job # NULL /\ job.status \in {"running", "failed"}
      /\ pc[Starter] \notin {"queue", "start", "dispatch"}
  <2>1. mem[w] # NULL /\ mem[w] \in JobRow
    BY Parts, Zenon DEF Orderly, Holding, TypeOK
  <2> QED BY <2>1, AtWork, Zenon DEF Uncanceled
<1>2. /\ job' # NULL /\ job'.status = "failed" /\ job'.report = job.report
  <2>1. job' = Moved(mem[w], "failed")
    BY <1>1, Zenon DEF StatusFail, HasError
  <2>2. "failed" \in Status
    BY Zenon DEF Status, Terminal
  <2> QED BY <1>1, <2>1, <2>2, MovedJob, Zenon
<1>3. /\ JobStatus' = "failed" /\ JobStatus \in {"running", "failed"}
      /\ Reported' = Reported
      /\ FingerprintFailed' = FingerprintFailed
  BY <1>1, <1>2, Zenon DEF JobStatus, Reported, FingerprintFailed
<1>4. [Lifecycle!Next]_(Lifecycle!lifecycle)
  BY <1>3, LifecycleSteps, Zenon
<1>5. \A v \in {FP, FIN} : mem'[v] = NULL
  <2>1. CASE w \in Sources
    BY <2>1, AtWork, Zenon DEF Only
  <2>2. CASE w \in {FP, FIN}
    BY <2>2, AtWork, Zenon DEF Only
  <2> QED BY <2>1, <2>2, Zenon
<1>6. \A t \in Sources : mem'[t] # NULL =>
          mem'[t].status \in {"running", "failed"} /\ mem'[t].report = job'.report
  BY <1>2, Zenon DEF Only, Uncanceled
<1>7. /\ pc'[Starter] = pc[Starter]
      /\ \A v \in Workers : pc'[v] \notin {"cancel", "cancel_commit"}
      /\ FingerprintFailed' => pc'[FP] \in {"fail_job_and_raise", "on_exception", "done", "lost"}
  BY <1>3, Zenon DEF Only, Uncanceled
<1>8. Uncanceled'
  BY <1>1, <1>2, <1>5, <1>6, <1>7, Zenon DEF Uncanceled, JobIs
<1> QED BY <1>4, <1>8, Zenon

(* The request that starts the job. *)
LEMMA StarterFollows ==
    ASSUME Inv, Uncanceled, StarterStep
    PROVE  Uncanceled' /\ [Lifecycle!Next]_(Lifecycle!lifecycle)
<1> USE Roles
<1>a. TypeOK /\ Orderly /\ Chord
  BY Parts, Zenon
<1>1. CASE pc[Starter] \in {"create", "queue", "start", "dispatch"}
  <2>1. /\ canvas = {}
        /\ \A w \in Workers : mem[w] = NULL /\ pc[w] = "idle"
        /\ ~FingerprintFailed
    BY <1>a, <1>1, Zenon DEF Orderly, Holding, Uncanceled
  <2>2. CASE Create
    <3> DEFINE row == [status |-> "created", report |-> ScanType = "fingerprint"]
    <3>1. row \in JobRow /\ row # NULL /\ row.status = "created" /\ row.report = (ScanType = "fingerprint")
      BY NewRows, NullAssumption, Zenon
    <3>2. /\ Only(Starter) /\ pc'[Starter] = "queue" /\ UNCHANGED <<task, memTask, celery>>
          /\ job' = row /\ mem'[Starter] = row /\ job = NULL
      BY <1>a, <2>2, Zenon DEF Only, Create, Save, Goto, TypeOK, Orderly
    <3> HIDE DEF row
    <3>3. /\ JobStatus = "none" /\ JobStatus' = "created"
          /\ Reported' = (ScanType = "fingerprint")
          /\ FingerprintFailed' = FingerprintFailed
      BY <3>1, <3>2, Zenon DEF JobStatus, Reported, FingerprintFailed
    <3>4. [Lifecycle!Next]_(Lifecycle!lifecycle)
      BY <3>3, LifecycleSteps, Zenon
    <3>5. \A w \in Workers : mem'[w] = NULL /\ pc'[w] = "idle"
      BY <2>1, <3>2, Zenon DEF Only
    <3>6. Uncanceled'
      BY <2>1, <3>1, <3>2, <3>3, <3>5, Zenon DEF Uncanceled, JobIs, celery
    <3> QED BY <3>4, <3>6, Zenon
  <2>3. CASE Queue
    <3>1. pc[Starter] = "queue" /\ mem[Starter] = job /\ job.status = "created" /\ job \in JobRow /\ job # NULL
      BY <1>a, <2>3, Zenon DEF Queue, Uncanceled, JobIs, TypeOK
    <3>2. /\ Only(Starter) /\ pc'[Starter] = "start" /\ UNCHANGED <<memTask, celery>>
          /\ job' = Moved(job, "pending") /\ mem'[Starter] = job'
          /\ task'[FP] = IF HasTasks THEN NewTask ELSE NULL
      BY <1>a, <2>3, <3>1, Zenon DEF Only, Queue, HasError, Save, Goto, TypeOK, HasTasks
    <3>3. job' # NULL /\ job'.status = "pending" /\ job'.report = job.report
      <4>1. "pending" \in Status
        BY Zenon DEF Status
      <4>2. job' = Moved(job, "pending") /\ job \in JobRow
        BY <3>1, <3>2, Zenon
      <4> QED BY <4>1, <4>2, MovedJob
    <3>4. NewTask # NULL /\ NewTask.status = "pending"
      BY NewRows, Zenon DEF NewTask
    <3>5. task'[FP] # NULL => task'[FP].status = "pending"
      BY <3>2, <3>4, Zenon
    <3>6. /\ JobStatus = "created" /\ JobStatus' = "pending"
          /\ Reported' = Reported
          /\ FingerprintFailed' = FingerprintFailed
      BY <2>1, <3>1, <3>3, <3>5, Zenon DEF JobStatus, Reported, FingerprintFailed
    <3>7. [Lifecycle!Next]_(Lifecycle!lifecycle)
      BY <3>6, LifecycleSteps, Zenon
    <3>8. \A w \in Workers : mem'[w] = NULL /\ pc'[w] = "idle"
      BY <2>1, <3>2, Zenon DEF Only
    <3>9. HasTasks => task'[FP] # NULL
      BY <3>2, <3>4, Zenon
    <3>10. Uncanceled'
      BY <2>1, <3>2, <3>3, <3>5, <3>6, <3>8, <3>9, Zenon DEF Uncanceled, JobIs, celery
    <3> QED BY <3>7, <3>10, Zenon
  <2>4. CASE Start
    <3>1. pc[Starter] = "start" /\ mem[Starter] = job /\ job.status = "pending" /\ job \in JobRow /\ job # NULL
      BY <1>a, <2>4, Zenon DEF Start, Uncanceled, JobIs, TypeOK
    <3>2. /\ Only(Starter) /\ pc'[Starter] = "dispatch" /\ UNCHANGED <<task, memTask, celery>>
          /\ job' = Moved(job, "running")
      BY <1>a, <2>4, <3>1, Zenon DEF Only, Start, HasError, Goto, TypeOK
    <3>3. job' # NULL /\ job'.status = "running" /\ job'.report = job.report
      BY <3>1, <3>2, MovedJob, NewRows, Zenon
    <3>4. /\ JobStatus = "pending" /\ JobStatus' = "running"
          /\ Reported' = Reported
          /\ FingerprintFailed' = FingerprintFailed
      BY <2>1, <3>1, <3>2, <3>3, Zenon DEF JobStatus, Reported, FingerprintFailed
    <3>5. [Lifecycle!Next]_(Lifecycle!lifecycle)
      BY <3>4, LifecycleSteps, Zenon
    <3>6. \A w \in Workers : mem'[w] = NULL /\ pc'[w] = "idle"
      BY <2>1, <3>2, Zenon DEF Only
    <3>7. Uncanceled'
      BY <2>1, <3>1, <3>2, <3>3, <3>4, <3>6, Zenon DEF Uncanceled, JobIs, celery
    <3> QED BY <3>5, <3>7, Zenon
  <2>5. CASE Dispatch
    <3>1. /\ UNCHANGED <<job, task, mem, memTask, revoking, revoked>>
          /\ pc[Starter] = "dispatch" /\ pc'[Starter] = "cache_id"
          /\ \A w \in Workers : pc'[w] \in {"idle", "queued"}
      BY <1>a, <2>1, <2>5, Zenon DEF Dispatch
    <3>2. /\ JobStatus' = JobStatus
          /\ Reported' = Reported
          /\ FingerprintFailed' = FingerprintFailed
      BY <3>1, Zenon DEF JobStatus, Reported, FingerprintFailed
    <3>3. [Lifecycle!Next]_(Lifecycle!lifecycle)
      BY <3>2, LifecycleSteps, Zenon
    <3>4. Uncanceled'
      BY <2>1, <3>1, <3>2, Zenon DEF Uncanceled, JobIs
    <3> QED BY <3>3, <3>4, Zenon
  <2>6. ~CacheId
    BY <1>1, Zenon DEF CacheId
  <2> QED BY <2>2, <2>3, <2>4, <2>5, <2>6, Zenon DEF StarterStep
<1>2. CASE CacheId
  <2>1. /\ Only(Starter) /\ UNCHANGED <<job, task, mem, memTask, canvas, revoking, revoked>>
        /\ pc'[Starter] = "done"
    BY <1>a, <1>2, Zenon DEF Only, CacheId, Goto, TypeOK
  <2> QED BY <2>1, Unwritten, Zenon
<1> QED BY <1>1, <1>2, Zenon DEF StarterStep, Create, Queue, Start, Dispatch

(* A worker's first steps: nothing is revoked, so that no job is found      *)
(* canceled.                                                               *)
LEMMA FirstCheckFollows ==
    ASSUME Inv, Uncanceled, NEW w \in Workers,
           NEW l \in {"start_task", "report", "read_tasks"}, FirstCheck(w, l)
    PROVE  Uncanceled' /\ [Lifecycle!Next]_(Lifecycle!lifecycle)
<1> USE Roles
<1>a. TypeOK /\ Orderly /\ Chord
  BY Parts, Zenon
<1>1. CASE Load(w)
  <2>1. /\ Only(w) /\ UNCHANGED <<job, task, snap, celery>>
        /\ pc[w] = "queued" /\ pc'[w] = "check" /\ mem'[w] = job
        /\ memTask'[FP] \in {memTask[FP], task[FP]}
    BY <1>a, <1>1, Zenon DEF Only, Load, Deliverable, Goto, TypeOK
  <2>2. w \in Tasks => task[w] # NULL
    BY <1>a, <2>1, Zenon DEF Orderly
  <2>3. task[FP] = NULL => UNCHANGED memTask
    BY <1>1, <2>2, Zenon DEF Load, Inv, Settling
  <2>4. w = FP => ~FingerprintFailed
    BY <2>1, Zenon DEF Uncanceled
  <2> QED BY <2>1, <2>3, <2>4, Unwritten, Zenon DEF celery
<1>2. CASE NotCanceled(w, l)
  <2>1. /\ Only(w) /\ UNCHANGED <<job, task, mem, memTask, celery>>
        /\ pc[w] = "check" /\ pc'[w] = l
    BY <1>a, <1>2, Zenon DEF Only, NotCanceled, Goto, TypeOK
  <2>2. w = FP => ~FingerprintFailed
    BY <2>1, Zenon DEF Uncanceled
  <2> QED BY <2>1, <2>2, Unwritten, Zenon DEF celery
<1>3. CASE FoundCanceled(w)
  BY <1>3, Zenon DEF FoundCanceled, IsCanceled, Uncanceled
<1>4. CASE NoAnswer(w)
  <2>1. /\ Only(w) /\ UNCHANGED <<job, task, memTask, celery>>
        /\ pc[w] = "check" /\ pc'[w] = "on_exception" /\ mem'[w] = NULL
    BY <1>a, <1>4, Zenon DEF Only, NoAnswer, Goto, TypeOK
  <2> QED BY <2>1, Unwritten, Zenon DEF celery
<1> QED BY <1>1, <1>2, <1>3, <1>4, Zenon DEF FirstCheck

(* A task's runner: what it saves. *)
LEMMA RunTaskFollows ==
    ASSUME Inv, Uncanceled, NEW t \in Tasks,
           RunTask(t) \/ (t \in Sources /\ EndTask(t, "canceled"))
    PROVE  Uncanceled' /\ [Lifecycle!Next]_(Lifecycle!lifecycle)
<1> USE Roles
<1>a. TypeOK /\ Orderly /\ Chord
  BY Parts, Zenon
<1>b. ASSUME NEW s \in Status, NEW l \in {"run", "done", "fail_job_and_raise"},
             SaveTask(t, Moved(memTask[t], s), l), mem' \in {mem, [mem EXCEPT ![t] = NULL]},
             pc[t] \in {"start_task", "run", "refreshed"},
             t = FP => s # "canceled", s = "failed" => l # "run"
      PROVE  Uncanceled' /\ [Lifecycle!Next]_(Lifecycle!lifecycle)
  <2> DEFINE row == Moved(memTask[t], s)
  <2>1. row # NULL /\ row.status = s
    BY <1>a, MovedTask, Zenon DEF TypeOK
  <2>2. /\ UNCHANGED <<job, celery>>
        /\ task' = [task EXCEPT ![t] = row]
        /\ memTask' = [memTask EXCEPT ![t] = row]
        /\ pc' = [pc EXCEPT ![t] = l]
    BY <1>b, Zenon DEF SaveTask, Goto
  <2> HIDE DEF row
  <2>3. Only(t) /\ pc'[t] = l /\ mem'[t] \in {NULL, mem[t]}
    BY <1>a, <1>b, <2>2, Zenon DEF Only, TypeOK
  <2>4. /\ task'[t] = row /\ memTask'[t] = row
        /\ \A u \in Tasks \ {t} : task'[u] = task[u] /\ memTask'[u] = memTask[u]
    BY <1>a, <2>2, Zenon DEF TypeOK
  <2>5. t = FP => ~FingerprintFailed
    BY <1>b, Zenon DEF Uncanceled
  <2> QED BY <1>b, <2>1, <2>2, <2>3, <2>4, <2>5, TaskWritten, Zenon DEF celery
<1>c. {"running", "completed", "failed", "canceled"} \subseteq Status
  BY Zenon DEF Status, Terminal
<1>1. CASE StartTask(t)
  BY <1>1, <1>b, <1>c, Zenon DEF StartTask
<1>2. CASE Refresh(t)
  <2>1. /\ Only(t) /\ UNCHANGED <<job, task, mem, celery>>
        /\ memTask' = [memTask EXCEPT ![t] = task[t]]
        /\ pc[t] = "run" /\ pc'[t] = "refreshed"
    BY <1>a, <1>2, Zenon DEF Only, Refresh, Goto, TypeOK
  <2>2. task[t] # NULL /\ task[FP] # NULL
    BY <1>a, <2>1, Zenon DEF Orderly, Inv, Settling
  <2>3. memTask'[FP] \in {memTask[FP], task[FP]}
    BY <1>a, <2>1, Zenon DEF TypeOK
  <2>4. t = FP => ~FingerprintFailed
    BY <2>1, Zenon DEF Uncanceled
  <2> QED BY <2>1, <2>2, <2>3, <2>4, Unwritten, Zenon DEF celery
<1>3. CASE CompleteTask(t)
  BY <1>3, <1>b, <1>c, Zenon DEF CompleteTask
<1>4. CASE EndTask(t, "failed")
  BY <1>4, <1>b, <1>c, Zenon DEF EndTask
<1>5. CASE RunnerRaises(t)
  BY <1>5, <1>b, <1>c, Zenon DEF RunnerRaises
<1>6. CASE FailJobAndRaise(t)
  <2>1. /\ Only(t) /\ StatusFail(t) /\ UNCHANGED <<task, memTask, celery>>
        /\ pc[t] = "fail_job_and_raise" /\ pc'[t] = "on_exception" /\ mem'[t] = NULL
    BY <1>a, <1>6, Zenon DEF Only, FailJobAndRaise, Goto, TypeOK
  <2> QED BY <2>1, JobFailed, Zenon DEF celery
<1>7. CASE SetTaskFailure(t)
  <2>1. /\ Only(t) /\ UNCHANGED <<job, memTask, celery>>
        /\ task' = [task EXCEPT ![t].status = "failed"]
        /\ pc[t] = "on_exception" /\ pc'[t] = "done" /\ mem'[t] = NULL
    BY <1>a, <1>7, Zenon DEF Only, SetTaskFailure, Return, Goto, TypeOK
  <2>2. task[t] \in TaskRow
    BY <1>a, <2>1, Zenon DEF Orderly, TypeOK
  <2>3. /\ task'[t] = Moved(task[t], "failed")
        /\ \A u \in Tasks \ {t} : task'[u] = task[u]
    BY <1>a, <2>1, Zenon DEF TypeOK, Moved
  <2>4. task'[t] # NULL /\ task'[t].status = "failed"
    <3>1. "failed" \in Status
      BY <1>c, Zenon
    <3> DEFINE row == task[t]
    <3>2. Moved(row, "failed") # NULL /\ Moved(row, "failed").status = "failed"
      <4> HIDE DEF row
      <4>1. row \in TaskRow
        BY <2>2, Zenon DEF row
      <4> QED BY <3>1, <4>1, MovedTask, Zenon
    <3> QED BY <2>3, <3>2, Zenon
  <2>5. t = FP => memTask'[FP].status # "canceled"
    BY <2>1, Zenon DEF Uncanceled
  <2> QED BY <2>1, <2>3, <2>4, <2>5, TaskWritten, Zenon DEF celery
<1>8. CASE t \in Sources /\ EndTask(t, "canceled")
  BY <1>8, <1>b, <1>c, Zenon DEF EndTask
<1> QED BY <1>1, <1>2, <1>3, <1>4, <1>5, <1>6, <1>7, <1>8, Zenon DEF RunTask

(* The statistics of an inspect task. *)
LEMMA StatsFollow ==
    ASSUME Inv, Uncanceled, NEW t \in Sources, IncrementStats(t) \/ UpdateStats(t)
    PROVE  Uncanceled' /\ [Lifecycle!Next]_(Lifecycle!lifecycle)
<1> USE Roles
<1>a. TypeOK /\ Orderly /\ Chord
  BY Parts, Zenon
<1>1. PICK row : SaveTask(t, row, "run") /\ row \in TaskRow
  <2>1. CASE IncrementStats(t)
    <3>1. task[t] \in TaskRow
      BY <1>a, <2>1, Zenon DEF IncrementStats, Orderly, TypeOK
    <3>2. [task[t] EXCEPT !.scanned = @ + 1] \in TaskRow
      BY <2>1, <3>1, ConstantsAssumption DEF IncrementStats, TaskRow
    <3> QED BY <2>1, <3>2, Zenon DEF IncrementStats
  <2>2. CASE UpdateStats(t)
    <3>1. memTask[t] \in TaskRow
      BY <1>a, Zenon DEF TypeOK
    <3>2. \A n \in 0..MaxScanned : [memTask[t] EXCEPT !.scanned = n] \in TaskRow
      BY <3>1 DEF TaskRow
    <3> QED BY <2>2, <3>2, Zenon DEF UpdateStats
  <2> QED BY <2>1, <2>2, Zenon
<1>2. /\ UNCHANGED <<job, mem, celery>> /\ row # NULL
      /\ task' = [task EXCEPT ![t] = row]
      /\ memTask' = [memTask EXCEPT ![t] = row]
      /\ pc[t] \in {"run", "refreshed"} /\ pc' = [pc EXCEPT ![t] = "run"]
  BY <1>1, NullAssumption, Zenon DEF IncrementStats, UpdateStats, SaveTask, Goto
<1>3. Only(t) /\ pc'[t] = "run"
  BY <1>a, <1>2, Zenon DEF Only, TypeOK
<1>4. /\ task'[t] = row
      /\ \A u \in Tasks \ {t} : task'[u] = task[u] /\ memTask'[u] = memTask[u]
  BY <1>a, <1>2, Zenon DEF TypeOK
<1> QED BY <1>2, <1>3, <1>4, TaskWritten, Zenon DEF celery

(* fingerprint's report. *)
LEMMA ReportFollows ==
    ASSUME Inv, Uncanceled, CreateReport \/ AssignReport
    PROVE  Uncanceled' /\ [Lifecycle!Next]_(Lifecycle!lifecycle)
<1> USE Roles
<1>a. TypeOK /\ Orderly /\ Chord
  BY Parts, Zenon
<1>1. /\ pc[FP] \in {"report", "assign_report"} /\ mem[FP] # NULL /\ mem[FP] = job
      /\ ~FingerprintFailed
  BY <1>a, Zenon DEF CreateReport, AssignReport, Orderly, Holding, Uncanceled
<1>2. /\ job \in JobRow /\ job.status \in {"running", "failed"}
      /\ pc[Starter] \notin {"queue", "start", "dispatch"}
      /\ \A v \in Workers \ {FP} : mem[v] = NULL
  BY <1>1, AtWork, Zenon
<1>3. Only(FP) /\ UNCHANGED <<task, memTask, celery>>
  BY <1>a, Zenon DEF Only, CreateReport, AssignReport, Save, Goto, TypeOK
<1>4. CASE UNCHANGED <<job, mem>> /\ pc'[FP] \in {"assign_report", "fail_job", "start_task"}
  BY <1>1, <1>3, <1>4, Unwritten, Zenon DEF celery
<1>5. CASE AssignReport
  <2>1. /\ job' = job /\ pc'[FP] = "start_task"
        /\ mem' = [mem EXCEPT ![FP] = mem[FP]]
    BY <1>a, <1>1, <1>5, Zenon DEF AssignReport, Save, Goto, TypeOK
  <2>2. mem' = mem
    BY <1>a, <2>1, Zenon DEF TypeOK
  <2> QED BY <1>4, <2>1, <2>2, Zenon
<1>6. CASE /\ job' = [job EXCEPT !.report = TRUE]
           /\ mem'[FP] = job' /\ pc'[FP] = "assign_report"
  <2>1. job' # NULL /\ job'.report = TRUE /\ job'.status = job.status
    BY <1>2, <1>6, NullAssumption, Zenon DEF JobRow
  <2>2. /\ JobStatus \in {"running", "failed"} /\ JobStatus' = JobStatus
        /\ Reported' = TRUE
        /\ FingerprintFailed' = FingerprintFailed
    BY <1>1, <1>2, <1>3, <2>1, Zenon DEF JobStatus, Reported, FingerprintFailed
  <2>3. [Lifecycle!Next]_(Lifecycle!lifecycle)
    BY <2>2, LifecycleSteps, Zenon
  <2>4. /\ \A v \in Workers \ {FP} : mem'[v] = NULL
        /\ pc'[Starter] = pc[Starter]
        /\ \A v \in Workers : pc'[v] \notin {"cancel", "cancel_commit"}
    BY <1>2, <1>3, <1>6, Zenon DEF Only, Uncanceled
  <2>5. Uncanceled'
    BY <1>1, <1>2, <1>3, <1>6, <2>1, <2>2, <2>4, Zenon DEF Uncanceled, JobIs, celery
  <2> QED BY <2>3, <2>5, Zenon
<1>7. CASE CreateReport
  <2>1. \/ /\ UNCHANGED <<job, mem>>
           /\ pc' = [pc EXCEPT ![FP] = "assign_report"] \/ pc' = [pc EXCEPT ![FP] = "fail_job"]
        \/ Save(FP, [job EXCEPT !.report = TRUE], "assign_report")
    BY <1>1, <1>7, Zenon DEF CreateReport, Goto
  <2> QED BY <1>a, <1>4, <1>6, <2>1, Zenon DEF Save, Goto, TypeOK
<1> QED BY <1>5, <1>7, Zenon

(* finalize_scan: it does not find all tasks canceled, and it completes a   *)
(* job whose fingerprint task has reported or failed.                      *)
LEMMA FinalizeFollows ==
    ASSUME Inv, Uncanceled, Discard \/ ReadTasks \/ CompleteJob \/ ReloadJob
    PROVE  Uncanceled' /\ [Lifecycle!Next]_(Lifecycle!lifecycle)
<1> USE Roles
<1>a. TypeOK /\ Orderly /\ Chord
  BY Parts, Zenon
<1>1. CASE Discard
  BY <1>1, Zenon DEF Discard, Uncanceled
<1>2. CASE ReadTasks
  <2>1. Statuses # {"canceled"}
    <3>1. CASE task[FP] = NULL
      BY <3>1, Zenon DEF Statuses, Inv, Settling
    <3>2. CASE task[FP] # NULL
      BY <3>2, Zenon DEF Statuses, Uncanceled
    <3> QED BY <3>1, <3>2, Zenon
  <2>2. /\ Only(FIN) /\ UNCHANGED <<job, task, mem, memTask, celery>>
        /\ pc[FIN] = "read_tasks" /\ pc'[FIN] \in {"complete_job", "fail_job"}
    BY <1>a, <1>2, <2>1, Zenon DEF Only, ReadTasks, Goto, TypeOK
  <2> QED BY <2>2, Unwritten, Zenon DEF celery
<1>3. CASE CompleteJob
  <2>1. /\ pc[FIN] = "complete_job" /\ mem[FIN] = job /\ mem[FIN] # NULL
        /\ \A t \in canvas \ {FIN} : pc[t] = "done"
    BY <1>a, <1>3, Zenon DEF CompleteJob, Orderly, Holding, Chord, Uncanceled
  <2>2. /\ job \in JobRow /\ job.status \in {"running", "failed"} /\ FIN \in canvas
        /\ pc[Starter] \notin {"queue", "start", "dispatch"}
        /\ \A v \in Workers \ {FIN} : mem[v] = NULL
    BY <2>1, AtWork, Zenon
  <2>3. /\ Only(FIN) /\ UNCHANGED <<task, memTask, celery>>
        /\ pc'[FIN] = "done" /\ mem'[FIN] = NULL
    BY <1>a, <1>3, Zenon DEF Only, CompleteJob, Goto, Return, TypeOK
  <2>4. CASE job.status = "failed"
    <3>1. UNCHANGED job
      BY <1>3, <2>1, <2>4, Zenon DEF CompleteJob, StatusComplete, HasError
    <3> QED BY <2>1, <2>3, <3>1, Unwritten, Zenon DEF celery
  <2>5. CASE job.status = "running"
    <3>1. job' = Moved(job, "completed")
      BY <1>3, <2>1, <2>5, Zenon DEF CompleteJob, StatusComplete, HasError
    <3>2. "completed" \in Status
      BY Zenon DEF Status, Terminal
    <3>3. job' # NULL /\ job'.status = "completed" /\ job'.report = job.report
      BY <2>2, <3>1, <3>2, MovedJob
    <3>4. ASSUME HasTasks PROVE job.report \/ FingerprintFailed
      <4>1. task[FP] # NULL
        BY <2>2, <3>4, Zenon DEF Uncanceled
      <4>2. Settled(FP)
        BY <2>1, <2>2, <2>5, Zenon DEF Inv, Settling
      <4>3. task[FP].status \in {"completed", "failed"}
        BY <4>1, <4>2, Zenon DEF Settled, Terminal, Uncanceled
      <4> QED BY <2>5, <4>1, <4>3, Zenon DEF Inv, Reporting, FingerprintFailed
    <3>5. /\ JobStatus = "running" /\ JobStatus' = "completed"
          /\ HasTasks => Reported \/ FingerprintFailed
          /\ Reported' = Reported
          /\ FingerprintFailed' = FingerprintFailed
      BY <2>1, <2>3, <2>5, <3>3, <3>4, Zenon DEF JobStatus, Reported, FingerprintFailed
    <3>6. [Lifecycle!Next]_(Lifecycle!lifecycle)
      BY <3>5, LifecycleSteps, Zenon
    <3>7. /\ \A v \in Workers : mem'[v] = NULL
          /\ pc'[Starter] = pc[Starter] /\ pc'[FP] = pc[FP]
          /\ \A v \in Workers : pc'[v] \notin {"cancel", "cancel_commit"}
      BY <2>2, <2>3, Zenon DEF Only, Uncanceled
    <3>8. Uncanceled'
      BY <2>2, <2>3, <3>3, <3>5, <3>7, Zenon DEF Uncanceled, JobIs, celery
    <3> QED BY <3>6, <3>8, Zenon
  <2> QED BY <2>2, <2>4, <2>5, Zenon
<1>4. CASE ReloadJob
  <2>1. /\ Only(FIN) /\ UNCHANGED <<job, task, memTask, celery>>
        /\ pc[FIN] = "on_exception" /\ pc'[FIN] = "fail_job" /\ mem'[FIN] = job
    BY <1>a, <1>4, Zenon DEF Only, ReloadJob, Goto, TypeOK
  <2> QED BY <2>1, Unwritten, Zenon DEF celery
<1> QED BY <1>1, <1>2, <1>3, <1>4, Zenon

(* Every step keeps Uncanceled and is a step of the lifecycle, or none. *)
LEMMA StepFollows ==
    ASSUME Cancelers = {}, Inv, Uncanceled, [Next]_vars
    PROVE  Uncanceled' /\ [Lifecycle!Next]_(Lifecycle!lifecycle)
<1> USE Roles
<1>a. TypeOK /\ Orderly /\ Chord
  BY Parts, Zenon
<1>1. ASSUME NEW w \in {FP, FIN}, WorkerCancel(w)
      PROVE  FALSE
  BY <1>1, Zenon DEF WorkerCancel, SelectTasks, WorkerCancelCommit, Uncanceled
<1>2. ASSUME NEW w \in {FP, FIN}, FailJob(w)
      PROVE  Uncanceled' /\ [Lifecycle!Next]_(Lifecycle!lifecycle)
  <2>1. /\ Only(w) /\ StatusFail(w) /\ UNCHANGED <<task, memTask, celery>>
        /\ pc[w] = "fail_job" /\ pc'[w] = "done" /\ mem'[w] = NULL
    BY <1>a, <1>2, Zenon DEF Only, FailJob, Return, Goto, TypeOK
  <2> QED BY <2>1, JobFailed, Zenon DEF celery
<1>3. CASE StarterStep
  BY <1>3, StarterFollows, Zenon
<1>4. CASE DeliverRevoke
  BY <1>4, Zenon DEF DeliverRevoke, Uncanceled
<1>5. ASSUME NEW t \in Sources, InspectStep(t) \/ IncrementStats(t) \/ UpdateStats(t)
      PROVE  Uncanceled' /\ [Lifecycle!Next]_(Lifecycle!lifecycle)
  BY <1>5, FirstCheckFollows, RunTaskFollows, StatsFollow, Zenon DEF InspectStep
<1>6. CASE FingerprintStep
  BY <1>1, <1>2, <1>6, FirstCheckFollows, ReportFollows, RunTaskFollows, Zenon DEF FingerprintStep
<1>7. CASE FinalizeStep
  BY <1>1, <1>2, <1>7, FirstCheckFollows, FinalizeFollows, Zenon DEF FinalizeStep
<1>8. ASSUME NEW p \in Procs, Crash(p)
      PROVE  Uncanceled' /\ [Lifecycle!Next]_(Lifecycle!lifecycle)
  <2>1. /\ Only(p) /\ UNCHANGED <<job, task, memTask, celery>>
        /\ pc[p] \notin {"idle", "queued", "done"} /\ pc'[p] = "lost" /\ mem'[p] = NULL
    BY <1>a, <1>8, Zenon DEF Only, Crash, Goto, TypeOK
  <2>2. /\ pc'[p] \notin {"queue", "start", "dispatch", "cancel", "cancel_commit"}
        /\ pc[p] \notin {"idle", "done"} /\ UNCHANGED <<canvas, revoking, revoked>>
    BY <2>1, Zenon DEF celery
  <2> QED BY <2>1, <2>2, Unwritten, Zenon
<1>9. CASE UNCHANGED vars
  <2>1. /\ JobStatus' = JobStatus
        /\ Reported' = Reported
        /\ FingerprintFailed' = FingerprintFailed
    BY <1>9, Zenon DEF JobStatus, Reported, FingerprintFailed, vars
  <2>2. Uncanceled'
    BY <1>9, <2>1, Zenon DEF Uncanceled, JobIs, vars
  <2> QED BY <2>1, <2>2, LifecycleSteps, Zenon
<1> QED BY <1>3, <1>4, <1>5, <1>6, <1>7, <1>8, <1>9, Zenon DEF Next

(* Without cancel requests ScanJob implements the safety part of its        *)
(* lifecycle: the row of the job takes only the steps of ScanJobLifecycle,  *)
(* for any sources, crashes and unanswered queries, although the tasks,     *)
(* fingerprint and finalize_scan each save a row of their own.             *)
THEOREM LifecycleFollowed ==
    ASSUME Cancelers = {}
    PROVE  Spec => FollowsLifecycle
<1>1. Init => Uncanceled /\ Lifecycle!Init
  <2> SUFFICES ASSUME Init PROVE Uncanceled /\ Lifecycle!Init
    BY Zenon
  <2>1. /\ \A t \in Tasks : task[t] = NULL /\ memTask[t] = NewTask
        /\ \A p \in Procs : mem[p] = NULL
        /\ \A w \in Workers : pc[w] = "idle"
        /\ pc[Starter] = "create" /\ job = NULL
    BY Roles, Zenon DEF Init, NoTasks
  <2>2. NewTask.status = "pending"
    BY Zenon DEF NewTask
  <2>3. JobStatus = "none" /\ Reported = FALSE /\ FingerprintFailed = FALSE
    BY <2>1, Roles, Zenon DEF JobStatus, Reported, FingerprintFailed
  <2>4. memTask[FP].status # "canceled" /\ ~JobIs("canceled")
    BY <2>1, <2>2, Roles, Zenon DEF JobIs
  <2>5. Uncanceled
    BY <2>1, <2>3, <2>4, Roles, Zenon DEF Uncanceled, Init
  <2> QED BY <2>3, <2>5, Zenon DEF Lifecycle!Init
<1>2. TypeOK /\ Orderly /\ Chord /\ Settling /\ Reporting /\ Uncanceled /\ [Next]_vars
        => Uncanceled' /\ [Lifecycle!Next]_(Lifecycle!lifecycle)
  BY StepFollows, Zenon DEF Inv
<1> QED BY <1>1, <1>2, Order, Settlement, PTL DEF Spec, FollowsLifecycle, Lifecycle!Safety
=============================================================================
