----------------------------- MODULE ReportCache -----------------------------
(***************************************************************************)
(* The cached files of one deployments report: the row that holds their    *)
(* paths (api/deployments_report/model.py), the requests that read them    *)
(* (view.py, csv_renderer.py, util.py), the Celery tasks that write them   *)
(* again when they are gone (tasks.py), the management command that does   *)
(* the same, and the fingerprint task that writes the row at first.        *)
(*                                                                         *)
(* Each of them reads the row, works, and saves the whole row.  A path is  *)
(* that of a file that is there ("file"), of one that is gone ("lost"), or *)
(* null.  Files go all at once, with the directory they are in, so a copy  *)
(* of the row that is still being worked on loses its files too.           *)
(***************************************************************************)
EXTENDS RestValues, Integers

CONSTANTS Workers,        \* web and Celery workers
          MaxWipes,       \* how often the files are lost
          MaxQueued       \* at most this many messages of a task wait

VARIABLES row,            \* the DeploymentsReport row
          runner,         \* the fingerprint task: its step and its own copy of the row
          worker,         \* per worker: what it is doing, with which copy of the row
          queued,         \* the messages that wait in the Celery queue, per task
          wipes           \* how often the files were lost

cacheVars == <<row, runner, worker, queued, wipes>>

Tasks == {"fingerprints", "csv"}

Paths == {"file", "lost", None}

Rows == [status : {"pending", "completed", "failed"}, fingerprints : Paths, csv : Paths]

ASSUME CacheAssumption == None \notin {"file", "lost"} /\ None \notin Rows

Resting == [step |-> "idle"]

IsFree(w) == worker[w] = Resting

Ends(w) == worker' = [worker EXCEPT ![w] = Resting]

\* .delay(): a message for any worker.
Delay(task) == queued' = [queued EXCEPT ![task] = IF @ < MaxQueued THEN @ + 1 ELSE @]

-----------------------------------------------------------------------------
\* FingerprintTaskRunner.execute_task: the row is made, then filled, then saved
\* once more, before the aggregate report is built.
CreateRow ==
    /\ runner.step = "start"
    /\ row' = runner.copy
    /\ runner' = [runner EXCEPT !.step = "created"]
    /\ UNCHANGED <<worker, queued, wipes>>

\* _process_details_report: fingerprints and status are saved together.
ProcessDetailsReport ==
    /\ runner.step = "created"
    /\ \E status \in {"completed", "failed"} :
        LET copy == [runner.copy EXCEPT !.status = status, !.fingerprints = "file"]
        IN  /\ row' = copy
            /\ runner' = [step |-> "processed", copy |-> copy]
    /\ UNCHANGED <<worker, queued, wipes>>

SaveStatus ==
    /\ runner.step = "processed"
    /\ row' = runner.copy
    /\ runner' = [runner EXCEPT !.step =
                     IF runner.copy.status = "completed" THEN "aggregating" ELSE "done"]
    /\ UNCHANGED <<worker, queued, wipes>>

AggregateBuilt ==
    /\ runner.step = "aggregating"
    /\ runner' = [runner EXCEPT !.step = "done"]
    /\ UNCHANGED <<row, worker, queued, wipes>>

\* Its except clause: processing or aggregation raised.
TaskRaised ==
    /\ runner.step \in {"created", "aggregating"}
    /\ row' = [runner.copy EXCEPT !.status = "failed"]
    /\ runner' = [runner EXCEPT !.step = "done", !.copy.status = "failed"]
    /\ UNCHANGED <<worker, queued, wipes>>

-----------------------------------------------------------------------------
\* deployments_report_and_status: 424 for a report that is not complete, and for
\* one whose file is gone, which the getter of cached_fingerprints has delayed a
\* task for.  The data goes on to the CSV renderer or is the response.
GetDeployments(w) ==
    /\ IsFree(w)
    /\ row # None
    /\ row.status = "completed"
    /\ IF row.fingerprints = "lost"
       THEN Delay("fingerprints") /\ UNCHANGED worker
       ELSE /\ worker' = [worker EXCEPT ![w] = [step |-> "render", data |-> row.fingerprints]]
            /\ UNCHANGED queued
    /\ UNCHANGED <<row, runner, wipes>>

\* create_deployments_csv up to the writing: it reads the row anew.  A CSV file
\* that is gone is an error, after the getter of cached_csv has delayed a task.
RenderCsv(w) ==
    /\ worker[w].step = "render"
    /\ \/ row.csv = "file" /\ Ends(w) /\ UNCHANGED queued
       \/ row.csv = "lost" /\ Ends(w) /\ Delay("csv")
       \/ row.csv = None /\ worker[w].data = None /\ Ends(w) /\ UNCHANGED queued
       \/ /\ row.csv = None /\ worker[w].data # None
          /\ worker' = [worker EXCEPT ![w] =
                           [step |-> "save", task |-> "render", copy |-> row, after |-> {}]]
          /\ UNCHANGED queued
    /\ UNCHANGED <<row, runner, wipes>>

\* A Celery worker takes a message.
TakeMessage(w, task) ==
    /\ IsFree(w)
    /\ queued[task] > 0
    /\ queued' = [queued EXCEPT ![task] = @ - 1]
    /\ worker' = [worker EXCEPT ![w] = [step |-> "run", task |-> task, after |-> {}]]
    /\ UNCHANGED <<row, runner, wipes>>

\* regenerate_missing_report_cache_files: find the files that are gone, write
\* the fingerprints, then the CSV.
Command(w) ==
    LET missing == {t \in Tasks : row[t] = "lost"}
        first   == IF "fingerprints" \in missing THEN "fingerprints" ELSE "csv"
    IN  /\ IsFree(w)
        /\ row # None
        /\ row.status = "completed"
        /\ missing # {}
        /\ worker' = [worker EXCEPT ![w] =
                         [step |-> "run", task |-> first, after |-> missing \ {first}]]
        /\ UNCHANGED <<row, runner, queued, wipes>>

\* Either task begins by reading the row.
ReadRow(w) ==
    /\ worker[w].step = "run"
    /\ worker' = [worker EXCEPT ![w] = [step |-> "save", task |-> worker[w].task,
                                        copy |-> row, after |-> worker[w].after]]
    /\ UNCHANGED <<row, runner, queued, wipes>>

KeepLostPath(copy) == [copy EXCEPT !.csv = None]

\* generate_cached_fingerprints
Regenerated(copy) == [copy EXCEPT !.fingerprints = "file", !.csv = None]

ClearBoth(copy) ==
    [copy EXCEPT !.csv = IF copy.fingerprints = "file" THEN "file" ELSE None,
                 !.fingerprints = IF copy.fingerprints = "lost" THEN None ELSE @]

\* generate_and_save_cached_csv, one transaction from its first save on.  When
\* the fingerprints are gone too, or there are none, only the null path is saved.
CsvGenerated(copy) ==
    [copy EXCEPT !.csv = IF copy.fingerprints = "file" THEN "file" ELSE None]

\* The end of create_deployments_csv.
CsvRendered(copy) == [copy EXCEPT !.csv = "file"]

\* What is done ends; the command goes on with the CSV.
GoesOn(w) ==
    IF worker[w].after = {} THEN Ends(w)
    ELSE worker' = [worker EXCEPT ![w] = [step |-> "run", task |-> "csv", after |-> {}]]

\* The row is saved as a whole.
SaveRow(w) ==
    /\ worker[w].step = "save"
    /\ LET task == worker[w].task
           copy == worker[w].copy
       IN  /\ row' = CASE task = "fingerprints" -> Regenerated(copy)
                       [] task = "csv"          -> CsvGenerated(copy)
                       [] task = "render"       -> CsvRendered(copy)
           /\ IF task = "csv" /\ copy.fingerprints = "lost"
              THEN Delay("fingerprints") ELSE UNCHANGED queued
    /\ GoesOn(w)
    /\ UNCHANGED <<runner, wipes>>

\* A task or a request that raises anywhere (the report is gone, a file cannot be
\* written) saves nothing, except that the first save of
\* generate_and_save_cached_csv may stand.
Fails(w) ==
    /\ worker[w].step \in {"run", "save"}
    /\ \/ UNCHANGED row
       \/ /\ worker[w].step = "save" /\ worker[w].task = "csv"
          /\ row' = [worker[w].copy EXCEPT !.csv = None]
    /\ worker' = [worker EXCEPT ![w] = [step |-> "failed", task |-> worker[w].task,
                                        after |-> worker[w].after]]
    /\ UNCHANGED <<runner, queued, wipes>>

\* The exception is logged, and the task returns False: nobody tries again.
ReturnsFalse(w) ==
    /\ worker[w].step = "failed"
    /\ GoesOn(w)
    /\ UNCHANGED <<row, runner, queued, wipes>>

-----------------------------------------------------------------------------
Wiped(copy) == [copy EXCEPT !.fingerprints = IF @ = "file" THEN "lost" ELSE @,
                            !.csv = IF @ = "file" THEN "lost" ELSE @]

\* The directory of the files is lost with the container it is in.
FilesLost ==
    /\ wipes < MaxWipes
    /\ row # None
    /\ wipes' = wipes + 1
    /\ row' = Wiped(row)
    /\ runner' = [runner EXCEPT !.copy = Wiped(@)]
    /\ worker' = [w \in Workers |-> IF worker[w].step = "save"
                                    THEN [worker[w] EXCEPT !.copy = Wiped(@)] ELSE worker[w]]
    /\ UNCHANGED queued

CacheInit ==
    /\ row = None
    /\ runner = [step |-> "start",
                 copy |-> [status |-> "pending", fingerprints |-> None, csv |-> None]]
    /\ worker = [w \in Workers |-> Resting]
    /\ queued = [t \in Tasks |-> 0]
    /\ wipes = 0

Runner == CreateRow \/ ProcessDetailsReport \/ SaveStatus \/ AggregateBuilt \/ TaskRaised

Goes(w) == RenderCsv(w) \/ ReadRow(w) \/ SaveRow(w) \/ Fails(w) \/ ReturnsFalse(w)

CacheNext ==
    \/ Runner
    \/ \E w \in Workers : \/ GetDeployments(w) \/ Command(w) \/ Goes(w)
                          \/ \E t \in Tasks : TakeMessage(w, t)
    \/ FilesLost

\* Whoever has begun goes on; and a worker is found for a message that waits,
\* however many requests come in between.
CacheFairness ==
    /\ WF_cacheVars(Runner)
    /\ \A w \in Workers : WF_cacheVars(Goes(w))
    /\ \A t \in Tasks : SF_cacheVars(\E w \in Workers : TakeMessage(w, t))

CacheSpec == CacheInit /\ [][CacheNext]_cacheVars /\ CacheFairness

-----------------------------------------------------------------------------
\* A report that is complete has a path for its fingerprints, whichever of the
\* tasks and requests saved its copy of the row last: no request is answered
\* with a report whose "system_fingerprints" is null (build_cached_json_report).
CompleteHasFingerprints ==
    row # None /\ row.status = "completed" => row.fingerprints # None

\* A message to write the fingerprints again has its effect, however many requests
\* and copies of the row are under way: the row holds the path of a file, at the
\* latest when that task has saved it, unless the files are lost again meanwhile or
\* a task that was to write them has failed, which nobody repeats
\* (generate_cached_fingerprints).
FingerprintsComeBack ==
    (queued["fingerprints"] > 0 /\ wipes = MaxWipes)
        ~> \/ row # None /\ row.fingerprints = "file"
           \/ \E w \in Workers : worker[w].step = "failed" /\ worker[w].task = "fingerprints"
=============================================================================
