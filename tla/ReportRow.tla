------------------------------ MODULE ReportRow ------------------------------
(***************************************************************************)
(* The row of one report and its aggregate report, between three parties   *)
(* that do not wait for each other: the fingerprint task, which makes the  *)
(* row, links the deployments report to it and builds the aggregate        *)
(* (scanner/tasks.py, fingerprinter/runner.py); a request for the details  *)
(* CSV, which caches the text in the row (api/details_report/util.py); and *)
(* requests for the aggregate, which build it when it is missing or older  *)
(* than the report (api/aggregate_report/model.py).                        *)
(*                                                                         *)
(* No transaction spans any of this.  A date counts the saves of the       *)
(* report: the aggregate has the one of the report at that time.           *)
(***************************************************************************)
EXTENDS RestValues, Integers

CONSTANTS Readers,        \* the requests for the aggregate report
          MaxAggregates   \* at most this many aggregate rows are inserted

VARIABLES report,         \* the Report row
          fptask,         \* the fingerprint task: its step and its own report
          details,        \* the request for the details CSV
          aggregate,      \* the AggregateReport row
          build,          \* per builder of the aggregate: where it is
          fingerprints,   \* the number of SystemFingerprints of the report
          last_id         \* the primary key given out last

reportVars == <<report, fptask, details, aggregate, build, fingerprints, last_id>>

Task == "fingerprint task"

Builders == Readers \cup {Task}

FingerprintCount == 2     \* how many fingerprints the task persists

Texts == {"whole", "without sources"}

ReportRows == [groups : BOOLEAN, linked : BOOLEAN, cached_csv : Texts \cup {None},
               updated_at : Nat]

AggregateRows == [id : Nat, total : Nat, updated_at : Nat]

ASSUME ReportAssumption ==
    /\ Task \notin Readers
    /\ None \notin Texts \cup ReportRows \cup AggregateRows

AtRest == [step |-> "idle"]

\* Report.save: the whole row, at a later date.
SaveReport(new) == report' = [new EXCEPT !.updated_at = report.updated_at + 1]

-----------------------------------------------------------------------------
\* create_report_for_scan_job makes the row first and adds the inspect groups to
\* it later; an upload or a merge does both in one transaction.
CreateReportRow ==
    /\ fptask.step = "start"
    /\ \E groups \in BOOLEAN :
        LET new == [groups |-> groups, linked |-> FALSE, cached_csv |-> None, updated_at |-> 0]
        IN  /\ report' = new
            /\ fptask' = [step |-> IF groups THEN "run" ELSE "groups", copy |-> new]
    /\ UNCHANGED <<details, aggregate, build, fingerprints, last_id>>

SetGroups ==
    /\ fptask.step = "groups"
    /\ report' = [report EXCEPT !.groups = TRUE]
    /\ fptask' = [fptask EXCEPT !.step = "run", !.copy.groups = TRUE]
    /\ UNCHANGED <<details, aggregate, build, fingerprints, last_id>>

\* execute_task: the task saves the report it has had since it was made.
LinkDeployments ==
    /\ fptask.step = "run"
    /\ SaveReport([fptask.copy EXCEPT !.linked = TRUE])
    /\ fptask' = [fptask EXCEPT !.step = "linked", !.copy.linked = TRUE]
    /\ UNCHANGED <<details, aggregate, build, fingerprints, last_id>>

\* _process_details_report, one fingerprint at a time
PersistFingerprint ==
    /\ fptask.step = "linked"
    /\ fingerprints' = fingerprints + 1
    /\ fptask' = [fptask EXCEPT !.step =
                     IF fingerprints' = FingerprintCount THEN "aggregate" ELSE "linked"]
    /\ UNCHANGED <<report, details, aggregate, build, last_id>>

-----------------------------------------------------------------------------
\* The view of the details report: the facts are those of the groups there are.
GetDetails ==
    /\ details = AtRest
    /\ report # None
    /\ details' = [step |-> "csv", text |-> IF report.groups THEN "whole" ELSE "without sources"]
    /\ UNCHANGED <<report, fptask, aggregate, build, fingerprints, last_id>>

\* create_details_csv: a cached text is the response, otherwise it is written.
RenderDetails ==
    /\ details.step = "csv"
    /\ details' = IF report.cached_csv # None THEN AtRest
                  ELSE [step |-> "save", text |-> details.text, copy |-> report]
    /\ UNCHANGED <<report, fptask, aggregate, build, fingerprints, last_id>>

\* Its last lines: the row as it was read, with the text.  The groups are not a
\* column of it.
WithCsv(copy) == [copy EXCEPT !.cached_csv = details.text, !.groups = report.groups]

SaveDetailsCsv ==
    /\ details.step = "save"
    /\ SaveReport(WithCsv(details.copy))
    /\ details' = AtRest
    /\ UNCHANGED <<fptask, aggregate, build, fingerprints, last_id>>

-----------------------------------------------------------------------------
\* The builder gives up with an error, which is the end of the task too.
Raises(b) ==
    /\ build' = [build EXCEPT ![b] = AtRest]
    /\ fptask' = IF b = Task THEN [fptask EXCEPT !.step = "failed"] ELSE fptask

Returns(b) ==
    /\ build' = [build EXCEPT ![b] = AtRest]
    /\ fptask' = IF b = Task THEN [fptask EXCEPT !.step = "done"] ELSE fptask

\* build_aggregate_report begins by reading the report, which it keeps.
ReadReport(b) ==
    /\ build[b] = AtRest
    /\ report # None
    /\ b = Task => fptask.step = "aggregate"
    /\ build' = [build EXCEPT ![b] = [step |-> "lookup", linked |-> report.linked,
                                      updated_at |-> report.updated_at]]
    /\ UNCHANGED <<report, fptask, details, aggregate, fingerprints, last_id>>

\* The look at what there is, which will do when it is not older than the report.
\* Only the task forces another.
LookupAggregate(b) ==
    /\ build[b].step = "lookup"
    /\ build' = [build EXCEPT ![b] =
          IF aggregate = None
          THEN [step |-> "create", linked |-> @.linked]
          ELSE IF @.updated_at <= aggregate.updated_at /\ b # Task
               THEN AtRest
               ELSE [step |-> "delete", linked |-> @.linked, id |-> aggregate.id]]
    /\ UNCHANGED <<report, fptask, details, aggregate, fingerprints, last_id>>

CountOntoOld(b) ==
    /\ build[b].step = "delete"
    /\ build' = [build EXCEPT ![b] =
          IF aggregate = None THEN [step |-> "create", linked |-> @.linked]
          ELSE [step |-> "count", linked |-> @.linked, id |-> aggregate.id,
                total |-> aggregate.total]]
    /\ UNCHANGED <<report, fptask, details, aggregate, fingerprints, last_id>>

\* "delete the old report object and start fresh"
DeleteAggregate(b) ==
    /\ build[b].step = "delete"
    /\ aggregate' = IF aggregate # None /\ aggregate.id = build[b].id THEN None ELSE aggregate
    /\ build' = [build EXCEPT ![b] = [step |-> "create", linked |-> @.linked]]
    /\ UNCHANGED <<report, fptask, details, fingerprints, last_id>>

\* There is one aggregate per report: a second INSERT raises.
CreateAggregate(b) ==
    /\ build[b].step = "create"
    /\ IF aggregate # None
       THEN Raises(b) /\ UNCHANGED <<aggregate, last_id>>
       ELSE /\ last_id < MaxAggregates
            /\ last_id' = last_id + 1
            /\ aggregate' = [id |-> last_id', total |-> 0, updated_at |-> report.updated_at]
            /\ build' = [build EXCEPT ![b] =
                             [step |-> "count", linked |-> @.linked, id |-> last_id', total |-> 0]]
            /\ UNCHANGED fptask
    /\ UNCHANGED <<report, details, fingerprints>>

\* Every fingerprint is added to what the object has counted.
Counted(b) == build[b].total + fingerprints

\* _aggregate_from_...: the deployments report is reached through the link of the
\* report as it was read.  An exception leaves the new row as it is.
CountAggregate(b) ==
    /\ build[b].step = "count"
    /\ \/ /\ build[b].linked
          /\ build' = [build EXCEPT ![b] = [step |-> "save", id |-> build[b].id,
                                            total |-> Counted(b)]]
          /\ UNCHANGED fptask
       \/ Raises(b)
    /\ UNCHANGED <<report, details, aggregate, fingerprints, last_id>>

SaveOverOther(b) == TRUE

\* An UPDATE of the own row, or the INSERT of it when it is gone.
OwnPlace(b) == aggregate = None \/ aggregate.id = build[b].id

\* aggregated.save(), which raises when another row has taken the place.
SaveAggregate(b) ==
    /\ build[b].step = "save"
    /\ IF OwnPlace(b)
       THEN /\ aggregate' = [id |-> build[b].id, total |-> build[b].total,
                             updated_at |-> report.updated_at]
            /\ build' = [build EXCEPT ![b] = [step |-> "refresh", id |-> @.id]]
            /\ UNCHANGED fptask
       ELSE Raises(b) /\ UNCHANGED aggregate
    /\ UNCHANGED <<report, details, fingerprints, last_id>>

\* refresh_from_db raises when the row has been deleted meanwhile.
RefreshAggregate(b) ==
    /\ build[b].step = "refresh"
    /\ IF aggregate # None /\ aggregate.id = build[b].id THEN Returns(b) ELSE Raises(b)
    /\ UNCHANGED <<report, details, aggregate, fingerprints, last_id>>

-----------------------------------------------------------------------------
ReportInit ==
    /\ report = None
    /\ fptask = [step |-> "start"]
    /\ details = AtRest
    /\ aggregate = None
    /\ build = [b \in Builders |-> AtRest]
    /\ fingerprints = 0
    /\ last_id = 0

ReportNext ==
    \/ CreateReportRow \/ SetGroups \/ LinkDeployments \/ PersistFingerprint
    \/ GetDetails \/ RenderDetails \/ SaveDetailsCsv
    \/ \E b \in Builders : \/ ReadReport(b) \/ LookupAggregate(b) \/ DeleteAggregate(b)
                           \/ CreateAggregate(b) \/ CountAggregate(b) \/ SaveAggregate(b)
                           \/ RefreshAggregate(b)

ReportSpec == ReportInit /\ [][ReportNext]_reportVars

-----------------------------------------------------------------------------
\* "To be safe and eliminate any risk of double counting": the counters are added
\* up on an object that is new, so that however many builders meet and start again,
\* what is stored never counts a fingerprint twice (build_aggregate_report).
NeverDoubleCounted ==
    aggregate # None => aggregate.total <= fingerprints

\* When the fingerprint task has succeeded and nobody is building, the stored
\* aggregate counts the fingerprints: a request that began to count before they
\* were persisted does not leave its zeros behind (the deletion by primary key,
\* the unique report).  This is as long as the report is not saved again, which
\* makes the aggregate outdated: then a request that deletes it can make room for
\* the zeros of another that is late.
SettledAggregateCounts ==
    /\ fptask.step = "done"
    /\ report.cached_csv = None
    /\ \A b \in Builders : build[b] = AtRest
    => aggregate # None /\ aggregate.total = FingerprintCount
=============================================================================
