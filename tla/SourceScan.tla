----------------------------- MODULE SourceScan -----------------------------
(***************************************************************************)
(* What the inspect tasks of all API sources (satellite, vcenter, ansible,  *)
(* openshift, rhacs) have in common: the ScanTask row with its counters, the *)
(* connection and inspection results it collects, how a runner ends, and    *)
(* the remote server, whose listing may change between two requests.       *)
(*                                                                         *)
(* Each runner is a module of its own that extends this one; SourceScans    *)
(* composes them.                                                          *)
(***************************************************************************)
EXTENDS Selection, SequencesExt

CONSTANTS Systems,   \* what a server may list: hosts, virtual machines, nodes
          Self       \* the host of the source, itself a system for some types

ASSUME SystemsAssumption == IsFiniteSet(Systems) /\ Self \notin Systems

VARIABLES source_type,
          pc,        \* what the runner does next
          status,    \* ScanTask.status
          jobFailed, \* has the runner failed the whole job?
          stats,     \* the counters of the ScanTask
          conns,     \* SystemConnectionResult rows, in the order of creation
          results,   \* InspectResult rows, in the order of creation
          listing,   \* what the server lists now, in the server's order
          added,     \* systems that appeared during the scan (history)
          removed    \* systems that disappeared during the scan (history)

taskVars == <<pc, status, jobFailed, stats>>
rowVars == <<conns, results>>
serverVars == <<listing, added, removed>>
scanVars == <<source_type, taskVars, rowVars, serverVars>>

Statuses == {"success", "failed", "unreachable"}
Zero == [count |-> 0, scanned |-> 0, failed |-> 0, unreachable |-> 0]

SourceScanInit ==
    /\ pc = "start"
    /\ status = "running"
    /\ jobFailed = FALSE
    /\ stats = Zero
    /\ conns = <<>>
    /\ results = <<>>
    /\ \E n \in 0 .. Cardinality(Systems) :
           listing = SubSeq(SetToSeq(Systems), 1, n)
    /\ added = {}
    /\ removed = {}

-----------------------------------------------------------------------------
(* The runner returns COMPLETED or FAILED, and run_task_runner saves it. *)
Finish(result) ==
    /\ pc' = "done"
    /\ status' = result
    /\ UNCHANGED jobFailed

(* An exception the runner does not expect: run_task_runner fails the task  *)
(* and the job.                                                            *)
Raise ==
    /\ pc' = "done"
    /\ status' = "failed"
    /\ jobFailed' = TRUE

Goto(next) == pc' = next /\ UNCHANGED <<status, jobFailed>>

(* ScanTask.increment_stats *)
Increment(counters, result) ==
    CASE result = "success" -> [counters EXCEPT !.scanned = @ + 1]
      [] result = "failed" -> [counters EXCEPT !.failed = @ + 1]
      [] result = "unreachable" -> [counters EXCEPT !.unreachable = @ + 1]

(* The counters after ScanTask.update_stats with all four arguments. *)
Restarted(count) == [Zero EXCEPT !.count = count]

Rows(names, result) == [i \in 1 .. Len(names) |-> [name |-> names[i], status |-> result]]
Row(name, result, facts) == [name |-> name, status |-> result, facts |-> facts]

(* The sources that are one system: the connection result is saved and       *)
(* counted, and only a success goes on to the inspection.                   *)
SaveConnection(counters, result, next) ==
    /\ conns' = Append(conns, [name |-> Self, status |-> result])
    /\ stats' = Increment(counters, result)
    /\ IF result = "success" THEN Goto(next) ELSE Finish("failed")
    /\ UNCHANGED results

SaveResult(name, result, facts) ==
    /\ results' = Append(results, Row(name, result, facts))
    /\ stats' = Increment(stats, result)
    /\ UNCHANGED conns

-----------------------------------------------------------------------------
(* Page p of a listing, as the server cuts it. *)
PageOf(list, p, size) ==
    SubSeq(list, (p - 1) * size + 1, IF p * size < Len(list) THEN p * size ELSE Len(list))

(* Where a runner still has to read the listing it has begun with. *)
Listing == {"count", "hosts", "list", "login", "pages", "nodes"}

(* The server's own users add and remove systems while it is scanned (what    *)
(* they do before the first request is part of the initial listing, and what  *)
(* they do after the last one is not seen).                                 *)
ServerAdds ==
    /\ pc \in Listing
    /\ \E s \in Systems \ (ToSet(listing) \union removed), i \in 1 .. Len(listing) + 1 :
           /\ listing' = InsertAt(listing, i, s)
           /\ added' = added \union {s}
    /\ UNCHANGED <<source_type, taskVars, rowVars, removed>>

ServerRemoves ==
    /\ pc \in Listing
    /\ removed = {}
    /\ \E i \in 1 .. Len(listing) :
           /\ listing' = RemoveAt(listing, i)
           /\ removed' = removed \union {listing[i]}
    /\ UNCHANGED <<source_type, taskVars, rowVars, added>>

=============================================================================
