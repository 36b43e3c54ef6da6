----------------------------- MODULE SourceScans ----------------------------
(***************************************************************************)
(* An inspect task of any API source: get_task_runner_class chooses the       *)
(* runner by the type of the source, and the server changes under it.  A      *)
(* fingerprint task, whose "source" is a report, has its runner here too.    *)
(***************************************************************************)
EXTENDS SatelliteScan, VcenterScan, AnsibleScan, OpenShiftScan, RhacsScan, Fingerprint

SourceTypes == {"satellite", "vcenter", "ansible", "openshift", "rhacs", "fingerprint"}

inspectVars == <<satVars, vcVars, aapVars, ocpVars, acsVars>>
runnerVars == <<inspectVars, fpVars>>
vars == <<scanVars, runnerVars>>

Init ==
    /\ source_type \in SourceTypes
    /\ SourceScanInit /\ SatInit /\ VcInit /\ AapInit /\ OcpInit /\ AcsInit /\ FpInit
    /\ source_type = "fingerprint" => listing = <<>>

Runner ==
    \/ source_type = "satellite" /\ SatNext /\ UNCHANGED <<vcVars, aapVars, ocpVars, acsVars, fpVars>>
    \/ source_type = "vcenter" /\ VcNext /\ UNCHANGED <<satVars, aapVars, ocpVars, acsVars, fpVars>>
    \/ source_type = "ansible" /\ AapNext /\ UNCHANGED <<satVars, vcVars, ocpVars, acsVars, fpVars>>
    \/ source_type = "openshift" /\ OcpNext /\ UNCHANGED <<satVars, vcVars, aapVars, acsVars, fpVars>>
    \/ source_type = "rhacs" /\ AcsNext /\ UNCHANGED <<satVars, vcVars, aapVars, ocpVars, fpVars>>
    \/ source_type = "fingerprint" /\ FpNext /\ UNCHANGED inspectVars

Server == (ServerAdds \/ ServerRemoves) /\ UNCHANGED runnerVars

(* What others do meanwhile on the workers and in the database. *)
Others ==
    \/ source_type = "satellite" /\ OtherTasks /\ UNCHANGED <<vcVars, aapVars, ocpVars, acsVars, fpVars>>
    \/ source_type = "fingerprint" /\ AggregateRequested /\ UNCHANGED inspectVars

Ended == pc = "done" \/ Starved

Done == Ended /\ UNCHANGED vars

Next == Runner \/ Server \/ Others \/ Done

(* Every request is answered or times out, and a Celery worker that is free  *)
(* takes the next host task: the runner does not stop for ever.             *)
Spec == Init /\ [][Next]_vars /\ WF_vars(Runner)

-----------------------------------------------------------------------------

Counts(rows) ==
    <<WithStatus(rows, "success"), WithStatus(rows, "failed"), WithStatus(rows, "unreachable")>>

Totals == <<stats.scanned, stats.failed, stats.unreachable>>

(* At every step systems_scanned, systems_failed and systems_unreachable are       *)
(* "the total number of systems" with that result: for satellite those of its       *)
(* inspection results, for openshift those of the connection until _init_stats     *)
(* starts again with the nodes.  Nothing is claimed of vcenter, ansible and rhacs,   *)
(* whose runners count a system when it was connected and again when it was        *)
(* inspected.                                                               *)
CountersMatchRows ==
    /\ source_type = "satellite" => Totals = Counts(results)
    /\ source_type = "openshift" =>
           Totals = Counts(results) \/ (results = <<>> /\ Totals = Counts(conns))

(* A COMPLETED satellite or openshift task has one result for every system it  *)
(* counted: what host_count or the node list promised was found, or            *)
(* validate_task_stats has corrected it.                                     *)
CompletedIsWhole ==
    status = "completed" /\ source_type \in {"satellite", "openshift"} =>
        /\ stats.count = Len(results)
        /\ stats.count = stats.scanned + stats.failed

(* However the server's pages shift while they are read, a system gets one     *)
(* inspection result at most.                                               *)
OneResultPerSystem ==
    \A s \in Systems \union {Self} : Named(results, s) <= 1

(* As long as nothing is removed from the server, a COMPLETED task has a        *)
(* result for every system the server listed from start to end, whatever was    *)
(* added in between.                                                        *)
NoSystemMissed ==
    /\ status = "completed"
    /\ source_type \in {"satellite", "vcenter", "openshift"}
    /\ removed = {}
    => \A s \in ToSet(listing) \ added : Named(results, s) = 1

(* The hosts fact of a controller that did not change has every host once, in   *)
(* whatever order the threads' pages arrived, so that no host of the inventory  *)
(* is reported as known from jobs only.                                     *)
HostsFactWhole ==
    "hosts" \in facts /\ added = {} /\ removed = {} =>
        /\ Len(hosts) = Len(listing)
        /\ ToSet(hosts) = ToSet(listing)
        /\ HostsOnlyInJobs \intersect ToSet(listing) = {}

(* Where a host task has failed the ScanTask from another worker, the waiting    *)
(* runner does not complete it.                                             *)
FailedStaysFailed == [][status = "failed" => status' = "failed"]_vars

(* A virtual machine is stored with its own host, the host's cluster and the      *)
(* cluster's datacenter, in whatever order the collector returned the inventory.  *)
MachinesPlaced ==
    source_type = "vcenter" =>
        \A i \in 1 .. Len(results) :
            LET host == RunsOn[results[i].name]
            IN  results[i].facts = {host, Parent[host], DatacenterOf[Parent[host]]}

(* The task ends, unless every worker comes to be kept by a satellite inspect      *)
(* task that waits for its host tasks: as long as one is free now and then, the     *)
(* group gets it, whatever its host tasks answer.                             *)
ScanEnds == <>Ended

=============================================================================
