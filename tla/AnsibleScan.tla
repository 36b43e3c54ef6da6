----------------------------- MODULE AnsibleScan ----------------------------
(***************************************************************************)
(* The inspect task of an ansible source: one controller is one system, and  *)
(* the hosts it manages are a fact of it.  The first page of a listing says   *)
(* how many pages there are; the others are requested by a pool of threads    *)
(* and taken as they complete.                                             *)
(***************************************************************************)
EXTENDS SourceScan

CONSTANT AapPageSize  \* the page size of the controller

ASSUME AnsibleAssumption == AapPageSize \in Nat \ {0}

VARIABLES hostMetrics, \* does the controller offer host_metrics?
          pages,       \* pages requested and not completed
          hosts,       \* the hosts collected, a sequence
          jobHosts,    \* the hosts that have run jobs
          facts,       \* the facts collected so far
          factFailed   \* inspection_status is FAILED

aapVars == <<hostMetrics, pages, hosts, jobHosts, facts, factFailed>>

AapInit ==
    /\ hostMetrics = FALSE
    /\ pages = {}
    /\ hosts = <<>>
    /\ jobHosts = {}
    /\ facts = {}
    /\ factFailed = FALSE

(* The client is built before the task starts: a secret the vault does not    *)
(* give fails the task in the Celery task's decorator.                      *)
AapClientFails ==
    /\ pc = "start"
    /\ Finish("failed")
    /\ UNCHANGED <<source_type, stats, rowVars, serverVars, aapVars>>

(* check_connection, with the detection of the endpoints. *)
AapConnect ==
    /\ pc = "start"
    /\ \E result \in Statuses, metrics \in BOOLEAN :
           /\ SaveConnection(Restarted(1), result, "instance_details")
           /\ hostMetrics' = metrics
    /\ UNCHANGED <<source_type, serverVars, pages, hosts, jobHosts, facts, factFailed>>

FactCollected(name, next) ==
    /\ facts' = facts \union {name}
    /\ UNCHANGED factFailed
    /\ Goto(next)

(* A RequestException while one fact is collected; the others still are. *)
FactLost(next) ==
    /\ factFailed' = TRUE
    /\ UNCHANGED facts
    /\ Goto(next)

AapInstanceDetails ==
    /\ pc = "instance_details"
    /\ FactCollected("instance_details", "hosts") \/ FactLost("hosts")
    /\ UNCHANGED <<source_type, stats, rowVars, serverVars, hostMetrics, pages, hosts, jobHosts>>

CeilDiv(n, d) == (n + d - 1) \div d

(* get_hosts, the first page: the number of pages follows from the count. *)
AapHosts ==
    /\ pc = "hosts"
    /\ \/ LET first == PageOf(listing, 1, AapPageSize)
              total == CeilDiv(Len(listing), Len(first))
          IN  /\ hosts' = first
              /\ IF Len(first) < Len(listing)
                 THEN pages' = 2 .. total /\ pc' = "pages" /\ UNCHANGED <<facts>>
                 ELSE pc' = "jobs" /\ facts' = facts \union {"hosts"} /\ UNCHANGED pages
              /\ UNCHANGED <<status, jobFailed, factFailed>>
       \/ FactLost("jobs") /\ UNCHANGED <<pages, hosts>>
    /\ UNCHANGED <<source_type, stats, rowVars, serverVars, hostMetrics, jobHosts>>

AapPagesAbandoned(p) ==
    /\ pc = "pages"
    /\ hosts' = hosts \o PageOf(listing, p, AapPageSize)
    /\ pages' = {}
    /\ FactCollected("hosts", "jobs")
    /\ UNCHANGED <<source_type, stats, rowVars, serverVars, hostMetrics, jobHosts>>

(* One of the parallel requests completes; after the last, the fact is whole. *)
AapPage(p) ==
    /\ pc = "pages"
    /\ hosts' = hosts \o PageOf(listing, p, AapPageSize)
    /\ pages' = pages \ {p}
    /\ IF pages' = {} THEN FactCollected("hosts", "jobs") ELSE UNCHANGED <<pc, status, jobFailed, facts, factFailed>>
    /\ UNCHANGED <<source_type, stats, rowVars, serverVars, hostMetrics, jobHosts>>

(* A request for a page fails: the requests not begun are cancelled, the fact is lost. *)
AapPageFails(p) ==
    /\ pc = "pages"
    /\ FactLost("jobs")
    /\ pages' = {}
    /\ hosts' = <<>>
    /\ UNCHANGED <<source_type, stats, rowVars, serverVars, hostMetrics, jobHosts>>

(* The hosts that have run automation: host_metrics tells them all, deleted   *)
(* hosts included, and so do the events of the jobs.                        *)
UniqueHosts(seen) == jobHosts' = seen /\ FactCollected("jobs", "save")

(* get_jobs_fact: host_metrics where it is offered; where that is refused or  *)
(* missing, the jobs endpoint.                                             *)
AapJobs ==
    /\ pc = "jobs"
    /\ \/ \E seen \in SUBSET Systems : UniqueHosts(seen) /\ UNCHANGED hostMetrics
       \/ FactLost("save") /\ UNCHANGED <<hostMetrics, jobHosts>>
       \/ /\ hostMetrics
          /\ hostMetrics' = FALSE
          /\ UNCHANGED <<pc, status, jobFailed, jobHosts, facts, factFailed>>
    /\ UNCHANGED <<source_type, stats, rowVars, serverVars, pages, hosts>>

(* compare_hosts *)
HostsOnlyInJobs == jobHosts \ ToSet(hosts)

(* compare_hosts only after a success; the task is COMPLETED as soon as        *)
(* anything was counted as scanned, the connection included.                *)
AapSave ==
    /\ pc = "save"
    /\ SaveResult(Self, IF factFailed THEN "failed" ELSE "success",
                  IF factFailed THEN facts ELSE facts \union {"comparison"})
    /\ Finish(IF stats'.scanned > 0 THEN "completed" ELSE "failed")
    /\ UNCHANGED <<source_type, serverVars, aapVars>>

(* inspect() expects a RequestException only: anything else, raised in a thread    *)
(* of the pool too, ends the runner.                                         *)
AapRaises ==
    /\ pc # "done"
    /\ Raise
    /\ UNCHANGED <<source_type, stats, rowVars, serverVars, aapVars>>

AapNext ==
    \/ AapClientFails
    \/ AapConnect
    \/ AapInstanceDetails
    \/ AapHosts
    \/ \E p \in pages : AapPage(p)
    \/ \E p \in pages : AapPageFails(p)
    \/ AapJobs
    \/ AapSave
    \/ AapRaises

=============================================================================
