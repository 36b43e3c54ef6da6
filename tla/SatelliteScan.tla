---------------------------- MODULE SatelliteScan ---------------------------
(***************************************************************************)
(* The inspect task of a satellite source.  It counts the hosts, lists them  *)
(* page by page to record connections, lists them again to ask for the       *)
(* details of each host in a Celery task of its own, waits for all of them   *)
(* while it keeps its own worker, as the inspect tasks of other satellites do,  *)
(* and stores the answers.                                                  *)
(***************************************************************************)
EXTENDS SourceScan

CONSTANTS Orgs,      \* organizations of the server (API version 1)
          OrgOf,     \* the organization of a host
          PerPage,
          Workers    \* Celery workers; the inspect task holds one of them

(* Every host belongs to an organization, as it does on the server. *)
ASSUME SatelliteAssumption ==
    /\ Len(Orgs) \in Nat \ {0}
    /\ \A h \in Systems : \E o \in 1 .. Len(Orgs) : OrgOf[h] = Orgs[o]
    /\ PerPage \in Nat \ {0}
    /\ Workers \in Nat \ {0}

VARIABLES api_version, \* 0 until the status request has answered
          org, page,   \* where request_results is in the listing
          fetched,     \* the hosts of _requests_hosts_unique, in order
          inflight,    \* host tasks a worker runs
          answers,     \* what request_host_details returned
          waiting      \* other inspect tasks that keep a worker while they wait
                       \* for host tasks of their own

satVars == <<api_version, org, page, fetched, inflight, answers, waiting>>

SatInit ==
    /\ api_version = 0
    /\ org = 1
    /\ page = 1
    /\ fetched = <<>>
    /\ inflight = {}
    /\ answers = << >>
    /\ waiting = 0

FirstOrgOnly == 1

(* The listings to go through: one per organization, or one in all. *)
Scopes == IF api_version = 1 THEN Len(Orgs) ELSE 1
HostsOf(o) ==
    IF api_version = 1 THEN Only(listing, {h \in Systems : OrgOf[h] = Orgs[o]}) ELSE listing

(* What a request ends with when the server does not answer it well. *)
RequestErrors ==
    {"SatelliteError", "SatelliteAuthError", "ConnectionError", "ReadTimeout", "JSONDecodeError"}

(* EXPECTED_EXCEPTIONS: a ReadTimeout of requests is not a TimeoutError. *)
ExpectedErrors == {"SatelliteError", "SatelliteAuthError", "ConnectionError"}

SatRequestFails ==
    /\ pc \in {"start", "count", "hosts", "list"}
    /\ \E error \in RequestErrors : IF error \in ExpectedErrors THEN Finish("failed") ELSE Raise
    /\ UNCHANGED <<source_type, stats, rowVars, serverVars, satVars>>

SatInitialize ==
    /\ pc = "start"
    /\ \E v \in {1, 2} : api_version' = v
    /\ Goto("count")
    /\ UNCHANGED <<source_type, stats, rowVars, serverVars, org, page, fetched, inflight, answers, waiting>>

(* Version 1 returns from within its loop: it counts the first organization. *)
HostCountV1 == Len(HostsOf(1))
HostCountV2 == Len(listing)

SatHostCount ==
    /\ pc = "count"
    /\ stats' = [stats EXCEPT !.count = IF api_version = 1 THEN HostCountV1 ELSE HostCountV2]
    /\ Goto("hosts")
    /\ UNCHANGED <<source_type, rowVars, serverVars, satVars>>

(* request_results: a full page asks for another one, of the same listing; a *)
(* short one goes on to the next organization, or ends the listing.         *)
TurnPage(hosts, next) ==
    IF Len(hosts) = PerPage
    THEN page' = page + 1 /\ UNCHANGED <<org, pc>>
    ELSE /\ page' = 1
         /\ org' = IF org < Scopes THEN org + 1 ELSE 1
         /\ pc' = IF org < Scopes THEN pc ELSE next

SatHostsPage ==
    /\ pc = "hosts"
    /\ LET hosts == PageOf(HostsOf(org), page, PerPage)
       IN  conns' = conns \o Rows(hosts, "success") /\ TurnPage(hosts, "list")
    /\ UNCHANGED <<source_type, status, jobFailed, stats, results, serverVars,
                   api_version, fetched, inflight, answers, waiting>>

ListPageTwice ==
    /\ pc = "list"
    /\ LET hosts == PageOf(HostsOf(org), page, PerPage)
       IN  fetched' = fetched \o hosts /\ TurnPage(hosts, "details")
    /\ UNCHANGED <<source_type, status, jobFailed, stats, rowVars, serverVars,
                   api_version, inflight, answers, waiting>>

(* unique_everseen: a host that the server moved to a later page is kept once. *)
SatListPage ==
    /\ pc = "list"
    /\ LET hosts == PageOf(HostsOf(org), page, PerPage)
       IN  /\ fetched' = fetched \o Only(hosts, Systems \ ToSet(fetched))
           /\ TurnPage(hosts, "details")
    /\ UNCHANGED <<source_type, status, jobFailed, stats, rowVars, serverVars,
                   api_version, inflight, answers, waiting>>

-----------------------------------------------------------------------------
(* The group of host tasks: one per host, run by the workers that no inspect     *)
(* task keeps and that run no other of them.                                *)
FreeWorkers == Workers - 1 - waiting - Cardinality(inflight)

SatHostTaskStarts(h) ==
    /\ pc = "details"
    /\ h \in ToSet(fetched) \ (DOMAIN answers \union inflight)
    /\ FreeWorkers > 0
    /\ inflight' = inflight \union {h}
    /\ UNCHANGED <<scanVars, api_version, org, page, fetched, answers, waiting>>

HostTaskRetried(h, answer) ==
    /\ h \in inflight
    /\ inflight' = inflight \ {h}
    /\ answers' = IF answer = "error" THEN answers
                  ELSE [x \in DOMAIN answers \union {h} |-> IF x = h THEN answer ELSE answers[x]]
    /\ UNCHANGED <<scanVars, api_version, org, page, fetched, waiting>>

(* A bad status code or a timeout is FAILED.  Anything else (an answer that   *)
(* is not JSON, a refused connection) goes to the decorator, which fails the *)
(* ScanTask and returns a tuple in place of the answer.                     *)
SatHostTaskEnds(h, answer) ==
    /\ h \in inflight
    /\ inflight' = inflight \ {h}
    /\ answers' = [x \in DOMAIN answers \union {h} |-> IF x = h THEN answer ELSE answers[x]]
    /\ status' = IF answer = "error" THEN "failed" ELSE status
    /\ UNCHANGED <<source_type, pc, jobFailed, stats, rowVars, serverVars,
                   api_version, org, page, fetched, waiting>>

SatGroupDone ==
    /\ pc = "details"
    /\ DOMAIN answers = ToSet(fetched)
    /\ Goto("process")
    /\ UNCHANGED <<source_type, stats, rowVars, serverVars, satVars>>

(* host_fields and host_subscriptions: the facts of the two answers about a   *)
(* host; one that failed has none.                                         *)
HostFacts(answer) == IF answer = "success" THEN {"host", "entitlements"} ELSE {}

Unprocessed == Len(results) < Len(fetched)

ProcessErrorAsFailed ==
    /\ pc = "process"
    /\ Unprocessed
    /\ LET h == fetched[Len(results) + 1]
       IN  SaveResult(h, IF answers[h] = "success" THEN "success" ELSE "failed", {})
    /\ UNCHANGED <<source_type, pc, status, jobFailed, serverVars, satVars>>

(* process_results: the tuple has no "unique_name" and ends the runner. *)
SatProcess ==
    /\ pc = "process"
    /\ Unprocessed
    /\ LET h == fetched[Len(results) + 1]
       IN  IF answers[h] = "error"
           THEN Raise /\ UNCHANGED <<stats, rowVars>>
           ELSE /\ SaveResult(h, answers[h], HostFacts(answers[h]))
                /\ UNCHANGED <<pc, status, jobFailed>>
    /\ UNCHANGED <<source_type, serverVars, satVars>>

KeepExpectedCount ==
    /\ pc = "process"
    /\ ~Unprocessed
    /\ Finish("completed")
    /\ UNCHANGED <<source_type, stats, rowVars, serverVars, satVars>>

(* validate_task_stats: the count is corrected to what was found. *)
SatDone ==
    /\ pc = "process"
    /\ ~Unprocessed
    /\ stats' = [stats EXCEPT !.count = stats.scanned + stats.failed + stats.unreachable]
    /\ Finish("completed")
    /\ UNCHANGED <<source_type, rowVars, serverVars, satVars>>

(* The pool serves the inspect tasks of other satellite sources too.  Each keeps   *)
(* a worker until its own group is done, and that takes a free one.             *)
OtherTaskWaits ==
    /\ pc = "details"
    /\ FreeWorkers > 0
    /\ waiting' = waiting + 1
    /\ UNCHANGED <<scanVars, api_version, org, page, fetched, inflight, answers>>

OtherTaskGoesOn ==
    /\ pc = "details"
    /\ waiting > 0
    /\ FreeWorkers > 0
    /\ waiting' = waiting - 1
    /\ UNCHANGED <<scanVars, api_version, org, page, fetched, inflight, answers>>

OtherTasks == OtherTaskWaits \/ OtherTaskGoesOn

(* The deadlock the comment in _prepare_and_process_hosts_using_celery warns of:     *)
(* every worker is kept by an inspect task that waits for host tasks.          *)
Starved ==
    /\ source_type = "satellite"
    /\ pc = "details"
    /\ DOMAIN answers # ToSet(fetched)
    /\ waiting = Workers - 1

SatNext ==
    \/ SatRequestFails
    \/ SatInitialize
    \/ SatHostCount
    \/ SatHostsPage
    \/ SatListPage
    \/ \E h \in Systems : SatHostTaskStarts(h)
    \/ \E h \in Systems, answer \in {"success", "failed", "error"} : SatHostTaskEnds(h, answer)
    \/ SatGroupDone
    \/ SatProcess
    \/ SatDone

=============================================================================
