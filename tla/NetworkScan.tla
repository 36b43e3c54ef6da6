---------------------------- MODULE NetworkScan -----------------------------
(***************************************************************************)
(* One network inspect task: it tries the credentials of the source on its  *)
(* hosts, one Ansible run per credential and group of hosts, then runs the   *)
(* inspection on the hosts that answered, group by group, and stores what   *)
(* the callbacks have collected.                                           *)
(*                                                                         *)
(* Ansible decides which events arrive and how a run ends.  Of the facts of  *)
(* a host the code tells apart: any at all, the one that identifies the      *)
(* host (connection_host), and the last one (host_done); the playbook sets   *)
(* them in this order.                                                     *)
(***************************************************************************)
EXTENDS Integers, FiniteSets

CONSTANTS SourceHosts,   \* the hosts the patterns of the source expand to
          ExcludedHosts,
          Credentials,   \* the credentials are tried as 1, 2, ..., Credentials
          Forks,         \* max_concurrency: hosts per Ansible run
          NULL

ConnStatus == {"success", "unreachable", "failed"}

ConnRow == [credential: (1..Credentials) \cup {NULL}, status: ConnStatus]

ASSUME NetworkAssumption ==
    /\ IsFiniteSet(SourceHosts)
    /\ Credentials \in Nat
    /\ Forks \in Nat \ {0}
    /\ NULL \notin 1..Credentials /\ NULL \notin ConnRow

Hosts == SourceHosts \ ExcludedHosts

VARIABLES phase,
          cred,        \* the credential being tried
          remaining,   \* ConnectResultStore._remaining_hosts
          todo,        \* hosts of this pass no run has been started for
          members,     \* the hosts of the current Ansible run
          playing,     \* those Ansible has not finished with
          anySuccess,  \* any_successful_connection
          conn,        \* the SystemConnectionResult of a host
          tried,       \* the credentials a host was tried with (history)
          facts,       \* what the InspectCallback has of a host
          unreachable, \* InspectCallback._unreachable_hosts
          results,     \* the InspectResult rows of a host
          stats,       \* the counters of the ScanTask
          groupFailed, \* did _inspect_scan see a run end badly?
          outcome      \* the status the runner returns

connectVars == <<cred, remaining, anySuccess, conn, tried>>
inspectVars == <<facts, unreachable, results, groupFailed>>
vars == <<phase, todo, members, playing, stats, outcome, connectVars, inspectVars>>

Zero == [count |-> 0, scanned |-> 0, failed |-> 0, unreachable |-> 0]

Init ==
    /\ phase = "begin"
    /\ cred = 0
    /\ remaining = {}
    /\ todo = {}
    /\ members = {}
    /\ playing = {}
    /\ anySuccess = FALSE
    /\ conn = [h \in Hosts |-> NULL]
    /\ tried = [h \in Hosts |-> {}]
    /\ facts = [h \in Hosts |-> "none"]
    /\ unreachable = {}
    /\ results = [h \in Hosts |-> {}]
    /\ stats = Zero
    /\ groupFailed = FALSE
    /\ outcome = "none"

(* The runner returns a status. *)
Finish(status) == phase' = "done" /\ outcome' = status

(* ScanTask.increment_stats *)
Counter(status) ==
    CASE status = "success" -> "scanned"
      [] status = "unreachable" -> "unreachable"
      [] status = "failed" -> "failed"

Increment(counters, status, n) == [counters EXCEPT ![Counter(status)] = @ + n]

(* construct_inventory: the next group of at most Forks hosts. *)
IsNextGroup(G) ==
    /\ G \subseteq todo
    /\ Cardinality(G) = (IF Cardinality(todo) < Forks THEN Cardinality(todo) ELSE Forks)

-----------------------------------------------------------------------------
(* check_connection *)

(* ConnectResultStore.__init__ *)
Begin ==
    /\ phase = "begin"
    /\ phase' = "credentials"
    /\ remaining' = Hosts
    /\ stats' = [Zero EXCEPT !.count = Cardinality(Hosts)]
    /\ UNCHANGED <<cred, anySuccess, conn, tried, todo, members, playing, outcome, inspectVars>>

NextCredentialAgain ==
    /\ phase = "credentials"
    /\ cred < Credentials /\ remaining # {}
    /\ cred' = 1
    /\ todo' = remaining
    /\ anySuccess' = FALSE
    /\ phase' = "connect"
    /\ UNCHANGED <<remaining, conn, tried, members, playing, stats, outcome, inspectVars>>

(* run_with_result_store: the next credential, on the remaining hosts. *)
NextCredential ==
    /\ phase = "credentials"
    /\ cred < Credentials /\ remaining # {}
    /\ cred' = cred + 1
    /\ todo' = remaining
    /\ anySuccess' = FALSE
    /\ phase' = "connect"
    /\ UNCHANGED <<remaining, conn, tried, members, playing, stats, outcome, inspectVars>>

ConnectGroup ==
    /\ phase = "connect"
    /\ todo # {}
    /\ \E G \in SUBSET todo :
         /\ IsNextGroup(G)
         /\ members' = G /\ playing' = G
         /\ todo' = todo \ G
         /\ tried' = [h \in Hosts |-> IF h \in G THEN tried[h] \cup {cred} ELSE tried[h]]
    /\ phase' = "connecting"
    /\ UNCHANGED <<cred, remaining, anySuccess, conn, stats, outcome, inspectVars>>

RecordKeepingHost(h, credential, status) ==
    /\ conn' = [conn EXCEPT ![h] = [credential |-> credential, status |-> status]]
    /\ stats' = Increment(stats, status, 1)
    /\ UNCHANGED remaining

(* ConnectResultStore.record_result *)
RecordResult(h, credential, status) ==
    /\ conn' = [conn EXCEPT ![h] = [credential |-> credential, status |-> status]]
    /\ stats' = Increment(stats, status, 1)
    /\ remaining' = remaining \ {h}

(* runner_on_ok, and runner_on_unreachable other than "permission denied" *)
ConnectResult(h, status) ==
    /\ phase = "connecting"
    /\ h \in playing
    /\ playing' = playing \ {h}
    /\ RecordResult(h, cred, status)
    /\ UNCHANGED <<phase, cred, anySuccess, tried, todo, members, outcome, inspectVars>>

(* "permission denied", runner_on_failed, an ok without rc 0: only a log     *)
(* message.                                                                *)
ConnectDenied(h) ==
    /\ phase = "connecting"
    /\ h \in playing
    /\ playing' = playing \ {h}
    /\ UNCHANGED <<phase, todo, members, stats, outcome, connectVars, inspectVars>>

(* The run has ended by itself. *)
ConnectGroupEnds ==
    /\ phase = "connecting"
    /\ playing = {}
    /\ anySuccess' = (anySuccess \/ stats.scanned >= 1)
    /\ phase' = "connect"
    /\ UNCHANGED <<cred, remaining, conn, tried, todo, members, playing, stats, outcome, inspectVars>>

ConnectGroupBreaksOff ==
    /\ phase = "connecting"
    /\ playing' = {}
    /\ anySuccess' = (anySuccess \/ stats.scanned >= 1)
    /\ IF stats.scanned > 0
       THEN phase' = "credentials" /\ UNCHANGED outcome
       ELSE Finish("failed")
    /\ UNCHANGED <<cred, remaining, conn, tried, todo, members, stats, inspectVars>>

(* A timeout, or another status: go on only if some host has answered. *)
ConnectGroupBreaks ==
    /\ phase = "connecting"
    /\ playing' = {}
    /\ anySuccess' = (anySuccess \/ stats.scanned >= 1)
    /\ IF stats.scanned > 0
       THEN phase' = "connect" /\ UNCHANGED outcome
       ELSE Finish("failed")
    /\ UNCHANGED <<cred, remaining, conn, tried, todo, members, stats, inspectVars>>

(* An exception of ansible_runner.run *)
ConnectRaises ==
    /\ phase = "connecting"
    /\ Finish("failed")
    /\ UNCHANGED <<todo, members, playing, stats, connectVars, inspectVars>>

(* The end of _connect: without any connection the task fails. *)
CredentialDone ==
    /\ phase = "connect"
    /\ todo = {}
    /\ IF anySuccess
       THEN phase' = "credentials" /\ UNCHANGED outcome
       ELSE Finish("failed")
    /\ UNCHANGED <<todo, members, playing, stats, connectVars, inspectVars>>

(* The hosts no credential has opened have failed. *)
ConnectDone ==
    /\ phase = "credentials"
    /\ cred = Credentials \/ remaining = {}
    /\ conn' = [h \in Hosts |-> IF h \in remaining
                                THEN [credential |-> NULL, status |-> "failed"]
                                ELSE conn[h]]
    /\ stats' = Increment(stats, "failed", Cardinality(remaining))
    /\ remaining' = {}
    /\ phase' = "inspect"
    /\ UNCHANGED <<cred, anySuccess, tried, todo, members, playing, outcome, inspectVars>>

-----------------------------------------------------------------------------
(* inspect *)

(* _obtain_discovery_data; a new task has no inspect results yet. *)
Connected == {h \in Hosts : conn[h] # NULL /\ conn[h].status = "success"}

InspectBeginsCounting ==
    /\ phase = "inspect"
    /\ IF Connected = {}
       THEN Finish("failed") /\ UNCHANGED todo
       ELSE todo' = Connected /\ phase' = "groups" /\ UNCHANGED outcome
    /\ UNCHANGED <<stats, members, playing, connectVars, inspectVars>>

InspectBegins ==
    /\ phase = "inspect"
    /\ IF Connected = {}
       THEN Finish("failed") /\ UNCHANGED <<stats, todo>>
       ELSE /\ stats' = [Zero EXCEPT !.count = Cardinality(Connected)]
            /\ todo' = Connected
            /\ phase' = "groups"
            /\ UNCHANGED outcome
    /\ UNCHANGED <<members, playing, connectVars, inspectVars>>

InspectGroup ==
    /\ phase = "groups"
    /\ todo # {}
    /\ \E G \in SUBSET todo :
         /\ IsNextGroup(G)
         /\ members' = G /\ playing' = G
         /\ todo' = todo \ G
    /\ facts' = [h \in Hosts |-> "none"]    \* a new InspectCallback
    /\ unreachable' = {}
    /\ phase' = "inspecting"
    /\ UNCHANGED <<results, groupFailed, stats, outcome, connectVars>>

(* task_on_ok with facts *)
FactArrives(h) ==
    /\ phase = "inspecting"
    /\ h \in playing
    /\ facts' = [facts EXCEPT ![h] = CASE @ = "none" -> "some"
                                       [] @ = "some" -> "identified"
                                       [] OTHER -> "done"]
    /\ playing' = IF facts'[h] = "done" THEN playing \ {h} ELSE playing
    /\ UNCHANGED <<phase, todo, members, unreachable, results, groupFailed, stats, outcome, connectVars>>

(* task_on_unreachable; Ansible gives the host up. *)
HostUnreachable(h) ==
    /\ phase = "inspecting"
    /\ h \in playing
    /\ unreachable' = unreachable \cup {h}
    /\ playing' = playing \ {h}
    /\ UNCHANGED <<phase, todo, members, facts, results, groupFailed, stats, outcome, connectVars>>

(* task_on_failed of a task whose errors the playbook does not ignore *)
HostFails(h) ==
    /\ phase = "inspecting"
    /\ h \in playing
    /\ playing' = playing \ {h}
    /\ UNCHANGED <<phase, todo, members, stats, outcome, connectVars, inspectVars>>

(* InspectCallback.iter_results *)
HostStatus(h) ==
    IF h \in unreachable THEN "unreachable"
    ELSE IF facts[h] = "done" THEN "success" ELSE "failed"

Reported == {h \in members : facts[h] # "none"}

(* One more InspectResult row of a host. *)
WithRow(rows, status, identified) ==
    rows \cup {[id |-> Cardinality(rows) + 1, status |-> status, identified |-> identified]}

(* _persist_results for every host with facts *)
PersistResults ==
    /\ results' = [h \in Hosts |->
         IF h \in Reported
         THEN WithRow(results[h], HostStatus(h), facts[h] \in {"identified", "done"})
         ELSE results[h]]
    /\ stats' = [c \in DOMAIN stats |->
         stats[c] + Cardinality({h \in Reported : Counter(HostStatus(h)) = c})]

InspectGroupEnds ==
    /\ phase = "inspecting"
    /\ \/ playing = {} /\ UNCHANGED groupFailed
       \/ groupFailed' = TRUE     \* a timeout or an unknown status
    /\ PersistResults
    /\ playing' = {}
    /\ phase' = "groups"
    /\ UNCHANGED <<todo, members, facts, unreachable, outcome, connectVars>>

(* An exception of ansible_runner.run: the group is skipped. *)
InspectRaises ==
    /\ phase = "inspecting"
    /\ playing' = {}
    /\ phase' = "groups"
    /\ UNCHANGED <<todo, members, stats, outcome, connectVars, inspectVars>>

(* ScanTask.cleanup_facts: results without the identifying fact go. *)
CleanedUp == [h \in Hosts |-> {r \in results[h] : r.identified}]

WithUnreachableAgain(rows) ==
    [h \in Hosts |-> IF h \in Connected /\ rows[h] = {}
                     THEN WithRow(results[h], "unreachable", FALSE)
                     ELSE rows[h]]

(* _add_unreachable_hosts *)
WithUnreachable(rows) ==
    [h \in Hosts |-> IF h \in Connected /\ rows[h] = {}
                     THEN WithRow(rows[h], "unreachable", FALSE)
                     ELSE rows[h]]

(* Without a host that has facts the task fails; with a failed host it       *)
(* completes, whatever the runs have said.                                  *)
InspectDone ==
    /\ phase = "groups"
    /\ todo = {}
    /\ results' = WithUnreachable(CleanedUp)
    /\ Finish(IF \A h \in Hosts : CleanedUp[h] = {} THEN "failed"
              ELSE IF stats.failed > 0 \/ ~groupFailed THEN "completed"
              ELSE "failed")
    /\ UNCHANGED <<todo, members, playing, stats, facts, unreachable, groupFailed, connectVars>>

-----------------------------------------------------------------------------
ConnectStep ==
    \/ Begin \/ NextCredential \/ ConnectGroup
    \/ \E h \in Hosts : \/ \E s \in {"success", "unreachable"} : ConnectResult(h, s)
                        \/ ConnectDenied(h)
    \/ ConnectGroupEnds \/ ConnectGroupBreaks \/ ConnectRaises
    \/ CredentialDone \/ ConnectDone

InspectStep ==
    \/ InspectBegins \/ InspectGroup
    \/ \E h \in Hosts : FactArrives(h) \/ HostUnreachable(h) \/ HostFails(h)
    \/ InspectGroupEnds \/ InspectRaises \/ InspectDone

Next == ConnectStep \/ InspectStep

Spec == Init /\ [][Next]_vars

(* The code runs on, and an Ansible run ends: it has a timeout. *)
FairSpec == Spec /\ WF_vars(Next)

-----------------------------------------------------------------------------

WithConn(status) == {h \in Hosts : conn[h] # NULL /\ conn[h].status = status}

(* While credentials are tried, every counter is the number of hosts with    *)
(* that result, the hosts without one are the remaining ones, and once the   *)
(* inspection begins there are none: no host is counted twice or forgotten,  *)
(* although several runs report on it.                                      *)
ConnectAccounted ==
    phase \in {"credentials", "connect", "connecting", "inspect"} =>
        /\ \A s \in ConnStatus : stats[Counter(s)] = Cardinality(WithConn(s))
        /\ remaining = {h \in Hosts : conn[h] = NULL}
        /\ phase = "inspect" => remaining = {}

(* "We haven't connected to these hosts with any credentials, so they have   *)
(* failed" (run_with_result_store): the hosts recorded as failed without a   *)
(* credential were tried with every credential, also when a run timed out.  *)
FailedWithAll ==
    \A h \in Hosts : conn[h] # NULL /\ conn[h].credential = NULL =>
        tried[h] = 1..Credentials

(* While hosts are inspected, and after the cleanup of the results, the      *)
(* number of scanned systems is the number of hosts with a successful        *)
(* result, and the counters do not exceed the number of systems.            *)
ScannedAccounted ==
    phase \in {"groups", "inspecting"} \/ (\E h \in Hosts : results[h] # {}) =>
        /\ stats.scanned =
              Cardinality({h \in Hosts : \E r \in results[h] : r.status = "success"})
        /\ stats.scanned + stats.failed + stats.unreachable <= stats.count

(* When the inspection has ended every host that was connected has exactly   *)
(* one result, and no other host has any: neither a run that raised, nor     *)
(* the cleanup, nor the hosts added as unreachable lose or double one.      *)
OneResultPerHost ==
    phase = "done" /\ (\E h \in Hosts : results[h] # {}) =>
        \A h \in Hosts : Cardinality(results[h]) = IF h \in Connected THEN 1 ELSE 0

(* The task ends: every credential and every group is tried once. *)
Terminates == <>(phase = "done")

(* "The credentials to try with these hosts." (docs/swagger.yml:2180): the   *)
(* task gives up for lack of a connection only when it has tried them all on *)
(* every host that may still accept one.                                    *)
AllCredentialsTried ==
    [][phase = "connect" /\ phase' = "done" =>
           \A h \in remaining : tried[h] = 1..Credentials]_vars
=============================================================================
