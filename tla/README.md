# Formal models of quipucords

TLA+ specifications of the parts of quipucords whose correctness depends on
order: what the API server, the Celery workers and the database do to the same
rows at the same time, what a scanner makes of servers that change and runs that
fail half way, how the fingerprint engine merges what several sources say of one
system, and what a sequence of REST requests can make of a row.  TLC checks them
on small instances; TLAPS proves nearly all of their safety properties for every
number of sources, hosts, systems and requests.  Paths below are relative to
`quipucords/` in the repository.

## The system and its parts

| Part | Source | Modules |
| --- | --- | --- |
| scan job lifecycle | `api/scanjob`, `api/scantask`, `api/signal` | `ScanJob`, `ScanJobLifecycle` |
| orchestration with Celery | `scanner/job.py`, `manager.py`, `tasks.py` | `ScanJob` |
| publishing reports | `api/publish` | `Publish` |
| lightspeed authorization | `api/auth/lightspeed`, `api/secure_token` | `LightspeedAuth` |
| network scanner | `scanner/network` | `NetworkScan` |
| satellite scanner | `scanner/satellite` | `SatelliteScan`, `SourceScan` |
| vcenter scanner | `scanner/vcenter` | `VcenterScan`, `SourceScan` |
| ansible, openshift, rhacs scanners | `scanner/ansible`, `openshift`, `rhacs` | `AnsibleScan`, `OpenShiftScan`, `RhacsScan`, `SourceScan` |
| choice of the runner | `scanner/job.py`, `scanner/tasks.py` | `SourceScans` |
| fingerprint engine, products | `fingerprinter` | `Fingerprint`, `Products` |
| credentials, sources, scans | `api/credential`, `api/source`, `api/scan` | `CredentialForms`, `SourceForms`, `ScanOptions` |
| HashiCorp Vault definition | `api/auth/hashicorp_vault`, `api/secure_token` | `HashiCorpVault` |
| deployments report, cached files | `api/deployments_report` | `ReportCache` |
| report row, details CSV, aggregate | `api/report`, `api/details_report`, `api/aggregate_report` | `ReportRow` |
| the REST rows together | `api` | `RestApi`, `RestValues` |
| insights report, fact parsers, users | `api/insights_report`, `scanner/network/processing`, `api/user` | not modelled, see the end |

An API request creates a `ScanJob` row, queues it (one `ScanTask` row per source
and one for the fingerprint), marks it running and sends a Celery canvas: a group
of `celery_run_task_runner`, then `fingerprint`, then `finalize_scan`.  Only then
does it cache the id of `finalize_scan` in redis.  A cancel request moves the
rows to canceled and revokes that id.  Workers ask Celery, not the database,
whether the job is canceled.  What a network inspect task does inside its runner
is `NetworkScan`; what any other one does is `SourceScans`, which also has the
runner of the fingerprint task.  While that task fills the rows of the report,
requests already read and save them: `ReportRow` and `ReportCache`.  Once a job
has its report, a user who has logged in with Lightspeed can publish it:
`Publish` extends `LightspeedAuth`, whose token row its tasks read.

The modules that are run are `ScanJob`, `LightspeedAuth`, `Publish`,
`NetworkScan`, `SourceScans` and `RestApi`.  Each has a module `MC...` that names
its model values, and the configurations below.  The theorems are in eight modules:

| Module | About | Extends |
| --- | --- | --- |
| `ScanJob_proofs` | the scan job | `ScanJob` |
| `Publish_proofs` | the Lightspeed login and publishing | `Publish` |
| `NetworkScan_proofs` | the network scanner | `NetworkScan` |
| `Selection_proofs` | lemmas on sequences: pages, lists, counts | `Selection` |
| `SourceRunners_proofs` | the invariants of the runners of the API sources | the runners, `Selection_proofs` |
| `SourceScans_proofs` | the inspect and fingerprint tasks | `SourceScans`, `SourceRunners_proofs` |
| `Stores_proofs` | credentials, Vault definition, cached files, aggregate | their four modules |
| `RestApi_proofs` | sources, scan options, all REST rows together | `RestApi`, `Stores_proofs` |

In each module the operators just before an action or
helper and not used elsewhere (`ClearedTokenOnly`, `RecordKeepingHost`, ...) are
deliberately wrong variants of it; substituting one breaks the property it is
listed with in `PROJECT.json`.

## ScanJob

State: `job` and `task` are the database rows; `mem[p]` is the `ScanJob` instance
of process `p` and `memTask[t]` the `ScanTask` instance of a worker; `snap[p]` is
what `status_cancel` has read; `canvas`, `cachedId`, `revoking` and `revoked` are
Celery's and redis' part.  `pc` says where each process is.

The point of the model is Django's `save()`: it writes every column of an
instance that may be older than the row.  A step is therefore one load, one save
or one committed transaction, and status changes are validated against `mem[p]`,
as `validate_status_change` does, and not against `job`.  Reads inside a
transaction see what is committed when they run (READ COMMITTED), so
`status_cancel` is two steps: reading the tasks and committing.

| Action | Code |
| --- | --- |
| `Create`, `Queue`, `Start`, `Dispatch`, `CacheId` | `jobs`, `handle_scan`, `ScanJob.queue`, `status_start`, `CeleryBasedScanJobRunner.run`, `put` |
| `CancelRequest`, `SelectTasks`, `KillCommit`, `Revoke`, `CancelAgainCommit` | the `cancel` view, `kill`, `status_cancel` (called twice) |
| `Load`, `NotCanceled`, `FoundCanceled`, `NoAnswer`, `Discard` | the start of each Celery task, `scan_job_is_canceled` |
| `StartTask` ... `RunnerRaises`, `FailJobAndRaise`, `SetTaskFailure` | `run_task_runner`, the `ScanTask` methods, the decorators |
| `CreateReport`, `AssignReport`, `FailJob` | `_fingerprint`, `create_report_for_scan_job` |
| `ReadTasks`, `CompleteJob`, `ReloadJob` | `_finalize_scan` and its decorator |
| `DeliverRevoke`, `Discard`, `Deliverable`, `Crash` | Celery and the operating system, from how the code uses them |

What a runner does is abstracted to the two things the job sees of it: the
changes it makes to `systems_scanned`, and how it ends.

Assumed of Celery: a message is acknowledged when it is delivered, so a task
whose worker dies is lost and the rest of its chord never runs; an empty group
lets the rest of the canvas run at once; a revoke is a broadcast that arrives
later; a task whose id is revoked when it is delivered is discarded; the list of
revoked tasks is not lost (a worker restarting without it is not modelled).

### Runs

| Run | Instance | Shows |
| --- | --- | --- |
| `scan_safety` | 2 sources, 1 cancel request, crashes, unanswered `revoked()` | a completed job whose fingerprint completed has its report, and no open task; `FinishedOnlyCanceled`; `AgreementIsStable` |
| `scan_lifecycle` | 2 sources, unanswered `revoked()`, fair | the row implements `ScanJobLifecycle`: its safety part (`FollowsLifecycle`), and that every job ends (`EndsLifecycle`) |
| `scan_cancel_lost` | 1 source, 1 cancel request, fair | violation: a canceled job runs for ever |

`MaxScanned = 1` is enough because the code only asks whether any system was
scanned.  Two sources suffice to have one fail while the other goes on.  Deadlock
is not checked: a job ends, and with crashes it may end anywhere.
`CompletedHasReport` speaks of jobs whose fingerprint task is completed: when a
`revoked()` query goes unanswered the fingerprint task fails before it creates
the report, and `finalize_scan` still completes the job on the strength of an
inspect task (`FailReport` of `ScanJobLifecycle`).

Fairness (`FairSpec`): every process that has a step takes one eventually, a
revoke arrives, and a runner that keeps updating its statistics completes in the
end (the strong fairness of `CompleteTask`); requests to cancel are never forced.

### Findings

* `scan_cancel_lost`: `_fingerprint` saves an instance loaded before a cancel
  (`scanner/tasks.py:219`) over the canceled row, which becomes running again, and
  the revoke discards `finalize_scan`: the job stays running for ever.  In the same
  way `finalize_scan` validates the instance it loaded and overwrites a cancel that
  committed later: the row goes from canceled to completed, although the docstring
  of `status_complete` says "Change status from RUNNING to COMPLETE.".

### Proofs (`ScanJob_proofs`)

For every finite set of sources, every set of cancel requests and every value of
the flags, from the assumptions in `ScanJob` (the processes are distinct, `NULL`
is no row):

* `TypeCorrect`: `Spec => []TypeOK`.
* `AgreementStable`: `Spec => AgreementIsStable`.
* `FinishedStays`: `Spec => FinishedOnlyCanceled`.
* `TasksSettled` and `ReportKept`: `Spec => []CompletedTasksSettled`,
  `Spec => []CompletedHasReport`.
* `LifecycleFollowed`: if nobody cancels (`Cancelers = {}`), the safety part of the
  refinement, `Spec => FollowsLifecycle`.

`TypeOK` is not inductive: a process could save an instance it does not have.
`Orderly` adds that a process has an instance exactly at the labels where it can
still save one, that nobody acts before the row exists, and that workers run only
what was sent.  `FinishedOnlyCanceled` needs `Chord` as well: fingerprint runs
behind the inspect tasks and `finalize_scan` behind all, so whatever those two
hold of a failed job is already failed, and nobody else is left to change a
completed one but a cancel request.  `TasksSettled` and `ReportKept` follow what
each worker has loaded and stored through the chord: `Settling` says in which two
cases a task returns with its row still open, and why `finalize_scan` completes
nothing then; `Reporting` that from its assignment on the row has the report or
was overwritten by a cancel.  These invariants were checked with TLC on the
instances of the safety runs before they were proved.  For the refinement the same
invariant shows, action by action, that each step of a process is a step of the
lifecycle or leaves its three variables alone.

## LightspeedAuth

State: `row` is the user's `SecureToken`; `pc`, `mem` are the labels and instances
of the API requests, `wpc`, `wmem`, `elapsed` those of the waiting Celery tasks;
`approved` and `expired` belong to SSO and the clock.  A token and a device code
are named by the login they come from.  `killed` is history: who died half way.

Again every save writes a whole instance.  It updates the row with its id,
inserts it when the user has none (`save()` after a delete), and is refused by
`full_clean` when the user has another row.

| Action | Code (`api/auth/lightspeed/auth.py`) |
| --- | --- |
| `LoginFails`, `GetOrCreate`, `Clear`, `MarkPending`, `Delay` | `lightspeed_login_request` |
| `FindToDelete`, `Delete` | `lightspeed_logout_request` |
| `CheckStatus`, `MarkExpired` | `user_lightspeed_auth_status` |
| `WaiterLoads` ... `PollRaises` | `lightspeed_wait_for_authorization` |
| `Approve`, `Expire`, `RequestKilled`, `WaiterKilled` | SSO, time and restarts (external) |

| Run | Instance | Shows |
| --- | --- | --- |
| `lightspeed_auth` | 2 logins, 1 logout, 1 status request, restarts, fair | a valid row has an authorized token (`ValidIsGranted`); it is lost only to a logout, an expiry or another login under way (`ValidKept`); a pending login is resolved (`PendingResolves`) |
| `lightspeed_logout` | 1 login, 1 logout, 1 status request | violation: the waiting task re-inserts the row after the logout |

Two logins are what it takes for one to overwrite the other; `ExpiresIn = 1` lets
a task sleep, poll again and time out.  Fairness: a request that has begun goes
on and Celery runs its tasks; nobody must log in, authorize or log out.
`PendingResolves` excepts behaviours in which a process died, because the code
has no recovery for them.

Proofs (`Publish_proofs`), for any sets of requests, any interval and any
expiry, from `AuthAssumption` (the kinds of request are disjoint, the interval is
positive, `NULL` is no row): `AuthTypeCorrect` (`AuthSpec => []AuthTypeOK`),
`AuthValidIsGranted` (`AuthSpec => []ValidIsGranted`) and `AuthValidKept`
(`AuthSpec => ValidKept`).  `ValidIsGranted` speaks of
the row alone, and any process may save an older instance over it; the inductive
invariant `Sound` therefore says the same of every instance in memory
(`AllGranted`), and that a status request about to write "expired" holds an
instance that was valid (`ToExpire`).  `SavedByRequest` and `SavedByWaiter` are
the two lemmas about saving; each action then only shows that what it saves is
sound.  `ValidKept` needs `Finished`: the task that made a row valid is over, and
so is the request that started it, so neither of them overwrites it.

## Publish

State: `created` are the `PublishRequest` rows of one report in order, `status`
their statuses; `ppc` and `tpc` the labels of the POST requests and their tasks;
`accepted` what the ingress service has taken; `lost` (history) whose process was
killed.  A POST, its row and its task share a name.  All actions of
`LightspeedAuth` interleave with those of this module.

| Action | Code (`api/publish`) |
| --- | --- |
| `CheckReason`, `CheckLatest`, `CreateRequest`, `DelayPublish` | `_create_publish`, `request_publish` |
| `GetAuthToken`, `PostAccepted`, `PostAnswerLost`, `PostRefused` | `_get_auth_token`, `_post_to_ingress` |
| `Refresh`, `SaveResult` | `_save_result` |
| `ReportReady`, `PostKilled`, `TaskKilled` | fingerprinting and restarts (external) |

| Run | Instance | Shows |
| --- | --- | --- |
| `publish` | 2 POSTs, 1 login, 1 logout, 1 status request, restarts, fair | "sent" means taken by the service with an authorized token; a pending request is settled, unless its process was killed |
| `publish_superseded` | 2 POSTs | violation: the task of the older request saves its result although a newer one has taken over |

Two POSTs are enough for both to pass the check for a pending request.  Fairness
is that of `LightspeedAuth`, for the POSTs and their tasks.

Proofs (`Publish_proofs`), for any sets of POSTs, logins, logouts and status
requests, from `AuthAssumption` and `PublishAssumption` (`NULL` is no status):
`PublishTypeCorrect`, `PublishSentMeansAccepted` and `PublishPendingIsOwned` (a
pending request has its POST or its task to settle it, or one of them was
killed).  The inductive invariant is `Sound` of the authorization together
with `Honest` (a result of "sent" that is not saved yet was accepted too, and a
token in memory was authorized) and `Begun` (what a POST and its task have at
each label).  `StepOfOne` shows that a step of one request leaves the others
alone; `ApprovedStays` that SSO never takes an authorization back.

## NetworkScan

State: `remaining`, `conn` and `stats` are the `ConnectResultStore`, the
`SystemConnectionResult` rows and the counters of the `ScanTask`; `members` and
`playing` the hosts of the current Ansible run and those it is not done with;
`facts` and `unreachable` the `InspectCallback`; `results` the `InspectResult`
rows.  `tried` is history: the credentials a host was tried with.  Of a host's
facts only the steps the code tells apart remain: none, some, the identifying
one, the last.  The task is sequential; what is nondeterministic is Ansible: the
grouping (hosts come from a set), the order of events, and a run that times out
or raises at any point.

| Action | Code (`scanner/network`) |
| --- | --- |
| `Begin`, `NextCredential`, `ConnectDone` | `ConnectResultStore`, `run_with_result_store` |
| `ConnectGroup`, `ConnectGroupEnds`, `ConnectGroupBreaks`, `ConnectRaises`, `CredentialDone` | `_connect` |
| `ConnectResult`, `ConnectDenied` | `ConnectResultCallback` |
| `InspectBegins`, `InspectDone` | `inspect`, `cleanup_facts`, `_add_unreachable_hosts` |
| `InspectGroup`, `InspectGroupEnds`, `InspectRaises` | `_inspect_scan`, `_persist_results` |
| `FactArrives`, `HostUnreachable`, `HostFails` | `InspectCallback` |

| Run | Instance | Shows |
| --- | --- | --- |
| `network_scan` | 4 hosts, 1 of them excluded, groups of 2, 2 credentials, fair | counters and rows agree in both phases; hosts that failed without a credential were tried with all; every connected host ends with one result; the task ends |
| `network_credentials` | the same | violation: when the first credential opens no host the others are not tried |

Three hosts in groups of two give a full and a partial group; two credentials a
pass over what the first left.  Fairness is that the worker goes on: every run
has a timeout.  Left out: "canceled" (nothing sets `stopped`) and the file of
skipped tasks, which is behind a feature flag.

Proofs (`NetworkScan_proofs`), for any finite set of hosts, any number of
credentials and any group size, from `NetworkAssumption`:
`ConnectAlwaysAccounted`, `FailedOnlyWithAll`, `ScannedAlwaysAccounted` and
`AlwaysOneResult`, one for each safety property of `network_scan`.  The counters
are sums of cardinalities, so that a host that gets a result must have had none;
the invariant `InTurn` says which credentials a remaining host has been tried with
at each point of the loop (all before the current one, and the current one too
unless its group is still to come) and that the hosts of a run are still
remaining.  For the inspection `InspectInv` says that hosts of groups to come have
no row and the others one at most, and that the counters are the numbers of rows
by status; `ThreeParts` adds up three disjoint sets inside the connected hosts.

## SourceScans

`SourceScan` has what the inspect tasks of all API sources share: the counters of
the `ScanTask` (`stats`), the rows of connections and results (`conns`,
`results`), how a runner ends (`Finish`, `Raise`), and the remote server, whose
`listing` users may change between two requests (`ServerAdds`, `ServerRemoves`;
`added` and `removed` are history).  Each runner extends it, and `SourceScans`
chooses among them by `source_type`, as `get_task_runner_class` does.

| Module | What it models | Actions and code |
| --- | --- | --- |
| `SatelliteScan` | counting, paging, a group of host tasks in the pool the inspect task itself occupies | `SatInitialize`, `SatHostCount`, `SatHostsPage`, `SatListPage`, `SatHostTaskStarts`, `SatHostTaskEnds`, `SatGroupDone`, `SatProcess`, `SatDone`, `SatRequestFails`, and other inspect tasks in the pool, `OtherTaskWaits`, `OtherTaskGoesOn`: `six.py`, `api.py`, `runner.py`, `utils.py` |
| `VcenterScan` | two connections, the paged inventory, placing each machine | `VcConnect`, `VcInspect`, `VcRetrieve`, `VcMachine`, `VcDone` and the failures: `inspect.py` |
| `AnsibleScan` | pages requested by a pool of threads, taken as they complete; what is raised between two of them | `AapConnect`, `AapInstanceDetails`, `AapHosts`, `AapPage`, `AapPageFails`, `AapJobs`, `AapSave`, `AapRaises`: `inspect.py`, `api.py` |
| `OpenShiftScan` | nodes, then the cluster with facts that may fail one by one | `OcpConnect`, `OcpCluster`, `OcpNodes`, `OcpSaveNode`, `OcpExtraFact`, `OcpSaveCluster` and the failures: `inspect.py`, `api.py` |
| `RhacsScan` | a connection check and two metrics | `AcsConnect`, `AcsMetric`, `AcsSave`: `inspect.py` |
| `Fingerprint`, `Products` | raw facts to fingerprints, indexing, matching, merging, storing, counting | `FpProcess` ... `FpInsertAggregate`, `FpAggregate`, `FpFails`: `fingerprinter/runner.py`, `api/aggregate_report/model.py`; a request for the aggregate, `AggregateRequested`; `DetectEap` and the others: `jboss_*.py` |

In `Fingerprint` a report is a sequence of sources with the raw facts of one
system each.  A fingerprint keeps for every fact its value, whether its source
was scanned with sudo, and the source's name.  The facts that remain are those
that identify a system (subscription manager id, BIOS and virtual machine UUID,
MAC addresses), those with a priority rule of their own, and those that drive a
count.  Merging, de-duplication and matching are pure operators with the names of
the code's methods; the properties compare their outcome with reference
definitions over the raw facts (`Linked`, `Component`, `Erased`).  In `Products` a
raw fact is what it speaks for: a presence and kinds of versions.

The aggregate is built in two steps, as in `build_aggregate_report`: a row of zeros
is inserted in place of any earlier one, then filled and saved.  A GET that comes
while fingerprints are being stored may have built one before, and left it empty
or counting what there was (`AggregateRequested`); whatever fails, rows already
stored stay.  How several builders meet on that row is `ReportRow`.

### The runs `source_scans` and `vcenter_priority`

Three systems; two organizations; pages of 2 (satellite) and 1 (ansible); three
Celery workers, one of which the inspect task holds and the others of which other
inspect tasks may come to hold; one datacenter, cluster and
host; every report of up to three sources out of a catalogue of eleven, and
single sources with every combination of up to three EAP facts.  Three systems in
pages of two give a full and a partial page and let a removal shift a system to a
page already read.

| Property | Shows |
| --- | --- |
| `CountersMatchRows` | at every step the counters of a satellite or openshift task are the numbers of systems with each result |
| `CompletedIsWhole` | a completed satellite or openshift task has a result for every system it counted |
| `OneResultPerSystem`, `NoSystemMissed` | shifting pages never double a system; one is missed only if something was removed |
| `HostsFactWhole` | pages of parallel threads, in any order of arrival, give every host once |
| `MachinesPlaced` | a machine has its own host, cluster and datacenter in whatever order the inventory came |
| `FailedStaysFailed` | a task failed by a host task from another worker is not completed |
| `MergedByIdentifiers` | systems are merged only along shared identifiers |
| `LostOrDoubledOnlyByMacs` | a system is lost, or counted twice, only in the two cases with MAC addresses the comment names |
| `MergeLosesNothing` | facts, products and entitlements survive a merge, which never breaks off |
| `StrongestEvidenceWins` | the order of EAP facts does not matter |
| `DeploymentSettled` | task and deployments report agree at the end, and the aggregate of a completed one counts each stored fingerprint, whatever failed and whenever somebody asked for it |
| `ScanEnds` (liveness) | every task ends, unless every worker comes to be kept by an inspect task that waits |
| `VcenterTrusted` (`vcenter_priority`) | violation: of two merged values vcenter's does not win |

Fairness is that of the runner: every request is answered or times out, and a
free worker takes the next host task.  Nothing is assumed of the server's users,
nor of other tasks.  The inspect task of a satellite source blocks its worker until
its host tasks have run in the same pool.  Where every worker is kept by such a task
none of them goes on: `Starved`, the deadlock that a comment in
`scanner/satellite/api.py` warns of.  With one worker it is certain, with more it
takes as many sources scanned at once; `ScanEnds` says that nothing else keeps a
task from ending.

Finding (`vcenter_priority`): `_process_sources` names the number of CPUs and the
infrastructure type as facts in which "we trust vcenter more than
network/satellite" (`fingerprinter/runner.py:446`), but gives them as a tuple
(line 437) where `_merge_fingerprint` tests for a set (line 823), so the values of
the other source stay.

### Proofs (`Selection_proofs`, `SourceRunners_proofs`, `SourceScans_proofs`)

For any finite set of systems, any changes of the server, any page sizes, number
of workers, organizations, inventory and reports, from `SystemsAssumption`,
`SatelliteAssumption` (each host has an organization that is listed),
`AnsibleAssumption`, `InventoryAssumption` (a machine's host, cluster and
datacenter are in the inventory) and `NoValueIsNoReport`:

* `CountersFollowRows`, `CompletedTaskIsWhole`, `AlwaysOneResultPerSystem`,
  `FailureIsFinal`: the invariant `Inv` follows each runner.  The results are an
  initial part of what was listed (`SatOK`, `VcOK`, `OcpOK`), the counters are
  those of the rows (`Counted`), and a task fails before its runner ends only if
  the error is among the answers the runner still has to go through
  (`FailedEarly`).
* `NobodyMissed`, `HostsFactKept`: `Reading` says of the pages read so far that
  they have every system listed up to there, as long as nothing was removed.  The
  arithmetic of pages is in `Page`, `PageRead` and `Pages`.  The conditions of
  the two properties stay: nothing removed for the one, nothing changed for the
  other.
* `MachinesKeepTheirPlace`: the inventory is complete before the first machine is
  placed (`Placing`).
* `DeploymentSettles`: what is settled at each point of the fingerprint task
  (`Settling`); `KindsAddUp` shows that every stored fingerprint is counted under
  one kind.
* `MergeTellsBoth`: one call of `_merge_fingerprint` loses no fact, entitlement or
  product.  Its condition, that the second fingerprint lists no product the first
  does not list, is met by the merges the engine makes: network and satellite
  fingerprints list the same products, and vcenter's, which list none, come
  second; that a whole series of merges loses nothing is
  `MergeLosesNothing`, which is model-checked.

`Selection_proofs` has what these need of sequences: pages are slices
(`Slice`, `Joining`), users insert and remove (`Inserting`, `Removing`), rows are
counted by status (`CountOne`, `CountBoth`).  Selecting from a sequence is written
in `Selection` without recursion, by the places of what is selected, so that it can
be reasoned about without induction.

## RestApi

`RestApi` composes six modules, one for each kind of row that API requests write.
No step writes two of them, so that a behaviour is about one, which `resource`
names.  `RestValues` has what they share (`None`, dictionaries).

| Module | State | Actions and code |
| --- | --- | --- |
| `CredentialForms` | `credential`, the copy an update in flight holds, whether a Vault is configured, the API version of the last write | `CreateCredential`, `UpdateCredential`, `FetchCredential`, `FinishUpdate`, `DestroyCredential`, `ConfigureVault`: both serializers, `Credential.save` |
| `SourceForms` | `source` | `CreateSourceRow`, `UpdateSourceRow`: `SourceSerializerBase` and its v1 and v2 subclasses |
| `ScanOptions` | the option columns of `scan` | `CreateScanOptions`, `FullUpdateScanOptions`, `PartialUpdateScanOptions`: `ScanSerializer`, the getter and setter of `Scan.options`, `get_extra_vars` |
| `HashiCorpVault` | `token`, what each request holds between its read, its login and its write, a scanner reading a secret | `BeginPost`, `BeginPut` (PUT and PATCH), `VaultLogin`, `SaveCreated`, `SaveUpdated`, `DeleteVault`, `ReadSecret`, `SecretRead` |
| `ReportCache` | the `DeploymentsReport` row, the fingerprint task's copy, what each worker does with which copy, queued messages | `Runner` (the fingerprint task), `GetDeployments`, `Command`, `TakeMessage`, `Goes`, `FilesLost` |
| `ReportRow` | the `Report` and `AggregateReport` rows, the fingerprint task, a details request, the builders | `CreateReportRow`, `SetGroups`, `LinkDeployments`, `PersistFingerprint`, `GetDetails`, `RenderDetails`, `SaveDetailsCsv`, and for every builder `ReadReport` ... `RefreshAggregate` |

A request body is any small function from keys to values of the kinds the
serializer tells apart: a host is the form of its address, a credential of a
source its type, a secret is absent, blank, text, text that contains the marker
`$ANSIBLE_VAULT` of ciphertexts, or ciphertext.

### The run `rest_api`

| Property | Shows |
| --- | --- |
| `SecretsEncryptedOnce` | a secret is encrypted exactly once, however often the row is fetched and saved, but for a text with the marker in it, which `is_encrypted` takes for ciphertext |
| `OneMethod` | a credential has one authentication method at most (see below for the Vault path) |
| `SourceFitsType` | partial updates never leave an HTTP source with hosts, credentials or options of another kind |
| `GetThenPutIsNeutral`, `PatchKeepsOthers` | sending back what GET shows changes nothing; a PATCH changes only the products it names |
| `StoredConfigVerified`, `NewDefinitionNotOverwritten` | the Vault definition is, as a whole, one that a login succeeded with before it was saved; a successor is not overwritten |
| `CompleteHasFingerprints`, `FingerprintsComeBack` (liveness) | a complete report has a path for its fingerprints, and lost files are written again |
| `SettledAggregateCounts` | the aggregate left after the fingerprint task counts every fingerprint |
| `NeverDoubleCounted` | however often builders meet and start again, the stored aggregate counts no fingerprint twice |

Bounds: a credential request gives two fields at most (`MaxGiven`), each with the
values of `GivenValues`: those a rule for that field tells apart, and the marked text
for two of the secrets, `auth_token` and (it alone) `become_password`, since all are
encrypted by one loop; a source
request three keys (`MaxKeys`), a scan request two entries (`MaxEntries`): rules
relate two fields at a time, and longer histories come from several requests.
Two requests, workers and readers are what it takes to overlap; the files are lost
twice (`MaxWipes`), once while somebody repairs the first loss; two aggregate
rows (`MaxAggregates`) let a builder find, delete and replace another's.
`MaxQueued` bounds waiting messages of a kind, `MaxTokenId` new definitions.
Fairness is only assumed of the workers: one that has begun goes on, and a message
that waits is taken although requests keep coming (strong fairness, since a worker
may be busy again and again).  Deadlock is not checked: a bounded history ends.

### Proofs (`Stores_proofs`, `RestApi_proofs`)

For any sets of requests, readers and workers and any bounds.  Each theorem but the
last is about the specification of its own component (`CredentialSpec`,
`SourceSpec`, `ScanOptionsSpec`, `VaultSpec`, `CacheSpec`, `ReportSpec`), whose
next-state relation `RestApi` uses unchanged.

* Credentials, from `NoneIsNoText`: `SecretsStayEncrypted`, `AlwaysOneMethod`.  The
  row alone is not inductive: an update saves the copy it fetched, so the
  invariant `CredentialSafe` says the same of that copy, and that a row has only
  fields its type uses.
* Sources, from `ListsAreSequences`: `RowsFitTheirType`.
* Scan options, from `NoneIsNoDict`: `ReadingBackIsNeutral`, `PatchingKeepsOthers`;
  the invariant `ScanSafe` is the form of the three columns.
* Vault definition, from `VaultAssumption` (`None` is no row): `StoredIsVerified`,
  `NewDefinitionIsKept`.  A row has a history field, `checked`: the fields of the
  login that its request made; a save writes both.  The invariant types every
  request in progress: what it is about to save is what its login was made with.
* Cached files, from `CacheAssumption`: `CompleteKeepsFingerprints`.  The row alone
  is not inductive, because anyone may save an older copy over it; the invariant
  says the same of every copy in memory (`SoundRows`), and that nobody works with a
  row before there is one (`RowFirst`).
* Aggregate, from `ReportAssumption`: `AggregateNeverDoubled`, `AggregateSettles`.
  `CountedOnce` extends the first to the objects of builders that are not saved
  yet: one that is about to count has counted nothing.  The central part of the
  second is `Undisturbed`: unless the report is saved again, the row the
  fingerprint task has inserted stays, because it is as new as the report, so that
  no request finds it outdated, and no request knows its primary key; `Given` says
  that keys and dates have been given out.
* `RowsStaySound`: the specification `Spec` of `RestApi`, which the run checks, has
  all of these properties, from the assumptions above, because each resource in it
  behaves as its own module says (`RestParts`).

## What is only model-checked

* Liveness (`EndsLifecycle`, `PendingResolves`, `PendingSettles`, `Terminates`,
  `ScanEnds`, `FingerprintsComeBack`): fairness is beyond the prover.
* `FollowsLifecycle` is proved for jobs that nobody cancels, which is also what its
  run checks.
* `MergedByIdentifiers`, `LostOrDoubledOnlyByMacs`, `StrongestEvidenceWins` and
  `MergeLosesNothing`: they are about folds over all sources, identifiers or facts
  of a report, which need induction over data.  A single merge is proved
  (`MergeTellsBoth`).

Type correctness of `ScanJob`, `LightspeedAuth` and `Publish` is a theorem, and is
not repeated in the runs; neither is `PendingIsOwned`.

## Noticed while modelling

There is no run of its own for the following; each can be read off the modules.

* For vcenter, ansible and rhacs `systems_scanned` counts a system when it was
  connected to and again when it was inspected, while `docs/swagger.yml:2058` calls
  it "The total number of systems that have been scanned in the task."
  (`CountersMatchRows` leaves these types out).
* `versions_eap_presence` never finds a release, since no entry of
  `EAP_CLASSIFICATIONS` starts with "EAP".
* A source scanned with sudo that found nothing erases another's value (`Erased`).
* A v1 write on a credential with a Vault path leaves two authentication methods
  until the next v2 write (`OneMethod` excepts it).
* A PATCH that gives only a user name, or null for the secret, leaves a credential
  without any method.
* `MAX_PORT` is 65536 and is accepted, while `api/messages.py:63` speaks of a range
  up to 65535; a PATCH with a null port stores null until the next write.
* Any save of a stale copy inserts a deleted row again: a credential, the Vault
  definition.
* Two overlapping requests to create the Vault definition may both answer 201.
* A details request that read the report before the fingerprint task linked it
  saves the link back to null (`SaveDetailsCsv` of `ReportRow`), and a text
  rendered between the creation of the report and the assignment of its groups is
  cached without the sources.
* A request for the aggregate may be served the zeros of one being built, and may
  make the fingerprint task's insert fail, which fails the scan.
* A stale copy can turn a failed deployments report back into a completed one.

## Not modelled

* Pause and restart of jobs (nothing sends their signals); the deletion of
  credentials, sources and scans in bulk, and against a concurrent creation of a
  reference to them; the sharing of inspect groups between merged reports.
* The counts of the aggregate that come from raw facts rather than fingerprints;
  `QUIPUCORDS_BYPASS_BUILD_CACHED_FINGERPRINTS`; a second run of a fingerprint task
  for a report.
* `ssl_protocol`, `become_method`, `become_user` and `vault_mount_point`, which no
  rule reads.
* The insights report, CSV and JSON layout, and the parsers of command output in
  `scanner/network/processing`: formatting and parsing without state.
* HTTP clients, Ansible playbooks, the cipher, users, tokens and settings: input
  and output, libraries, configuration.
