------------------------------- MODULE Publish ------------------------------
(***************************************************************************)
(* Publishing one report to the ingress service of Lightspeed: the POST     *)
(* requests of a user, the PublishRequest rows they create and the Celery   *)
(* task that uploads the report with the token of LightspeedAuth.           *)
(*                                                                         *)
(* A POST, the row it creates and the task it queues share one name.        *)
(***************************************************************************)
EXTENDS LightspeedAuth, Sequences, SequencesExt

CONSTANT Posts

VARIABLES report,   \* what the deployment report allows
          created,  \* the rows of the report in order of created_at
          status,   \* of the rows
          ppc,      \* label of a POST
          tpc,      \* label of a task
          token,    \* the token a task has read
          result,   \* the outcome a task is about to save
          accepted, \* the uploads the ingress service has taken
          lost      \* the requests whose POST or task was killed (history)

publishVars == <<report, created, status, ppc, tpc, token, result, accepted, lost>>
vars == <<authVars, publishVars>>
upload == <<tpc, token, result, accepted, lost>>

PublishStatus == {"pending", "sent", "failed"}

ASSUME PublishAssumption == NULL \notin PublishStatus

Init ==
    /\ AuthInit
    /\ report = "incomplete"
    /\ created = <<>>
    /\ status = [p \in Posts |-> NULL]
    /\ ppc = [p \in Posts |-> "idle"]
    /\ tpc = [p \in Posts |-> "none"]
    /\ token = [p \in Posts |-> NULL]
    /\ result = [p \in Posts |-> NULL]
    /\ accepted = {}
    /\ lost = {}

-----------------------------------------------------------------------------
(* _create_publish *)

(* get_cannot_publish_reason: the status of the row as it stands, which the  *)
(* expiry check may not have brought up to date, and a complete report.     *)
CanPublish == row # NULL /\ row.status = "valid" /\ report = "complete"

CheckReason(p) ==
    /\ ppc[p] = "idle"
    /\ ppc' = [ppc EXCEPT ![p] = IF CanPublish THEN "latest" ELSE "done"]
    /\ UNCHANGED <<report, created, status, upload, authVars>>

(* _get_latest_publish_request *)
LatestIsPending == created # <<>> /\ status[Last(created)] = "pending"

CheckLatest(p) ==
    /\ ppc[p] = "latest"
    /\ ppc' = [ppc EXCEPT ![p] = IF LatestIsPending THEN "done" ELSE "create"]
    /\ UNCHANGED <<report, created, status, upload, authVars>>

(* request_publish creates the row, *)
CreateRequest(p) ==
    /\ ppc[p] = "create"
    /\ created' = Append(created, p)
    /\ status' = [status EXCEPT ![p] = "pending"]
    /\ ppc' = [ppc EXCEPT ![p] = "delay"]
    /\ UNCHANGED <<report, upload, authVars>>

DelayForgotten(p) ==
    /\ ppc[p] = "delay"
    /\ ppc' = [ppc EXCEPT ![p] = "done"]
    /\ UNCHANGED <<report, created, status, upload, authVars>>

(* then queues the task. *)
DelayPublish(p) ==
    /\ ppc[p] = "delay"
    /\ ppc' = [ppc EXCEPT ![p] = "done"]
    /\ tpc' = [tpc EXCEPT ![p] = "queued"]
    /\ UNCHANGED <<report, created, status, token, result, accepted, lost, authVars>>

PostStep(p) == CheckReason(p) \/ CheckLatest(p) \/ CreateRequest(p) \/ DelayPublish(p)

-----------------------------------------------------------------------------
(* publish_to_ingress *)

(* The task has its outcome and goes on to _save_result. *)
Outcome(p, outcome) ==
    /\ result' = [result EXCEPT ![p] = outcome]
    /\ tpc' = [tpc EXCEPT ![p] = "refresh"]

(* _get_auth_token: a row without a token, and an expired token, fail. *)
GetAuthToken(p) ==
    /\ tpc[p] = "queued"
    /\ IF row = NULL \/ row.token = NULL \/ IsExpired(row)
       THEN Outcome(p, "failed") /\ UNCHANGED token
       ELSE /\ token' = [token EXCEPT ![p] = row.token]
            /\ tpc' = [tpc EXCEPT ![p] = "post"]
            /\ UNCHANGED result
    /\ UNCHANGED <<report, created, status, ppc, accepted, lost, authVars>>

(* The service takes the tarball and its answer arrives. *)
PostAccepted(p) ==
    /\ tpc[p] = "post"
    /\ accepted' = accepted \cup {p}
    /\ Outcome(p, "sent")
    /\ UNCHANGED <<report, created, status, ppc, token, lost, authVars>>

(* The service takes the tarball and its answer is lost. *)
PostAnswerLost(p) ==
    /\ tpc[p] = "post"
    /\ accepted' = accepted \cup {p}
    /\ Outcome(p, "failed")
    /\ UNCHANGED <<report, created, status, ppc, token, lost, authVars>>

PostRefusedUnnoticed(p) ==
    /\ tpc[p] = "post"
    /\ Outcome(p, "sent")
    /\ UNCHANGED <<report, created, status, ppc, token, accepted, lost, authVars>>

(* The tarball cannot be made, the service is out of reach, or refuses it. *)
PostRefused(p) ==
    /\ tpc[p] = "post"
    /\ Outcome(p, "failed")
    /\ UNCHANGED <<report, created, status, ppc, token, accepted, lost, authVars>>

(* _save_result *)
Refresh(p) ==
    /\ tpc[p] = "refresh"
    /\ tpc' = [tpc EXCEPT ![p] = IF status[p] = "pending" THEN "save" ELSE "done"]
    /\ UNCHANGED <<report, created, status, ppc, token, result, accepted, lost, authVars>>

SaveResult(p) ==
    /\ tpc[p] = "save"
    /\ status' = [status EXCEPT ![p] = result[p]]
    /\ tpc' = [tpc EXCEPT ![p] = "done"]
    /\ UNCHANGED <<report, created, ppc, token, result, accepted, lost, authVars>>

TaskStep(p) ==
    \/ GetAuthToken(p) \/ PostAccepted(p) \/ PostAnswerLost(p) \/ PostRefused(p)
    \/ Refresh(p) \/ SaveResult(p)

-----------------------------------------------------------------------------
(* The fingerprints of the report are ready. *)
ReportReady ==
    /\ report = "incomplete"
    /\ report' \in {"complete", "nohosts"}
    /\ UNCHANGED <<created, status, ppc, upload, authVars>>

(* A restart between two steps. *)
PostKilled(p) ==
    /\ ppc[p] \in {"create", "delay"}
    /\ ppc' = [ppc EXCEPT ![p] = "done"]
    /\ lost' = lost \cup {p}
    /\ UNCHANGED <<report, created, status, tpc, token, result, accepted, authVars>>

TaskKilled(p) ==
    /\ tpc[p] \notin {"none", "done"}
    /\ tpc' = [tpc EXCEPT ![p] = "done"]
    /\ lost' = lost \cup {p}
    /\ UNCHANGED <<report, created, status, ppc, token, result, accepted, authVars>>

Next ==
    \/ AuthNext /\ UNCHANGED publishVars
    \/ \E p \in Posts : PostStep(p) \/ TaskStep(p) \/ PostKilled(p) \/ TaskKilled(p)
    \/ ReportReady

Spec == Init /\ [][Next]_vars

(* A POST that has begun is worked off, and Celery runs its tasks. *)
FairSpec ==
    /\ Spec
    /\ \A p \in Posts : WF_vars(ppc[p] # "idle" /\ PostStep(p)) /\ WF_vars(TaskStep(p))

-----------------------------------------------------------------------------
(* The rows, labels and outcomes are those of the handlers. *)
TypeOK ==
    /\ AuthTypeOK
    /\ report \in {"incomplete", "complete", "nohosts"}
    /\ created \in Seq(Posts)
    /\ status \in [Posts -> PublishStatus \cup {NULL}]
    /\ ppc \in [Posts -> {"idle", "latest", "create", "delay", "done"}]
    /\ tpc \in [Posts -> {"none", "queued", "post", "refresh", "save", "done"}]
    /\ token \in [Posts -> Logins \cup {NULL}]
    /\ result \in [Posts -> {"sent", "failed", NULL}]
    /\ accepted \subseteq Posts
    /\ lost \subseteq Posts

(* A request is "sent" only if the service has taken the report, and taken   *)
(* it with a token the user has authorized, whatever logins and logouts     *)
(* have done to the token row in the meantime.                              *)
SentMeansAccepted ==
    \A p \in Posts : status[p] = "sent" => p \in accepted /\ token[p] \in approved

(* A pending request has somebody who will settle it: the POST that created *)
(* it or its task, unless one of them has been killed.                      *)
PendingIsOwned ==
    \A p \in Posts : status[p] = "pending" =>
        p \in lost \/ ppc[p] = "delay" \/ tpc[p] \notin {"none", "done"}

(* A pending request comes to an outcome unless its POST or its task is      *)
(* killed: if it did not, every later POST would be answered with 409.     *)
PendingSettles ==
    \A p \in Posts : status[p] = "pending" ~> status[p] \in {"sent", "failed"} \/ p \in lost

(* A task does not save its result when a newer publish has taken over. *)
SkippedWhenSuperseded ==
    [][\A p \in Posts : status[p] = "pending" /\ status'[p] # "pending"
          => Last(created) = p]_vars
=============================================================================
