--------------------------- MODULE LightspeedAuth ---------------------------
(***************************************************************************)
(* The Lightspeed login of one user: the SecureToken row, the requests that *)
(* log in, log out and ask for the status, and the Celery task that waits   *)
(* until the user has authorized the device code of a login.               *)
(*                                                                         *)
(* A token and a device code are named by the login they come from, and so  *)
(* is the row a login creates.  Everybody saves a whole instance: a save    *)
(* updates the row of its id, inserts it when the user has no row, and is   *)
(* refused (SecureToken.save validates first) when the user has another.   *)
(***************************************************************************)
EXTENDS Integers

CONSTANTS Logins, Logouts, StatusChecks, \* the API requests
          NULL,
          Interval,                      \* seconds between two polls
          ExpiresIn                      \* life of a device code

Requests == Logins \cup Logouts \cup StatusChecks

TokenStatus == {"none", "pending", "valid", "failed", "expired"}

TokenRow == [id: Logins, token: Logins \cup {NULL}, status: TokenStatus]

ASSUME AuthAssumption ==
    /\ Interval \in Nat \ {0}
    /\ ExpiresIn \in Nat
    /\ NULL \notin Logins /\ NULL \notin TokenRow
    /\ Logins \cap Logouts = {}
    /\ Logins \cap StatusChecks = {}
    /\ Logouts \cap StatusChecks = {}

VARIABLES row,       \* the user's SecureToken row
          pc, mem,   \* of the API requests: label, SecureToken instance
          wpc, wmem, \* of the waiting task of each login
          elapsed,   \* seconds the waiting task has slept
          approved,  \* the device codes the user has authorized at SSO
          expired,   \* the tokens whose expires_at has passed
          killed     \* the processes that died half way (history)

authVars == <<row, pc, mem, wpc, wmem, elapsed, approved, expired, killed>>
sso == <<approved, expired, killed>>

AuthInit ==
    /\ row = NULL
    /\ pc = [r \in Requests |-> "idle"]
    /\ mem = [r \in Requests |-> NULL]
    /\ wpc = [l \in Logins |-> "none"]
    /\ wmem = [l \in Logins |-> NULL]
    /\ elapsed = [l \in Logins |-> 0]
    /\ approved = {}
    /\ expired = {}
    /\ killed = {}

(* SecureToken.save: full_clean finds another row of the same user and name. *)
Refused(instance) == row # NULL /\ row.id # instance.id

ClearedTokenOnly(instance) == [instance EXCEPT !.token = NULL]
Cleared(instance) == [instance EXCEPT !.token = NULL, !.status = "none"]
Marked(instance, status) == [instance EXCEPT !.status = status]

(* A request saves an instance and goes on, or dies of the refusal. *)
SaveAndGoto(r, instance, label) ==
    /\ row' = IF Refused(instance) THEN row ELSE instance
    /\ mem' = [mem EXCEPT ![r] = instance]
    /\ pc' = [pc EXCEPT ![r] = IF Refused(instance) THEN "done" ELSE label]

-----------------------------------------------------------------------------
(* lightspeed_login_request *)

(* lightspeed_request_auth fails: nothing has been touched. *)
LoginFails(l) ==
    /\ pc[l] = "idle"
    /\ pc' = [pc EXCEPT ![l] = "done"]
    /\ UNCHANGED <<row, mem, wpc, wmem, elapsed, sso>>

(* SSO has given a device code; get_or_create the row. *)
GetOrCreate(l) ==
    /\ pc[l] = "idle"
    /\ row' = IF row = NULL THEN [id |-> l, token |-> NULL, status |-> "none"] ELSE row
    /\ mem' = [mem EXCEPT ![l] = row']
    /\ pc' = [pc EXCEPT ![l] = "clear"]
    /\ UNCHANGED <<wpc, wmem, elapsed, sso>>

Clear(l) ==
    /\ pc[l] = "clear"
    /\ SaveAndGoto(l, Cleared(mem[l]), "pending")
    /\ UNCHANGED <<wpc, wmem, elapsed, sso>>

MarkPending(l) ==
    /\ pc[l] = "pending"
    /\ SaveAndGoto(l, Marked(mem[l], "pending"), "delay")
    /\ UNCHANGED <<wpc, wmem, elapsed, sso>>

Delay(l) ==
    /\ pc[l] = "delay"
    /\ pc' = [pc EXCEPT ![l] = "done"]
    /\ wpc' = [wpc EXCEPT ![l] = "queued"]
    /\ UNCHANGED <<row, mem, wmem, elapsed, sso>>

LoginStep(l) == LoginFails(l) \/ GetOrCreate(l) \/ Clear(l) \/ MarkPending(l) \/ Delay(l)

-----------------------------------------------------------------------------
(* lightspeed_logout_request: look the row up, delete it by its id. *)

FindToDelete(o) ==
    /\ pc[o] = "idle"
    /\ mem' = [mem EXCEPT ![o] = row]
    /\ pc' = [pc EXCEPT ![o] = IF row = NULL THEN "done" ELSE "delete"]
    /\ UNCHANGED <<row, wpc, wmem, elapsed, sso>>

Delete(o) ==
    /\ pc[o] = "delete"
    /\ row' = IF row # NULL /\ row.id = mem[o].id THEN NULL ELSE row
    /\ pc' = [pc EXCEPT ![o] = "done"]
    /\ UNCHANGED <<mem, wpc, wmem, elapsed, sso>>

LogoutStep(o) == FindToDelete(o) \/ Delete(o)

-----------------------------------------------------------------------------
(* SecureToken.is_expired *)
IsExpired(instance) == instance.token \in expired

(* user_lightspeed_auth_status: mark a valid token that has expired. *)
CheckStatus(s) ==
    /\ pc[s] = "idle"
    /\ mem' = [mem EXCEPT ![s] = row]
    /\ pc' = [pc EXCEPT ![s] =
                IF row # NULL /\ row.status = "valid" /\ IsExpired(row)
                THEN "expire" ELSE "done"]
    /\ UNCHANGED <<row, wpc, wmem, elapsed, sso>>

MarkExpired(s) ==
    /\ pc[s] = "expire"
    /\ SaveAndGoto(s, Marked(mem[s], "expired"), "done")
    /\ UNCHANGED <<wpc, wmem, elapsed, sso>>

StatusStep(s) == CheckStatus(s) \/ MarkExpired(s)

-----------------------------------------------------------------------------
(* lightspeed_wait_for_authorization *)

WaiterTimesOutSilently(l) ==
    /\ wpc[l] = "timeout"
    /\ wpc' = [wpc EXCEPT ![l] = "done"]
    /\ UNCHANGED <<row, pc, mem, wmem, elapsed, sso>>

(* The task saves an instance and goes on, or dies of the refusal. *)
WaiterSaves(l, instance, label) ==
    /\ row' = IF Refused(instance) THEN row ELSE instance
    /\ wmem' = [wmem EXCEPT ![l] = instance]
    /\ wpc' = [wpc EXCEPT ![l] = IF Refused(instance) THEN "done" ELSE label]
    /\ UNCHANGED <<pc, mem, sso>>

(* It looks for the row of the login's instance. *)
WaiterLoads(l) ==
    /\ wpc[l] = "queued"
    /\ wmem' = [wmem EXCEPT ![l] = row]
    /\ wpc' = [wpc EXCEPT ![l] =
                 IF row # NULL /\ row.id = mem[l].id THEN "announce" ELSE "done"]
    /\ UNCHANGED <<row, pc, mem, elapsed, sso>>

WaiterAnnounces(l) ==
    /\ wpc[l] = "announce"
    /\ WaiterSaves(l, Marked(wmem[l], "pending"), "poll")
    /\ UNCHANGED elapsed

PollGrantedAgain(l) ==
    /\ wpc[l] = "poll"
    /\ l \in approved
    /\ WaiterSaves(l, [wmem[l] EXCEPT !.token = l, !.status = "valid"], "poll")
    /\ UNCHANGED elapsed

(* SSO answers 200: token, metadata and status are saved together. *)
PollGranted(l) ==
    /\ wpc[l] = "poll"
    /\ l \in approved
    /\ WaiterSaves(l, [wmem[l] EXCEPT !.token = l, !.status = "valid"], "done")
    /\ UNCHANGED elapsed

(* No connection, an invalid token, expired_token or any other answer. *)
PollFails(l) ==
    /\ wpc[l] = "poll"
    /\ WaiterSaves(l, Marked(wmem[l], "failed"), "done")
    /\ UNCHANGED elapsed

(* authorization_pending: sleep, and give up after expires_in. *)
PollPending(l) ==
    /\ wpc[l] = "poll"
    /\ l \notin approved
    /\ elapsed' = [elapsed EXCEPT ![l] = @ + Interval]
    /\ IF elapsed'[l] > ExpiresIn
       THEN wpc' = [wpc EXCEPT ![l] = "timeout"]
       ELSE UNCHANGED wpc
    /\ UNCHANGED <<row, pc, mem, wmem, sso>>

WaiterTimesOut(l) ==
    /\ wpc[l] = "timeout"
    /\ WaiterSaves(l, Marked(wmem[l], "failed"), "done")
    /\ UNCHANGED elapsed

(* No token endpoint in SSO's configuration, or a token without an          *)
(* organization: the exception ends the task.                              *)
PollRaises(l) ==
    /\ wpc[l] = "poll"
    /\ wpc' = [wpc EXCEPT ![l] = "done"]
    /\ killed' = killed \cup {l}
    /\ UNCHANGED <<row, pc, mem, wmem, elapsed, approved, expired>>

WaiterStep(l) ==
    \/ WaiterLoads(l) \/ WaiterAnnounces(l) \/ PollGranted(l) \/ PollFails(l)
    \/ PollPending(l) \/ WaiterTimesOut(l) \/ PollRaises(l)

-----------------------------------------------------------------------------
(* The user at SSO, and time. *)

Approve(l) ==
    /\ wpc[l] # "none" \* the login has answered with the address to visit
    /\ l \notin approved
    /\ approved' = approved \cup {l}
    /\ UNCHANGED <<row, pc, mem, wpc, wmem, elapsed, expired, killed>>

Expire(l) ==
    /\ l \in approved \ expired
    /\ expired' = expired \cup {l}
    /\ UNCHANGED <<row, pc, mem, wpc, wmem, elapsed, approved, killed>>

(* The server or the worker is restarted; Celery has acknowledged the task. *)
RequestKilled(r) ==
    /\ pc[r] \notin {"idle", "done"}
    /\ pc' = [pc EXCEPT ![r] = "done"]
    /\ killed' = killed \cup {r}
    /\ UNCHANGED <<row, mem, wpc, wmem, elapsed, approved, expired>>

WaiterKilled(l) ==
    /\ wpc[l] \notin {"none", "done"}
    /\ wpc' = [wpc EXCEPT ![l] = "done"]
    /\ killed' = killed \cup {l}
    /\ UNCHANGED <<row, pc, mem, wmem, elapsed, approved, expired>>

AuthNext ==
    \/ \E l \in Logins : \/ LoginStep(l) \/ WaiterStep(l)
                         \/ Approve(l) \/ Expire(l) \/ WaiterKilled(l)
    \/ \E o \in Logouts : LogoutStep(o)
    \/ \E s \in StatusChecks : StatusStep(s)
    \/ \E r \in Requests : RequestKilled(r)

AuthSpec == AuthInit /\ [][AuthNext]_authVars

(* A request that has begun is worked off; Celery runs its tasks. *)
AuthFairness ==
    /\ \A l \in Logins : WF_authVars(pc[l] # "idle" /\ LoginStep(l)) /\ WF_authVars(WaiterStep(l))
    /\ \A o \in Logouts : WF_authVars(Delete(o))
    /\ \A s \in StatusChecks : WF_authVars(MarkExpired(s))

AuthFairSpec == AuthSpec /\ AuthFairness

-----------------------------------------------------------------------------
(* The labels and instances are those of the handlers: in particular a       *)
(* request that has gone on holds an instance to save or to delete.         *)
AuthTypeOK ==
    /\ row \in TokenRow \cup {NULL}
    /\ pc \in [Requests -> {"idle", "clear", "pending", "delay", "delete", "expire", "done"}]
    /\ mem \in [Requests -> TokenRow \cup {NULL}]
    /\ wpc \in [Logins -> {"none", "queued", "announce", "poll", "timeout", "done"}]
    /\ wmem \in [Logins -> TokenRow \cup {NULL}]
    /\ elapsed \in [Logins -> Nat]
    /\ approved \subseteq Logins
    /\ expired \subseteq approved
    /\ killed \subseteq Requests
    /\ \A r \in Requests : pc[r] \in {"clear", "pending", "delay", "delete", "expire"}
                            => mem[r] # NULL
    /\ \A l \in Logins : wpc[l] # "none" => mem[l] # NULL
    /\ \A l \in Logins : wpc[l] \in {"announce", "poll", "timeout"} => wmem[l] # NULL

(* A row that calls itself valid or expired has a token, and the token of a  *)
(* row is one the user has authorized: no stale instance that a request or   *)
(* a waiting task saves brings back a status without its token.             *)
Granted(instance) ==
    instance # NULL =>
        /\ instance.status \in {"valid", "expired"} => instance.token # NULL
        /\ instance.token # NULL => instance.token \in approved

ValidIsGranted == Granted(row)

(* A login the user has authorized is lost only to a logout, to an expiry    *)
(* check, or to another login of the user that is still under way: its own   *)
(* requests and its own waiting task leave it alone.                        *)
ValidKept ==
    [][row # NULL /\ row.status = "valid" /\ row' # row
         => \/ row' = NULL
            \/ row'.status = "expired"
            \/ \E l \in Logins \ {row.token} :
                   pc[l] \notin {"idle", "done"} \/ wpc[l] \notin {"none", "done"}]_authVars

(* A login that is pending comes to an end: the waiting task gives up after  *)
(* expires_in at the latest, unless it or a request dies half way.          *)
Pending == row # NULL /\ row.status = "pending"
PendingResolves == Pending ~> ~Pending \/ killed # {}

(* Once logged out, the user has no token row until a login request makes    *)
(* one: neither a waiting task nor a status request brings it back.         *)
LoggedOutStays ==
    [][row = NULL /\ row' # NULL => \E l \in Logins : pc'[l] # pc[l]]_authVars
=============================================================================
