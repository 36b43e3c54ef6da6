--------------------------- MODULE Publish_proofs ---------------------------
(***************************************************************************)
(* For any number of POST requests, logins, logouts and status requests: a  *)
(* request is marked as sent only if its upload was taken, with a token the *)
(* user has authorized, and a pending request has an owner.                 *)
(***************************************************************************)
EXTENDS Publish, TLAPS

-----------------------------------------------------------------------------
(***************************************************************************)
(* Authorization: the types, and that a row never calls itself valid without *)
(* a token the user authorized.                                            *)
(***************************************************************************)
(* Every instance a request or a task may still save is as sound as the row. *)
AllGranted ==
    /\ Granted(row)
    /\ \A r \in Requests : Granted(mem[r])
    /\ \A l \in Logins : Granted(wmem[l])

(* An instance that is cleared, marked or granted is again a row. *)
LEMMA Instances ==
    ASSUME NEW i \in TokenRow
    PROVE  /\ Cleared(i) \in TokenRow
           /\ \A s \in TokenStatus : Marked(i, s) \in TokenRow
           /\ \A l \in Logins : [i EXCEPT !.token = l, !.status = "valid"] \in TokenRow
  BY Zenon DEF Cleared, Marked, TokenRow, TokenStatus

(* Clearing, failing and pending keep an instance sound; so does granting    *)
(* the token of an approved login.                                          *)
LEMMA Soundness ==
    ASSUME NEW i \in TokenRow, Granted(i)
    PROVE  /\ Granted(Cleared(i))
           /\ Granted(Marked(i, "pending")) /\ Granted(Marked(i, "failed"))
           /\ i.status = "valid" => Granted(Marked(i, "expired"))
           /\ \A l \in Logins : l \in approved =>
                 Granted([i EXCEPT !.token = l, !.status = "valid"])
  BY Instances, AuthAssumption, Zenon DEF Granted, Cleared, Marked, TokenRow, TokenStatus

(* The instance a status request is about to mark is a valid one. *)
ToExpire == \A s \in StatusChecks : pc[s] = "expire" => mem[s].status = "valid"

(* The inductive invariant. *)
Sound == AuthTypeOK /\ AllGranted /\ ToExpire

(* A step that saves a sound instance, or is refused, keeps the row and all  *)
(* instances sound.                                                         *)
LEMMA SavedByRequest ==
    ASSUME Sound, NEW r \in Requests, NEW i \in TokenRow, Granted(i),
           NEW label, SaveAndGoto(r, i, label),
           UNCHANGED <<wpc, wmem, elapsed, sso>>,
           \/ r \in Logins /\ label \in {"pending", "delay"}
           \/ r \in StatusChecks /\ label = "done"
    PROVE  Sound'
  <1>. USE AuthAssumption DEF Sound
  <1>1. AuthTypeOK'
    BY Zenon DEF AuthTypeOK, SaveAndGoto, Requests, sso
  <1>2. AllGranted'
    BY Zenon DEF AuthTypeOK, AllGranted, Granted, SaveAndGoto, Requests, sso
  <1>3. ToExpire'
    BY Zenon DEF AuthTypeOK, ToExpire, SaveAndGoto, Requests
  <1>. QED BY <1>1, <1>2, <1>3, Zenon

(* The same for a row that the waiting task saves. *)
LEMMA SavedByWaiter ==
    ASSUME Sound, NEW l \in Logins, NEW i \in TokenRow, Granted(i),
           NEW label \in {"poll", "done"}, WaiterSaves(l, i, label),
           UNCHANGED elapsed, wpc[l] # "none"
    PROVE  Sound'
  <1>. USE AuthAssumption DEF Sound
  <1>1. AuthTypeOK'
    BY Zenon DEF AuthTypeOK, WaiterSaves, Requests, sso
  <1>2. AllGranted'
    BY Zenon DEF AuthTypeOK, AllGranted, Granted, WaiterSaves, Requests, sso
  <1>3. ToExpire'
    BY Zenon DEF AuthTypeOK, ToExpire, WaiterSaves, Requests
  <1>. QED BY <1>1, <1>2, <1>3, Zenon

(* Nobody has logged in at first. *)
LEMMA SoundInit == AuthInit => Sound
  BY AuthAssumption DEF AuthInit, Sound, AuthTypeOK, AllGranted, Granted, ToExpire, Requests

(* No save, however stale, stores a token that was not granted. *)
LEMMA SoundStep == Sound /\ [AuthNext]_authVars => Sound'
  <1>. SUFFICES ASSUME Sound, [AuthNext]_authVars PROVE Sound'
    BY Zenon
  <1>. USE AuthAssumption
  <1>1. ASSUME NEW l \in Logins, LoginFails(l) PROVE Sound'
    <2>1. AuthTypeOK'
      BY <1>1, Zenon DEF LoginFails, Sound, AuthTypeOK, Requests, sso
    <2>2. AllGranted'
      BY <1>1, Zenon DEF LoginFails, Sound, AuthTypeOK, AllGranted, Granted, Requests, sso
    <2>3. ToExpire'
      BY <1>1, Zenon DEF LoginFails, Sound, AuthTypeOK, ToExpire, Requests
    <2>. QED BY <2>1, <2>2, <2>3, Zenon DEF Sound
  <1>2. ASSUME NEW l \in Logins, GetOrCreate(l) PROVE Sound'
    <2>1. AuthTypeOK'
      BY <1>2 DEF GetOrCreate, Sound, AuthTypeOK, Requests, sso, TokenRow, TokenStatus
    <2>2. AllGranted'
      BY <1>2, Zenon DEF GetOrCreate, Sound, AuthTypeOK, AllGranted, Granted, Requests, sso, TokenRow, TokenStatus
    <2>3. ToExpire'
      BY <1>2, Zenon DEF GetOrCreate, Sound, AuthTypeOK, ToExpire, Requests, TokenRow
    <2>. QED BY <2>1, <2>2, <2>3, Zenon DEF Sound
  <1>3. ASSUME NEW l \in Logins, Clear(l) PROVE Sound'
    <2>1. mem[l] \in TokenRow /\ Granted(mem[l])
      BY <1>3, Zenon DEF Clear, Sound, AuthTypeOK, AllGranted, Requests
    <2>2. Cleared(mem[l]) \in TokenRow
      BY <2>1, Instances, Zenon DEF TokenStatus
    <2>3. Granted(Cleared(mem[l]))
      BY <2>1, Soundness, Zenon
    <2>. QED BY <1>3, <2>2, <2>3, SavedByRequest, Zenon DEF Clear, Requests
  <1>4. ASSUME NEW l \in Logins, MarkPending(l) PROVE Sound'
    <2>1. mem[l] \in TokenRow /\ Granted(mem[l])
      BY <1>4, Zenon DEF MarkPending, Sound, AuthTypeOK, AllGranted, Requests
    <2>2. Marked(mem[l], "pending") \in TokenRow
      BY <2>1, Instances, Zenon DEF TokenStatus
    <2>3. Granted(Marked(mem[l], "pending"))
      BY <2>1, Soundness, Zenon
    <2>. QED BY <1>4, <2>2, <2>3, SavedByRequest, Zenon DEF MarkPending, Requests
  <1>5. ASSUME NEW l \in Logins, Delay(l) PROVE Sound'
    <2>1. AuthTypeOK'
      BY <1>5, Zenon DEF Delay, Sound, AuthTypeOK, Requests, sso
    <2>2. AllGranted'
      BY <1>5, Zenon DEF Delay, Sound, AuthTypeOK, AllGranted, Granted, Requests, sso
    <2>3. ToExpire'
      BY <1>5, Zenon DEF Delay, Sound, AuthTypeOK, ToExpire, Requests
    <2>. QED BY <2>1, <2>2, <2>3, Zenon DEF Sound
  <1>6. ASSUME NEW o \in Logouts, FindToDelete(o) PROVE Sound'
    <2>1. AuthTypeOK'
      BY <1>6 DEF FindToDelete, Sound, AuthTypeOK, Requests, sso
    <2>2. AllGranted'
      BY <1>6, Zenon DEF FindToDelete, Sound, AuthTypeOK, AllGranted, Granted, Requests, sso
    <2>3. ToExpire'
      BY <1>6, Zenon DEF FindToDelete, Sound, AuthTypeOK, ToExpire, Requests
    <2>. QED BY <2>1, <2>2, <2>3, Zenon DEF Sound
  <1>7. ASSUME NEW o \in Logouts, Delete(o) PROVE Sound'
    <2>1. AuthTypeOK'
      BY <1>7, Zenon DEF Delete, Sound, AuthTypeOK, Requests, sso
    <2>2. AllGranted'
      BY <1>7, Zenon DEF Delete, Sound, AuthTypeOK, AllGranted, Granted, Requests, sso
    <2>3. ToExpire'
      BY <1>7, Zenon DEF Delete, Sound, AuthTypeOK, ToExpire, Requests
    <2>. QED BY <2>1, <2>2, <2>3, Zenon DEF Sound
  <1>8. ASSUME NEW s \in StatusChecks, CheckStatus(s) PROVE Sound'
    <2>1. AuthTypeOK'
      BY <1>8 DEF CheckStatus, Sound, AuthTypeOK, Requests, sso
    <2>2. AllGranted'
      BY <1>8, Zenon DEF CheckStatus, Sound, AuthTypeOK, AllGranted, Granted, Requests, sso
    <2>3. ToExpire'
      BY <1>8, Zenon DEF CheckStatus, Sound, AuthTypeOK, ToExpire, Requests
    <2>. QED BY <2>1, <2>2, <2>3, Zenon DEF Sound
  <1>9. ASSUME NEW s \in StatusChecks, MarkExpired(s) PROVE Sound'
    <2>1. mem[s] \in TokenRow /\ Granted(mem[s])
      BY <1>9, Zenon DEF MarkExpired, Sound, AuthTypeOK, AllGranted, Requests
    <2>2. Marked(mem[s], "expired") \in TokenRow
      BY <2>1, Instances, Zenon DEF TokenStatus
    <2>3. Granted(Marked(mem[s], "expired"))
      BY <1>9, <2>1, Soundness, Zenon DEF MarkExpired, Sound, ToExpire
    <2>. QED BY <1>9, <2>2, <2>3, SavedByRequest, Zenon DEF MarkExpired, Requests
  <1>10. ASSUME NEW l \in Logins, WaiterLoads(l) PROVE Sound'
    <2>1. AuthTypeOK'
      BY <1>10, Zenon DEF WaiterLoads, Sound, AuthTypeOK, Requests, sso
    <2>2. AllGranted'
      BY <1>10, Zenon DEF WaiterLoads, Sound, AuthTypeOK, AllGranted, Granted, Requests, sso
    <2>3. ToExpire'
      BY <1>10, Zenon DEF WaiterLoads, Sound, AuthTypeOK, ToExpire, Requests
    <2>. QED BY <2>1, <2>2, <2>3, Zenon DEF Sound
  <1>11. ASSUME NEW l \in Logins, WaiterAnnounces(l) PROVE Sound'
    <2>1. wmem[l] \in TokenRow /\ Granted(wmem[l])
      BY <1>11, Zenon DEF WaiterAnnounces, Sound, AuthTypeOK, AllGranted, Requests
    <2>2. Marked(wmem[l], "pending") \in TokenRow
      BY <2>1, Instances, Zenon DEF TokenStatus
    <2>3. Granted(Marked(wmem[l], "pending"))
      BY <2>1, Soundness, Zenon
    <2>. QED BY <1>11, <2>2, <2>3, SavedByWaiter, Zenon DEF WaiterAnnounces
  <1>12. ASSUME NEW l \in Logins, PollGranted(l) PROVE Sound'
    <2>1. wmem[l] \in TokenRow /\ Granted(wmem[l])
      BY <1>12, Zenon DEF PollGranted, Sound, AuthTypeOK, AllGranted, Requests
    <2>2. [wmem[l] EXCEPT !.token = l, !.status = "valid"] \in TokenRow
      BY <2>1, Instances, Zenon DEF TokenStatus
    <2>3. Granted([wmem[l] EXCEPT !.token = l, !.status = "valid"])
      BY <1>12, <2>1, Soundness, Zenon DEF PollGranted
    <2>. QED BY <1>12, <2>2, <2>3, SavedByWaiter, Zenon DEF PollGranted
  <1>13. ASSUME NEW l \in Logins, PollFails(l) PROVE Sound'
    <2>1. wmem[l] \in TokenRow /\ Granted(wmem[l])
      BY <1>13, Zenon DEF PollFails, Sound, AuthTypeOK, AllGranted, Requests
    <2>2. Marked(wmem[l], "failed") \in TokenRow
      BY <2>1, Instances, Zenon DEF TokenStatus
    <2>3. Granted(Marked(wmem[l], "failed"))
      BY <2>1, Soundness, Zenon
    <2>. QED BY <1>13, <2>2, <2>3, SavedByWaiter, Zenon DEF PollFails
  <1>14. ASSUME NEW l \in Logins, PollPending(l) PROVE Sound'
    <2>1. AuthTypeOK'
      <3>1. elapsed' \in [Logins -> Nat]
        BY <1>14 DEF PollPending, Sound, AuthTypeOK
      <3>2. wpc' = wpc \/ wpc' = [wpc EXCEPT ![l] = "timeout"]
        BY <1>14, Zenon DEF PollPending
      <3>3. UNCHANGED <<row, pc, mem, wmem, approved, expired, killed>> /\ wpc[l] = "poll"
        BY <1>14, Zenon DEF PollPending, sso
      <3>. QED BY <3>1, <3>2, <3>3 DEF Sound, AuthTypeOK
    <2>2. AllGranted'
      BY <1>14, Zenon DEF PollPending, Sound, AuthTypeOK, AllGranted, Granted, Requests, sso
    <2>3. ToExpire'
      BY <1>14, Zenon DEF PollPending, Sound, AuthTypeOK, ToExpire, Requests
    <2>. QED BY <2>1, <2>2, <2>3, Zenon DEF Sound
  <1>15. ASSUME NEW l \in Logins, WaiterTimesOut(l) PROVE Sound'
    <2>1. wmem[l] \in TokenRow /\ Granted(wmem[l])
      BY <1>15, Zenon DEF WaiterTimesOut, Sound, AuthTypeOK, AllGranted, Requests
    <2>2. Marked(wmem[l], "failed") \in TokenRow
      BY <2>1, Instances, Zenon DEF TokenStatus
    <2>3. Granted(Marked(wmem[l], "failed"))
      BY <2>1, Soundness, Zenon
    <2>. QED BY <1>15, <2>2, <2>3, SavedByWaiter, Zenon DEF WaiterTimesOut
  <1>16. ASSUME NEW l \in Logins, PollRaises(l) PROVE Sound'
    <2>1. AuthTypeOK'
      BY <1>16, Zenon DEF PollRaises, Sound, AuthTypeOK, Requests, sso
    <2>2. AllGranted'
      BY <1>16, Zenon DEF PollRaises, Sound, AuthTypeOK, AllGranted, Granted, Requests, sso
    <2>3. ToExpire'
      BY <1>16, Zenon DEF PollRaises, Sound, AuthTypeOK, ToExpire, Requests
    <2>. QED BY <2>1, <2>2, <2>3, Zenon DEF Sound
  <1>17. ASSUME NEW l \in Logins, Approve(l) PROVE Sound'
    <2>1. AuthTypeOK'
      BY <1>17, Zenon DEF Approve, Sound, AuthTypeOK, Requests, sso
    <2>2. AllGranted'
      BY <1>17, Zenon DEF Approve, Sound, AuthTypeOK, AllGranted, Granted, Requests, sso
    <2>3. ToExpire'
      BY <1>17, Zenon DEF Approve, Sound, AuthTypeOK, ToExpire, Requests
    <2>. QED BY <2>1, <2>2, <2>3, Zenon DEF Sound
  <1>18. ASSUME NEW l \in Logins, Expire(l) PROVE Sound'
    <2>1. AuthTypeOK'
      BY <1>18, Zenon DEF Expire, Sound, AuthTypeOK, Requests, sso
    <2>2. AllGranted'
      BY <1>18, Zenon DEF Expire, Sound, AuthTypeOK, AllGranted, Granted, Requests, sso
    <2>3. ToExpire'
      BY <1>18, Zenon DEF Expire, Sound, AuthTypeOK, ToExpire, Requests
    <2>. QED BY <2>1, <2>2, <2>3, Zenon DEF Sound
  <1>19. ASSUME NEW l \in Logins, WaiterKilled(l) PROVE Sound'
    <2>1. AuthTypeOK'
      BY <1>19, Zenon DEF WaiterKilled, Sound, AuthTypeOK, Requests, sso
    <2>2. AllGranted'
      BY <1>19, Zenon DEF WaiterKilled, Sound, AuthTypeOK, AllGranted, Granted, Requests, sso
    <2>3. ToExpire'
      BY <1>19, Zenon DEF WaiterKilled, Sound, AuthTypeOK, ToExpire, Requests
    <2>. QED BY <2>1, <2>2, <2>3, Zenon DEF Sound
  <1>20. ASSUME NEW r \in Requests, RequestKilled(r) PROVE Sound'
    <2>1. AuthTypeOK'
      BY <1>20, Zenon DEF RequestKilled, Sound, AuthTypeOK, Requests, sso
    <2>2. AllGranted'
      BY <1>20, Zenon DEF RequestKilled, Sound, AuthTypeOK, AllGranted, Granted, Requests, sso
    <2>3. ToExpire'
      BY <1>20, Zenon DEF RequestKilled, Sound, AuthTypeOK, ToExpire, Requests
    <2>. QED BY <2>1, <2>2, <2>3, Zenon DEF Sound
  <1>21. CASE UNCHANGED authVars
    BY <1>21, Zenon DEF Sound, AuthTypeOK, AllGranted, Granted, ToExpire, authVars
  <1>. QED
    BY <1>1, <1>2, <1>3, <1>4, <1>5, <1>6, <1>7, <1>8, <1>9, <1>10, <1>11, <1>12, <1>13, <1>14, <1>15, <1>16, <1>17, <1>18, <1>19, <1>20, <1>21, Zenon
    DEF AuthNext, LoginStep, LogoutStep, StatusStep, WaiterStep

(* Every behaviour keeps the row and every instance sound. *)
THEOREM AuthSound == AuthSpec => []Sound
  BY SoundInit, SoundStep, PTL DEF AuthSpec

(* The types hold for every number of logins, logouts and status requests. *)
THEOREM AuthTypeCorrect == AuthSpec => []AuthTypeOK
  <1>1. Sound => AuthTypeOK
    BY Zenon DEF Sound
  <1>. QED BY AuthSound, <1>1, PTL

(* A row that calls itself valid or expired has a token the user authorized, *)
(* however the saves of stale instances interleave.                         *)
THEOREM AuthValidIsGranted == AuthSpec => []ValidIsGranted
  <1>1. Sound => ValidIsGranted
    BY Zenon DEF Sound, AllGranted, ValidIsGranted
  <1>. QED BY AuthSound, <1>1, PTL

(* A login whose task was queued has answered, and the task that stored the  *)
(* token of a valid row is over.                                            *)
Finished ==
    /\ \A l \in Logins : wpc[l] # "none" => pc[l] = "done"
    /\ row # NULL /\ row.status = "valid" => row.token \in Logins /\ wpc[row.token] = "done"

(* Only the last save of a waiting task makes a row valid. *)
LEMMA FinishedStep == Sound /\ Finished /\ [AuthNext]_authVars => Finished'
  <1>. SUFFICES ASSUME Sound, Finished, [AuthNext]_authVars PROVE Finished'
    BY Zenon
  <1>. USE AuthAssumption
  <1>1. \A i \in TokenRow : /\ Cleared(i).status = "none"
                           /\ \A s \in TokenStatus : Marked(i, s).status = s
    BY Zenon DEF Cleared, Marked, TokenRow
  <1>2. "none" # "valid" /\ "pending" # "valid" /\ "failed" # "valid" /\ "expired" # "valid"
        /\ {"none", "pending", "failed", "expired"} \subseteq TokenStatus
    BY DEF TokenStatus
  <1>3. ASSUME NEW r \in Requests, NEW i, i.status # "valid", NEW label, SaveAndGoto(r, i, label),
               UNCHANGED <<wpc, wmem, elapsed, sso>>, pc[r] # "done"
        PROVE  Finished'
    BY <1>3, Zenon DEF Finished, SaveAndGoto, Sound, AuthTypeOK, Requests
  <1>4. ASSUME NEW l \in Logins, NEW i, NEW label, WaiterSaves(l, i, label), wpc[l] \notin {"none", "done"},
               label # "none", i.status = "valid" => i.token = l /\ label = "done"
        PROVE  Finished'
    <2>1. \A k \in Logins : wpc'[k] = IF k = l THEN (IF Refused(i) THEN "done" ELSE label) ELSE wpc[k]
      BY <1>4, Zenon DEF WaiterSaves, Sound, AuthTypeOK
    <2>2. pc' = pc /\ row' = IF Refused(i) THEN row ELSE i
      BY <1>4, Zenon DEF WaiterSaves
    <2>3. CASE Refused(i)
      BY <1>4, <2>1, <2>2, <2>3, Zenon DEF Finished
    <2>4. CASE ~Refused(i)
      BY <1>4, <2>1, <2>2, <2>4, Zenon DEF Finished
    <2>. QED BY <2>3, <2>4, Zenon
  <1>5. ASSUME NEW l \in Logins, LoginStep(l) PROVE Finished'
    <2>1. CASE LoginFails(l)
      BY <2>1, Zenon DEF LoginFails, Finished, Sound, AuthTypeOK, Requests
    <2>2. CASE GetOrCreate(l)
      BY <2>2, <1>2, Zenon DEF GetOrCreate, Finished, Sound, AuthTypeOK, Requests
    <2>3. CASE Clear(l)
      BY <2>3, <1>1, <1>2, <1>3, Zenon DEF Clear, Sound, AuthTypeOK, Requests
    <2>4. CASE MarkPending(l)
      BY <2>4, <1>1, <1>2, <1>3, Zenon DEF MarkPending, Sound, AuthTypeOK, Requests
    <2>5. CASE Delay(l)
      BY <2>5, Zenon DEF Delay, Finished, Sound, AuthTypeOK, Requests
    <2>. QED BY <1>5, <2>1, <2>2, <2>3, <2>4, <2>5, Zenon DEF LoginStep
  <1>6. ASSUME NEW l \in Logins, WaiterStep(l) PROVE Finished'
    <2>1. CASE WaiterLoads(l)
      BY <2>1, Zenon DEF WaiterLoads, Finished, Sound, AuthTypeOK
    <2>2. CASE WaiterAnnounces(l)
      BY <2>2, <1>1, <1>2, <1>4, Zenon DEF WaiterAnnounces, Sound, AuthTypeOK
    <2>3. CASE PollGranted(l)
      BY <2>3, <1>4, Zenon DEF PollGranted, Sound, AuthTypeOK, TokenRow
    <2>4. CASE PollFails(l)
      BY <2>4, <1>1, <1>2, <1>4, Zenon DEF PollFails, Sound, AuthTypeOK
    <2>5. CASE PollPending(l)
      BY <2>5, Zenon DEF PollPending, Finished, Sound, AuthTypeOK
    <2>6. CASE WaiterTimesOut(l)
      BY <2>6, <1>1, <1>2, <1>4, Zenon DEF WaiterTimesOut, Sound, AuthTypeOK
    <2>7. CASE PollRaises(l)
      BY <2>7, Zenon DEF PollRaises, Finished, Sound, AuthTypeOK
    <2>. QED BY <1>6, <2>1, <2>2, <2>3, <2>4, <2>5, <2>6, <2>7, Zenon DEF WaiterStep
  <1>7. ASSUME NEW l \in Logins, Approve(l) \/ Expire(l) \/ WaiterKilled(l) PROVE Finished'
    <2>1. CASE Approve(l) \/ Expire(l)
      BY <2>1, Zenon DEF Approve, Expire, Finished
    <2>2. CASE WaiterKilled(l)
      <3>1. \A k \in Logins : wpc'[k] = IF k = l THEN "done" ELSE wpc[k]
        BY <2>2, Zenon DEF WaiterKilled, Sound, AuthTypeOK
      <3>. QED BY <2>2, <3>1, Zenon DEF WaiterKilled, Finished
    <2>. QED BY <1>7, <2>1, <2>2, Zenon
  <1>8. ASSUME NEW o \in Logouts, LogoutStep(o) PROVE Finished'
    BY <1>8, Zenon DEF LogoutStep, FindToDelete, Delete, Finished, Sound, AuthTypeOK, Requests
  <1>9. ASSUME NEW s \in StatusChecks, StatusStep(s) PROVE Finished'
    <2>1. CASE CheckStatus(s)
      BY <2>1, Zenon DEF CheckStatus, Finished, Sound, AuthTypeOK, Requests
    <2>2. CASE MarkExpired(s)
      BY <2>2, <1>1, <1>2, <1>3, Zenon DEF MarkExpired, Sound, AuthTypeOK, Requests
    <2>. QED BY <1>9, <2>1, <2>2, Zenon DEF StatusStep
  <1>10. ASSUME NEW r \in Requests, RequestKilled(r) PROVE Finished'
    <2>1. \A l \in Logins : pc'[l] = IF l = r THEN "done" ELSE pc[l]
      BY <1>10, Zenon DEF RequestKilled, Sound, AuthTypeOK, Requests
    <2>. QED BY <1>10, <2>1, Zenon DEF RequestKilled, Finished
  <1>11. CASE UNCHANGED authVars
    BY <1>11, Zenon DEF authVars, Finished
  <1>. QED BY <1>5, <1>6, <1>7, <1>8, <1>9, <1>10, <1>11, Zenon DEF AuthNext

(* Whoever replaces a valid row is a logout, an expiry check or another login: *)
(* the login the row is from, and its waiting task, are over.                *)
LEMMA KeptStep ==
    ASSUME Sound, Finished, AuthNext, row # NULL, row.status = "valid", row' # row
    PROVE  \/ row' = NULL
           \/ row'.status = "expired"
           \/ \E l \in Logins \ {row.token} :
                  pc[l] \notin {"idle", "done"} \/ wpc[l] \notin {"none", "done"}
  <1>. DEFINE Other == \E l \in Logins \ {row.token} :
                          pc[l] \notin {"idle", "done"} \/ wpc[l] \notin {"none", "done"}
  <1>1. pc[row.token] = "done" /\ wpc[row.token] = "done"
    BY Zenon DEF Finished
  <1>2. ASSUME NEW l \in Logins, LoginStep(l) PROVE Other
    BY <1>1, <1>2, Zenon DEF LoginStep, LoginFails, GetOrCreate, Clear, MarkPending, Delay
  <1>3. ASSUME NEW l \in Logins, WaiterStep(l) PROVE Other
    BY <1>1, <1>3, Zenon DEF WaiterStep, WaiterLoads, WaiterAnnounces, PollGranted, PollFails,
                             PollPending, WaiterTimesOut, PollRaises
  <1>4. ASSUME NEW o \in Logouts, LogoutStep(o) PROVE row' = NULL
    BY <1>4, Zenon DEF LogoutStep, FindToDelete, Delete
  <1>5. ASSUME NEW s \in StatusChecks, StatusStep(s) PROVE row'.status = "expired"
    <2>1. MarkExpired(s)
      BY <1>5, Zenon DEF StatusStep, CheckStatus
    <2>2. mem[s] \in TokenRow
      BY <2>1, Zenon DEF MarkExpired, Sound, AuthTypeOK, Requests
    <2>. QED BY <2>1, <2>2, Zenon DEF MarkExpired, SaveAndGoto, Marked, TokenRow
  <1>6. ASSUME NEW l \in Logins, Approve(l) \/ Expire(l) \/ WaiterKilled(l) PROVE FALSE
    BY <1>6, Zenon DEF Approve, Expire, WaiterKilled
  <1>7. ASSUME NEW r \in Requests, RequestKilled(r) PROVE FALSE
    BY <1>7, Zenon DEF RequestKilled
  <1>. QED BY <1>2, <1>3, <1>4, <1>5, <1>6, <1>7, Zenon DEF AuthNext

(* For any number of requests an authorized login is lost only to a logout,  *)
(* an expiry check or another login under way, whatever its own requests and *)
(* its own waiting task still save.                                         *)
THEOREM AuthValidKept == AuthSpec => ValidKept
  <1>1. AuthInit => Finished
    BY Zenon DEF AuthInit, Finished
  <1>2. AuthSpec => []Finished
    BY <1>1, AuthSound, FinishedStep, PTL DEF AuthSpec
  <1>3. Sound /\ Finished /\ [AuthNext]_authVars
        => [row # NULL /\ row.status = "valid" /\ row' # row
              => \/ row' = NULL
                 \/ row'.status = "expired"
                 \/ \E l \in Logins \ {row.token} :
                        pc[l] \notin {"idle", "done"} \/ wpc[l] \notin {"none", "done"}]_authVars
    BY KeptStep, Zenon
  <1>. QED BY AuthSound, <1>2, <1>3, PTL DEF AuthSpec, ValidKept

-----------------------------------------------------------------------------
(***************************************************************************)
(* Publishing: the inductive invariant follows a request from the POST to   *)
(* the upload, with the authorization it was made with.                     *)
(***************************************************************************)
(* What SSO has approved stays approved. *)
LEMMA ApprovedStays == [AuthNext]_authVars => approved \subseteq approved'
  BY Zenon DEF AuthNext, authVars, sso, LoginStep, LoginFails, GetOrCreate, Clear, MarkPending, Delay,
         LogoutStep, FindToDelete, Delete, StatusStep, CheckStatus, MarkExpired, WaiterStep,
         WaiterLoads, WaiterAnnounces, PollGranted, PollFails, PollPending, WaiterTimesOut,
         PollRaises, WaiterSaves, Approve, Expire, WaiterKilled, RequestKilled

(* The variables of the publishing side have their types. *)
PublishTypeOK ==
    /\ report \in {"incomplete", "complete", "nohosts"}
    /\ created \in Seq(Posts)
    /\ status \in [Posts -> PublishStatus \cup {NULL}]
    /\ ppc \in [Posts -> {"idle", "latest", "create", "delay", "done"}]
    /\ tpc \in [Posts -> {"none", "queued", "post", "refresh", "save", "done"}]
    /\ token \in [Posts -> Logins \cup {NULL}]
    /\ result \in [Posts -> {"sent", "failed", NULL}]
    /\ accepted \subseteq Posts
    /\ lost \subseteq Posts

(* A task posts with an authorized token and saves an outcome it has; what  *)
(* it is about to save as sent was taken.                                  *)
Honest(p) ==
    /\ tpc[p] = "post" => token[p] \in approved
    /\ tpc[p] \in {"refresh", "save"} => result[p] \in {"sent", "failed"}
    /\ result[p] = "sent" => p \in accepted /\ token[p] \in approved
    /\ status[p] = "sent" => p \in accepted /\ token[p] \in approved

(* Before its POST has created the row there is neither a row nor a task,   *)
(* and the task comes after the POST.                                      *)
Begun(p) ==
    /\ ppc[p] \in {"idle", "latest", "create"} => status[p] = NULL
    /\ ppc[p] \in {"idle", "latest", "create", "delay"} => tpc[p] = "none"
    /\ tpc[p] = "none" => result[p] = NULL

Inv ==
    /\ Sound
    /\ PublishTypeOK
    /\ \A p \in Posts : Honest(p) /\ Begun(p)
    /\ PendingIsOwned

(* Nothing is requested at first. *)
LEMMA InvInit == Init => Inv
  <1>. SUFFICES ASSUME Init PROVE Inv
    BY Zenon
  <1>1. Sound
    BY SoundInit, Zenon DEF Init
  <1>2. PublishTypeOK
    BY DEF Init, PublishTypeOK
  <1>3. \A p \in Posts : Honest(p) /\ Begun(p)
    BY PublishAssumption, Zenon DEF Init, Honest, Begun, PublishStatus
  <1>4. PendingIsOwned
    BY PublishAssumption, Zenon DEF Init, PendingIsOwned, PublishStatus
  <1>. QED BY <1>1, <1>2, <1>3, <1>4, Zenon DEF Inv

(* A step of one POST or of its task leaves SSO and the other requests      *)
(* alone: what is left to show is that the request itself stays in order.   *)
LEMMA StepOfOne ==
    ASSUME Inv, UNCHANGED authVars, PublishTypeOK', NEW p \in Posts,
           accepted \subseteq accepted', lost \subseteq lost',
           \A q \in Posts \ {p} :
               UNCHANGED <<status[q], ppc[q], tpc[q], token[q], result[q]>>,
           Honest(p)', Begun(p)',
           status'[p] = "pending" =>
               p \in lost' \/ ppc'[p] = "delay" \/ tpc'[p] \notin {"none", "done"}
    PROVE  Inv'
  <1>1. Sound'
    BY SoundStep, Zenon DEF Inv
  <1>2. UNCHANGED approved
    BY Zenon DEF authVars
  <1>3. ASSUME NEW q \in Posts \ {p} PROVE Honest(q)' /\ Begun(q)'
    BY <1>2, <1>3, Zenon DEF Inv, Honest, Begun
  <1>4. PendingIsOwned'
    BY Zenon DEF Inv, PendingIsOwned
  <1>. QED BY <1>1, <1>3, <1>4, Zenon DEF Inv

(* Every step of a POST, of a task and of the authorization keeps it. *)
LEMMA InvStep == Inv /\ [Next]_vars => Inv'
  <1>. SUFFICES ASSUME Inv, [Next]_vars PROVE Inv'
    BY Zenon
  <1>. USE PublishAssumption
  <1>1. CASE AuthNext /\ UNCHANGED publishVars
    <2>1. Sound' /\ approved \subseteq approved'
      BY <1>1, SoundStep, ApprovedStays, Zenon DEF Inv
    <2>2. UNCHANGED publishVars
      BY <1>1, Zenon
    <2>3. \A p \in Posts : Honest(p)' /\ Begun(p)'
      BY <2>1, <2>2, Zenon DEF Inv, Honest, Begun, publishVars
    <2>. QED BY <2>1, <2>2, <2>3, Zenon DEF Inv, PublishTypeOK, PendingIsOwned, publishVars
  <1>2. ASSUME NEW p \in Posts, CheckReason(p) PROVE Inv'
    BY <1>2, StepOfOne, Zenon DEF CheckReason, upload, Inv, PublishTypeOK, Honest, Begun, PendingIsOwned, authVars
  <1>3. ASSUME NEW p \in Posts, CheckLatest(p) PROVE Inv'
    BY <1>3, StepOfOne, Zenon DEF CheckLatest, upload, Inv, PublishTypeOK, Honest, Begun, PendingIsOwned, authVars
  <1>4. ASSUME NEW p \in Posts, CreateRequest(p) PROVE Inv'
    BY <1>4, StepOfOne DEF CreateRequest, upload, Inv, PublishTypeOK, Honest, Begun, PublishStatus, authVars
  <1>5. ASSUME NEW p \in Posts, DelayPublish(p) PROVE Inv'
    BY <1>5, StepOfOne DEF DelayPublish, Inv, PublishTypeOK, Honest, Begun, authVars
  <1>6. ASSUME NEW p \in Posts, GetAuthToken(p) PROVE Inv'
    <2>1. row # NULL /\ row.token # NULL => row.token \in approved /\ row.token \in Logins
      BY Zenon DEF Inv, Sound, AllGranted, Granted, AuthTypeOK, TokenRow
    <2>2. PublishTypeOK'
      BY <1>6, <2>1, Zenon DEF GetAuthToken, Outcome, Inv, PublishTypeOK
    <2>3. UNCHANGED <<approved, accepted, lost, status, ppc>> /\ UNCHANGED authVars
      BY <1>6, Zenon DEF GetAuthToken, authVars
    <2>4. Honest(p)' /\ Begun(p)' /\ tpc'[p] \notin {"none", "done"}
      BY <1>6, <2>1, <2>3, Zenon DEF GetAuthToken, Outcome, Inv, PublishTypeOK, Honest, Begun
    <2>5. \A q \in Posts \ {p} :
              UNCHANGED <<status[q], ppc[q], tpc[q], token[q], result[q]>>
      BY <1>6, <2>3, Zenon DEF GetAuthToken, Outcome, Inv, PublishTypeOK
    <2>. QED BY <2>2, <2>3, <2>4, <2>5, StepOfOne, Zenon
  <1>7. ASSUME NEW p \in Posts, PostAccepted(p) PROVE Inv'
    BY <1>7, StepOfOne, Zenon DEF PostAccepted, Outcome, Inv, PublishTypeOK, Honest, Begun, authVars
  <1>8. ASSUME NEW p \in Posts, PostAnswerLost(p) PROVE Inv'
    BY <1>8, StepOfOne, Zenon DEF PostAnswerLost, Outcome, Inv, PublishTypeOK, Honest, Begun, authVars
  <1>9. ASSUME NEW p \in Posts, PostRefused(p) PROVE Inv'
    BY <1>9, StepOfOne, Zenon DEF PostRefused, Outcome, Inv, PublishTypeOK, Honest, Begun, authVars
  <1>10. ASSUME NEW p \in Posts, Refresh(p) PROVE Inv'
    BY <1>10, StepOfOne, Zenon DEF Refresh, Inv, PublishTypeOK, Honest, Begun, PendingIsOwned, authVars
  <1>11. ASSUME NEW p \in Posts, SaveResult(p) PROVE Inv'
    BY <1>11, StepOfOne, Zenon DEF SaveResult, Inv, PublishTypeOK, PublishStatus, Honest, Begun, authVars
  <1>12. ASSUME NEW p \in Posts, PostKilled(p) PROVE Inv'
    BY <1>12, StepOfOne, Zenon DEF PostKilled, Inv, PublishTypeOK, Honest, Begun, authVars
  <1>13. ASSUME NEW p \in Posts, TaskKilled(p) PROVE Inv'
    BY <1>13, StepOfOne, Zenon DEF TaskKilled, Inv, PublishTypeOK, Honest, Begun, authVars
  <1>14. CASE ReportReady
    <2>1. Sound' /\ UNCHANGED approved
      BY <1>14, SoundStep, Zenon DEF ReportReady, Inv, authVars
    <2>2. PublishTypeOK'
      BY <1>14, Zenon DEF ReportReady, Inv, PublishTypeOK, upload
    <2>3. \A p \in Posts : Honest(p)' /\ Begun(p)'
      BY <1>14, <2>1, Zenon DEF ReportReady, Inv, Honest, Begun, upload
    <2>4. PendingIsOwned'
      BY <1>14, Zenon DEF ReportReady, Inv, PendingIsOwned, upload
    <2>. QED BY <2>1, <2>2, <2>3, <2>4, Zenon DEF Inv
  <1>15. CASE UNCHANGED vars
    <2>1. UNCHANGED authVars /\ UNCHANGED publishVars
      BY <1>15, Zenon DEF vars
    <2>2. Sound' /\ UNCHANGED approved
      BY <2>1, SoundStep, Zenon DEF Inv, authVars
    <2>. QED BY <2>1, <2>2, Zenon DEF Inv, PublishTypeOK, Honest, Begun, PendingIsOwned, publishVars
  <1>. QED
    BY Zenon, <1>1, <1>2, <1>3, <1>4, <1>5, <1>6, <1>7, <1>8, <1>9, <1>10, <1>11, <1>12, <1>13,
       <1>14, <1>15
    DEF Next, PostStep, TaskStep

(* Every behaviour of logins, logouts and uploads keeps the requests in order. *)
THEOREM PublishInv == Spec => []Inv
  BY InvInit, InvStep, PTL DEF Spec

(* The rows, labels and outcomes are those of the handlers, for every set of   *)
(* requests.                                                                *)
THEOREM PublishTypeCorrect == Spec => []TypeOK
  <1>1. Inv => TypeOK
    BY Zenon DEF Inv, Sound, PublishTypeOK, TypeOK
  <1>. QED BY PublishInv, <1>1, PTL

(* A request is saved as sent only when ingress took its upload with a token   *)
(* the user authorized.                                                     *)
THEOREM PublishSentMeansAccepted == Spec => []SentMeansAccepted
  <1>1. Inv => SentMeansAccepted
    BY Zenon DEF Inv, Honest, SentMeansAccepted
  <1>. QED BY PublishInv, <1>1, PTL

(* A pending request has a POST or a task that will settle it, or one of them  *)
(* was killed.                                                              *)
THEOREM PublishPendingIsOwned == Spec => []PendingIsOwned
  <1>1. Inv => PendingIsOwned
    BY Zenon DEF Inv
  <1>. QED BY PublishInv, <1>1, PTL

=============================================================================
