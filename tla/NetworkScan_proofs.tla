------------------------- MODULE NetworkScan_proofs -------------------------
(***************************************************************************)
(* For any hosts, number of credentials and size of the Ansible runs: while  *)
(* credentials are tried no host is counted twice or forgotten, a host is    *)
(* recorded as failed without a credential only after all of them, and the   *)
(* inspection leaves one result for each host that was connected.            *)
(***************************************************************************)
EXTENDS NetworkScan, FiniteSetTheorems, TLAPS

(* The phases in which hosts are being connected to. *)
Connecting == {"credentials", "connect", "connecting"}

ConnectTypeOK ==
    /\ cred \in 0..Credentials
    /\ remaining \subseteq Hosts
    /\ todo \subseteq Hosts
    /\ playing \subseteq Hosts
    /\ conn \in [Hosts -> ConnRow \cup {NULL}]
    /\ tried \in [Hosts -> SUBSET (1..Credentials)]
    /\ phase \in Connecting \cup {"begin", "inspect"} =>
          stats \in [{"count", "scanned", "failed", "unreachable"} -> Nat]

(* Nothing has happened to any host yet. *)
Untouched ==
    phase = "begin" =>
        /\ cred = 0
        /\ \A h \in Hosts : conn[h] = NULL /\ tried[h] = {}

(* A host that remains was tried with the credentials before the current     *)
(* one, and with that one too unless its group is still to come; a host that  *)
(* is playing in a run, or waits for one, remains.                          *)
InTurn ==
    /\ phase = "credentials" => \A h \in remaining : tried[h] = 1..cred
    /\ phase \in {"connect", "connecting"} =>
          /\ cred \in 1..Credentials
          /\ todo \subseteq remaining
          /\ \A h \in remaining : tried[h] = IF h \in todo THEN 1..(cred - 1) ELSE 1..cred
    /\ phase = "connecting" => playing \subseteq remaining \ todo

Inv == ConnectTypeOK /\ Untouched /\ InTurn /\ ConnectAccounted /\ FailedWithAll

(* The sets of hosts with a result are finite. *)
LEMMA FiniteHosts ==
    /\ IsFiniteSet(Hosts)
    /\ \A S \in SUBSET Hosts : IsFiniteSet(S) /\ Cardinality(S) \in Nat
  BY NetworkAssumption, FS_Subset, FS_CardinalityType, Zenon DEF Hosts

(* The elements of two finite sets without common ones add up. *)
LEMMA TwoParts ==
    ASSUME NEW A, NEW B, IsFiniteSet(A), IsFiniteSet(B), A \cap B = {}
    PROVE  Cardinality(A \cup B) = Cardinality(A) + Cardinality(B)
  <1>1. Cardinality(A \cup B) = Cardinality(A) + Cardinality(B) - Cardinality(A \cap B)
    BY FS_Union, Zenon
  <1>2. Cardinality(A \cap B) = 0
    BY FS_EmptySet, Zenon
  <1>3. Cardinality(A) \in Nat /\ Cardinality(B) \in Nat
    BY FS_CardinalityType, Zenon
  <1>. QED BY <1>1, <1>2, <1>3

(* The counter that a status increments. *)
LEMMA Counters ==
    /\ Counter("success") = "scanned"
    /\ Counter("unreachable") = "unreachable"
    /\ Counter("failed") = "failed"
  BY Zenon DEF Counter

(* The invariant holds before the task begins. *)
LEMMA InvInit == Init => Inv
  BY NetworkAssumption
  DEF Init, Inv, ConnectTypeOK, Untouched, InTurn, ConnectAccounted, FailedWithAll, Zero,
      Connecting

(* A step that leaves the connections alone, and goes on to the inspection or  *)
(* the end, has nothing left to account for.                                *)
LEMMA Leaves ==
    ASSUME Inv, phase' \notin Connecting \cup {"begin", "inspect"}, todo' \subseteq Hosts,
           playing' \subseteq Hosts, UNCHANGED connectVars
    PROVE  Inv'
  BY Zenon DEF Inv, ConnectTypeOK, Untouched, InTurn, ConnectAccounted, FailedWithAll, Connecting,
         connectVars

(* ConnectResultStore.__init__ *)
LEMMA Begins == Inv /\ Begin => Inv'
  <1>. SUFFICES ASSUME Inv, Begin PROVE Inv'
    BY Zenon
  <1>. USE DEF Inv, Begin
  <1>1. Cardinality(Hosts) \in Nat
    BY FiniteHosts, Zenon
  <1>2. \A s \in ConnStatus : WithConn(s)' = {}
    BY NetworkAssumption, Zenon DEF WithConn, Untouched
  <1>3. \A s \in ConnStatus : stats'[Counter(s)] = 0
    BY Counters DEF ConnStatus, Zero
  <1>4. ConnectAccounted'
    BY <1>2, <1>3, FS_EmptySet, Zenon DEF ConnectAccounted, Untouched
  <1>5. ConnectTypeOK'
    BY <1>1 DEF ConnectTypeOK, Zero
  <1>. QED
    BY <1>4, <1>5 DEF Untouched, InTurn, FailedWithAll

(* The next credential is tried on the hosts that remain. *)
LEMMA TriesNext == Inv /\ NextCredential => Inv'
  <1>. SUFFICES ASSUME Inv, NextCredential PROVE Inv'
    BY Zenon
  <1>. USE DEF Inv, NextCredential, inspectVars
  <1>1. ConnectTypeOK' /\ Untouched' /\ FailedWithAll'
    BY NetworkAssumption DEF ConnectTypeOK, Untouched, FailedWithAll, Connecting
  <1>2. InTurn'
    BY NetworkAssumption DEF InTurn, ConnectTypeOK
  <1>3. ConnectAccounted'
    BY Zenon DEF ConnectAccounted, WithConn
  <1>. QED BY <1>1, <1>2, <1>3, Zenon

(* A group of hosts is tried with the credential. *)
LEMMA StartsGroup == Inv /\ ConnectGroup => Inv'
  <1>. SUFFICES ASSUME Inv, ConnectGroup PROVE Inv'
    BY Zenon
  <1>. PICK G \in SUBSET todo :
          /\ playing' = G
          /\ todo' = todo \ G
          /\ tried' = [h \in Hosts |-> IF h \in G THEN tried[h] \cup {cred} ELSE tried[h]]
    BY Zenon DEF ConnectGroup
  <1>1. /\ phase = "connect" /\ phase' = "connecting"
        /\ UNCHANGED <<cred, remaining, anySuccess, conn, stats>>
    BY Zenon DEF ConnectGroup
  <1>2. cred \in 1..Credentials /\ todo \subseteq remaining
    BY <1>1, Zenon DEF Inv, InTurn
  <1>3. ConnectTypeOK' /\ Untouched'
    BY <1>1, <1>2, Zenon DEF Inv, ConnectTypeOK, Untouched, Connecting
  <1>4. InTurn'
    <2>1. (1..(cred - 1)) \cup {cred} = 1..cred
      BY <1>2, NetworkAssumption
    <2>2. ASSUME NEW h \in remaining
          PROVE  tried'[h] = IF h \in todo' THEN 1..(cred - 1) ELSE 1..cred
      BY <1>1, <1>2, <2>1, Zenon DEF Inv, InTurn, ConnectTypeOK
    <2>. QED BY <1>1, <1>2, <2>2, Zenon DEF InTurn
  <1>5. ConnectAccounted'
    BY <1>1, Zenon DEF Inv, ConnectAccounted, WithConn
  <1>6. FailedWithAll'
    BY <1>1, <1>2, Zenon DEF Inv, FailedWithAll, ConnectTypeOK, ConnectAccounted
  <1>. QED BY <1>3, <1>4, <1>5, <1>6, Zenon DEF Inv

(* record_result counts a host that had no result. *)
LEMMA Records ==
    ASSUME Inv, NEW h \in Hosts, NEW s \in {"success", "unreachable"}, ConnectResult(h, s)
    PROVE  Inv'
  <1>. USE DEF ConnectResult, RecordResult
  <1>1. /\ phase = "connecting" /\ phase' = "connecting"
        /\ h \in remaining /\ h \notin todo /\ cred \in 1..Credentials
        /\ conn[h] = NULL
    BY Zenon DEF Inv, InTurn, ConnectAccounted
  <1>2. [credential |-> cred, status |-> s] \in ConnRow /\ cred # NULL
    BY <1>1, NetworkAssumption, Zenon DEF ConnRow, ConnStatus
  <1>3. /\ conn' = [conn EXCEPT ![h] = [credential |-> cred, status |-> s]]
        /\ conn' \in [Hosts -> ConnRow \cup {NULL}]
        /\ conn'[h] # NULL /\ conn'[h].status = s /\ conn'[h].credential = cred
        /\ \A g \in Hosts \ {h} : conn'[g] = conn[g]
    BY <1>2, NetworkAssumption, Zenon DEF Inv, ConnectTypeOK
  <1>4. stats \in [{"count", "scanned", "failed", "unreachable"} -> Nat]
    BY <1>1, Zenon DEF Inv, ConnectTypeOK, Connecting
  <1>5. stats' = [stats EXCEPT ![Counter(s)] = @ + 1]
    BY Zenon DEF Increment
  <1>6. ConnectTypeOK'
    BY <1>1, <1>3, <1>4, <1>5, Counters DEF Inv, ConnectTypeOK
  <1>7. Untouched' /\ InTurn'
    BY <1>1, Zenon DEF Inv, Untouched, InTurn, ConnectTypeOK
  <1>8. ConnectAccounted'
    <2>1. WithConn(s)' = WithConn(s) \cup {h} /\ h \notin WithConn(s)
      BY <1>1, <1>3, Zenon DEF WithConn
    <2>2. \A r \in ConnStatus \ {s} : WithConn(r)' = WithConn(r)
      BY <1>1, <1>3, Zenon DEF WithConn
    <2>3. WithConn(s) \in SUBSET Hosts
      BY Zenon DEF WithConn
    <2>4. Cardinality(WithConn(s)') = Cardinality(WithConn(s)) + 1
      BY <2>1, <2>3, FiniteHosts, FS_AddElement, Zenon
    <2>5. \A r \in ConnStatus : stats[Counter(r)] = Cardinality(WithConn(r))
      BY <1>1, Zenon DEF Inv, ConnectAccounted
    <2>6. \A r \in ConnStatus : stats'[Counter(r)] = Cardinality(WithConn(r)')
      BY <1>4, <1>5, <2>2, <2>4, <2>5, Counters, Zenon DEF ConnStatus
    <2>7. remaining' = {g \in Hosts : conn'[g] = NULL}
      BY <1>1, <1>3, Zenon DEF Inv, ConnectAccounted
    <2>. QED BY <1>1, <2>6, <2>7, Zenon DEF ConnectAccounted
  <1>9. FailedWithAll'
    BY <1>2, <1>3, Zenon DEF Inv, FailedWithAll
  <1>. QED BY <1>6, <1>7, <1>8, <1>9, Zenon DEF Inv

(* The hosts that remain at the end have been tried with everything. *)
LEMMA EndsCredentials == Inv /\ ConnectDone => Inv'
  <1>. SUFFICES ASSUME Inv, ConnectDone PROVE Inv'
    BY Zenon
  <1>. USE DEF ConnectDone
  <1>1. /\ phase = "credentials" /\ phase' = "inspect" /\ remaining' = {}
        /\ remaining = {g \in Hosts : conn[g] = NULL}
        /\ \A h \in remaining : tried[h] = 1..Credentials
    BY NetworkAssumption, Zenon DEF Inv, InTurn, ConnectAccounted
  <1>2. [credential |-> NULL, status |-> "failed"] \in ConnRow
    BY Zenon DEF ConnRow, ConnStatus
  <1>3. /\ conn' \in [Hosts -> ConnRow]
        /\ \A g \in remaining : conn'[g].status = "failed"
        /\ \A g \in Hosts \ remaining : conn'[g] = conn[g]
    BY <1>1, <1>2, Zenon DEF Inv, ConnectTypeOK
  <1>4. stats \in [{"count", "scanned", "failed", "unreachable"} -> Nat]
    BY <1>1, Zenon DEF Inv, ConnectTypeOK, Connecting
  <1>5. stats' = [stats EXCEPT !["failed"] = @ + Cardinality(remaining)]
    BY Counters, Zenon DEF Increment
  <1>6. Cardinality(remaining) \in Nat
    BY FiniteHosts, Zenon DEF Inv, ConnectTypeOK
  <1>7. ConnectTypeOK'
    BY <1>1, <1>3, <1>4, <1>5, <1>6 DEF Inv, ConnectTypeOK
  <1>8. Untouched' /\ InTurn' /\ FailedWithAll'
    BY <1>1, <1>3, Zenon DEF Inv, Untouched, InTurn, FailedWithAll
  <1>9. ConnectAccounted'
    <2>1. WithConn("failed")' = WithConn("failed") \cup remaining
      BY <1>1, <1>3, NetworkAssumption, Zenon DEF WithConn
    <2>2. WithConn("failed") \cap remaining = {}
      BY <1>1, Zenon DEF WithConn
    <2>3. \A r \in ConnStatus \ {"failed"} : WithConn(r)' = WithConn(r)
      BY <1>1, <1>3, NetworkAssumption, Zenon DEF WithConn
    <2>4. WithConn("failed") \in SUBSET Hosts /\ remaining \in SUBSET Hosts
      BY Zenon DEF WithConn, Inv, ConnectTypeOK
    <2>5. Cardinality(WithConn("failed")') = Cardinality(WithConn("failed")) + Cardinality(remaining)
      <3>1. IsFiniteSet(WithConn("failed")) /\ IsFiniteSet(remaining)
        BY <2>4, FiniteHosts, Zenon
      <3>2. Cardinality(WithConn("failed") \cup remaining)
              = Cardinality(WithConn("failed")) + Cardinality(remaining)
        BY <2>2, <3>1, TwoParts, Zenon
      <3>. QED BY <2>1, <3>2, Zenon
    <2>6. \A r \in ConnStatus : stats[Counter(r)] = Cardinality(WithConn(r))
      BY <1>1, Zenon DEF Inv, ConnectAccounted
    <2>7. \A r \in ConnStatus : stats'[Counter(r)] = Cardinality(WithConn(r)')
      BY <1>4, <1>5, <1>6, <2>3, <2>5, <2>6, Counters, Zenon DEF ConnStatus
    <2>8. {} = {g \in Hosts : conn'[g] = NULL}
      BY <1>3, NetworkAssumption, Zenon
    <2>. QED BY <1>1, <2>7, <2>8, Zenon DEF ConnectAccounted
  <1>. QED BY <1>7, <1>8, <1>9, Zenon DEF Inv

(* Every step keeps the invariant: a run's other events leave the results    *)
(* alone, and the inspection does not touch the connections.                 *)
LEMMA InvStep == Inv /\ [Next]_vars => Inv'
  <1>. SUFFICES ASSUME Inv, [Next]_vars PROVE Inv'
    BY Zenon
  <1>1. ASSUME NEW h \in Hosts, ConnectDenied(h) PROVE Inv'
    BY <1>1, Zenon DEF ConnectDenied, connectVars, Inv, ConnectTypeOK, Untouched, InTurn,
                ConnectAccounted, FailedWithAll, WithConn
  <1>2. CASE ConnectGroupEnds
    BY <1>2, Zenon DEF ConnectGroupEnds, Inv, ConnectTypeOK, Untouched, InTurn,
                ConnectAccounted, FailedWithAll, WithConn, Connecting
  <1>3. CASE ConnectGroupBreaks
    <2>1. CASE phase' = "connect"
      BY <1>3, <2>1, Zenon DEF ConnectGroupBreaks, Inv, ConnectTypeOK, Untouched, InTurn,
                        ConnectAccounted, FailedWithAll, WithConn, Connecting
    <2>2. CASE phase' = "done"
      BY <1>3, <2>2, Zenon DEF ConnectGroupBreaks, Inv, ConnectTypeOK, Untouched, InTurn,
                        ConnectAccounted, FailedWithAll, Connecting
    <2>. QED BY <1>3, <2>1, <2>2, Zenon DEF ConnectGroupBreaks, Finish
  <1>4. CASE ConnectRaises
    BY <1>4, Leaves, Zenon DEF ConnectRaises, Finish, Inv, ConnectTypeOK, Connecting
  <1>5. CASE CredentialDone
    <2>1. CASE phase' = "credentials"
      BY <1>5, <2>1, Zenon DEF CredentialDone, connectVars, Inv, ConnectTypeOK, Untouched, InTurn,
                        ConnectAccounted, FailedWithAll, WithConn, Connecting
    <2>2. CASE phase' = "done"
      BY <1>5, <2>2, Leaves, Zenon DEF CredentialDone, Inv, ConnectTypeOK, Connecting
    <2>. QED BY <1>5, <2>1, <2>2, Zenon DEF CredentialDone, Finish
  <1>6. CASE InspectBegins
    <2>1. phase' \in {"done", "groups"} /\ todo' \subseteq Hosts
      BY <1>6, Zenon DEF InspectBegins, Finish, Connected, Inv, ConnectTypeOK
    <2>. QED BY <1>6, <2>1, Leaves, Zenon DEF InspectBegins, Inv, ConnectTypeOK, Connecting
  <1>7. CASE InspectGroup
    <2>1. todo' \subseteq Hosts /\ playing' \subseteq Hosts
      BY <1>7, Zenon DEF InspectGroup, Inv, ConnectTypeOK
    <2>. QED BY <1>7, <2>1, Leaves, Zenon DEF InspectGroup, Connecting
  <1>8. ASSUME NEW h \in Hosts, FactArrives(h) \/ HostUnreachable(h) \/ HostFails(h)
        PROVE  Inv'
    <2>1. /\ phase' = "inspecting" /\ todo' \subseteq Hosts /\ playing' \subseteq Hosts
          /\ UNCHANGED connectVars
      BY <1>8, Zenon DEF FactArrives, HostUnreachable, HostFails, Inv, ConnectTypeOK
    <2>. QED BY <2>1, Leaves, Zenon DEF Connecting
  <1>9. CASE InspectGroupEnds \/ InspectRaises \/ InspectDone
    <2>1. /\ phase' \in {"groups", "done"} /\ todo' \subseteq Hosts /\ playing' \subseteq Hosts
          /\ UNCHANGED connectVars
      BY <1>9, Zenon DEF InspectGroupEnds, InspectRaises, InspectDone, Finish, Inv, ConnectTypeOK
    <2>. QED BY <2>1, Leaves, Zenon DEF Connecting
  <1>10. CASE UNCHANGED vars
    BY <1>10, Zenon DEF vars, connectVars, Inv, ConnectTypeOK, Untouched, InTurn,
                 ConnectAccounted, FailedWithAll, WithConn
  <1>. QED
    BY Zenon, <1>1, <1>2, <1>3, <1>4, <1>5, <1>6, <1>7, <1>8, <1>9, <1>10,
       Begins, TriesNext, StartsGroup, Records, EndsCredentials
    DEF Next, ConnectStep, InspectStep

(* The inductive invariant holds in every reachable state. *)
THEOREM NetworkInv == Spec => []Inv
  BY InvInit, InvStep, PTL DEF Spec

(* While credentials are tried, whatever runs end, time out or fail, the     *)
(* counters of the task are the numbers of hosts with a result and the       *)
(* remaining hosts are exactly those without one.                           *)
THEOREM ConnectAlwaysAccounted == Spec => []ConnectAccounted
  BY NetworkInv, PTL DEF Inv

(* run_with_result_store records a host as failed without a credential only  *)
(* when each credential of the source was tried on it.                      *)
THEOREM FailedOnlyWithAll == Spec => []FailedWithAll
  BY NetworkInv, PTL DEF Inv

-----------------------------------------------------------------------------
(* The inspection *)

(* The hosts with an InspectResult of that status. *)
WithResult(s) == {h \in Hosts : \E r \in results[h] : r.status = s}

(* The first row of a host. *)
FirstRow == [id: {1}, status: ConnStatus, identified: BOOLEAN]

(* The hosts of the inspection that have not been reported on. *)
Waiting == IF phase = "inspecting" THEN todo \cup members ELSE todo

(* A host has at most one row, in the end exactly one if it was connected;   *)
(* the hosts that wait have none, and a success is identified.              *)
ResultRows ==
    /\ results \in [Hosts -> SUBSET FirstRow]
    /\ \A h \in Hosts : \A q, r \in results[h] : q = r
    /\ \A h \in Hosts : \A r \in results[h] : r.status = "success" => r.identified
    /\ \A h \in Hosts : results[h] # {} => h \in Connected
    /\ phase \notin {"groups", "inspecting", "done"} => \A h \in Hosts : results[h] = {}
    /\ phase \in {"groups", "inspecting"} =>
          /\ todo \subseteq Connected
          /\ \A h \in Waiting : results[h] = {}
    /\ phase = "inspecting" => members \subseteq Connected \ todo
    /\ phase = "done" /\ (\E h \in Hosts : results[h] # {}) =>
          \A h \in Connected : results[h] # {}

(* The counters are the numbers of hosts with such a row, up to the cleanup;  *)
(* that keeps the successes.                                               *)
Counted ==
    /\ phase \in {"groups", "inspecting"} =>
          /\ stats \in [{"count", "scanned", "failed", "unreachable"} -> Nat]
          /\ stats.count = Cardinality(Connected)
          /\ \A s \in ConnStatus : stats[Counter(s)] = Cardinality(WithResult(s))
    /\ phase = "done" /\ (\E h \in Hosts : results[h] # {}) => ScannedAccounted

InspectInv == ResultRows /\ Counted

(* Three sets without common elements have no more elements than a set that  *)
(* contains them.                                                          *)
LEMMA ThreeParts ==
    ASSUME NEW S, IsFiniteSet(S), NEW A \in SUBSET S, NEW B \in SUBSET S, NEW C \in SUBSET S,
           A \cap B = {}, A \cap C = {}, B \cap C = {}
    PROVE  Cardinality(A) + Cardinality(B) + Cardinality(C) <= Cardinality(S)
  <1>1. /\ IsFiniteSet(A) /\ IsFiniteSet(B) /\ IsFiniteSet(C) /\ IsFiniteSet(A \cup B)
        /\ Cardinality(A \cup B \cup C) <= Cardinality(S)
    BY FS_Subset, Zenon
  <1>2. /\ Cardinality(A) \in Nat /\ Cardinality(B) \in Nat /\ Cardinality(C) \in Nat
        /\ Cardinality(A \cup B) \in Nat
    BY <1>1, FS_CardinalityType, Zenon
  <1>3. Cardinality(A \cup B) = Cardinality(A) + Cardinality(B)
    BY <1>1, TwoParts, Zenon
  <1>4. (A \cup B) \cap C = {}
    BY Zenon
  <1>5. Cardinality(A \cup B \cup C) = Cardinality(A \cup B) + Cardinality(C)
    BY <1>1, <1>4, TwoParts, Zenon
  <1>. QED BY <1>1, <1>2, <1>3, <1>5, Zenon

(* While hosts are inspected the counters of rows fit the systems counted. *)
LEMMA CountsFit ==
    ASSUME InspectInv, phase \in {"groups", "inspecting"}
    PROVE  ScannedAccounted
  <1>1. /\ IsFiniteSet(Connected)
        /\ \A s \in ConnStatus : WithResult(s) \in SUBSET Connected
    BY FiniteHosts, Zenon DEF Connected, WithResult, InspectInv, ResultRows
  <1>2. \A s, t \in ConnStatus : s # t => WithResult(s) \cap WithResult(t) = {}
    BY DEF WithResult, InspectInv, ResultRows
  <1>3. Cardinality(WithResult("success")) + Cardinality(WithResult("failed"))
          + Cardinality(WithResult("unreachable")) <= Cardinality(Connected)
    BY <1>1, <1>2, ThreeParts, Zenon DEF ConnStatus
  <1>4. /\ stats.scanned = Cardinality(WithResult("success"))
        /\ stats.failed = Cardinality(WithResult("failed"))
        /\ stats.unreachable = Cardinality(WithResult("unreachable"))
        /\ stats.count = Cardinality(Connected)
    BY Counters, Zenon DEF InspectInv, Counted, ConnStatus
  <1>. QED BY <1>3, <1>4, Zenon DEF ScannedAccounted, WithResult

(* The rows are empty until the inspection begins. *)
LEMMA BeforeInspection ==
    ASSUME InspectInv, phase \notin {"groups", "inspecting", "done"},
           phase' \notin {"groups", "inspecting"}, UNCHANGED results
    PROVE  InspectInv'
  BY Zenon DEF InspectInv, ResultRows, Counted

(* The events of a run, and one that raises, leave rows and counters alone. *)
LEMMA RowsAlone ==
    ASSUME InspectInv, phase \in {"groups", "inspecting"}, phase' \in {"groups", "inspecting"},
           UNCHANGED <<results, stats, conn>>,
           todo' \subseteq todo,
           phase' = "inspecting" => members' \subseteq Waiting \ todo'
    PROVE  InspectInv'
  <1>1. Connected' = Connected /\ \A s : WithResult(s)' = WithResult(s)
    BY Zenon DEF Connected, WithResult
  <1>2. Counted'
    BY <1>1, Zenon DEF InspectInv, Counted
  <1>3. Waiting \subseteq Connected /\ Connected \subseteq Hosts
    BY Zenon DEF InspectInv, ResultRows, Waiting, Connected
  <1>4. Waiting' \subseteq Waiting
    BY Zenon DEF Waiting
  <1>5. ResultRows'
    BY <1>1, <1>3, <1>4, Zenon DEF InspectInv, ResultRows
  <1>. QED BY <1>2, <1>5, Zenon DEF InspectInv

(* The counters start again when the inspection begins. *)
LEMMA BeginsInspection == InspectInv /\ InspectBegins => InspectInv'
  <1>. SUFFICES ASSUME InspectInv, InspectBegins PROVE InspectInv'
    BY Zenon
  <1>1. CASE Connected = {}
    BY <1>1, BeforeInspection, Zenon DEF InspectBegins, Finish, inspectVars
  <1>2. CASE Connected # {}
    <2>1. /\ phase = "inspect" /\ phase' = "groups" /\ todo' = Connected
          /\ stats' = [Zero EXCEPT !.count = Cardinality(Connected)]
          /\ UNCHANGED <<conn, results>>
      BY <1>2, Zenon DEF InspectBegins, connectVars, inspectVars
    <2>2. Connected' = Connected /\ Connected \subseteq Hosts
      BY <2>1, Zenon DEF Connected
    <2>3. \A h \in Hosts : results'[h] = {}
      BY <2>1, Zenon DEF InspectInv, ResultRows
    <2>4. Cardinality(Connected) \in Nat
      BY <2>2, FiniteHosts, Zenon
    <2>5. \A s \in ConnStatus : WithResult(s)' = {} /\ stats'[Counter(s)] = 0
      BY <2>1, <2>3, Counters DEF WithResult, Zero, ConnStatus
    <2>6. Counted'
      BY <2>1, <2>2, <2>4, <2>5, FS_EmptySet DEF Counted, Zero
    <2>7. ResultRows'
      BY <2>1, <2>2, <2>3, Zenon DEF InspectInv, ResultRows, Waiting
    <2>. QED BY <2>6, <2>7, Zenon DEF InspectInv
  <1>. QED BY <1>1, <1>2, Zenon

(* _persist_results adds a row to hosts that had none, and counts them. *)
LEMMA Persists == InspectInv /\ InspectGroupEnds => InspectInv'
  <1>. SUFFICES ASSUME InspectInv, InspectGroupEnds PROVE InspectInv'
    BY Zenon
  <1> DEFINE Row(h) == [id |-> 1, status |-> HostStatus(h),
                        identified |-> facts[h] \in {"identified", "done"}]
  <1> DEFINE New(s) == {h \in Reported : HostStatus(h) = s}
  <1>1. /\ phase = "inspecting" /\ phase' = "groups"
        /\ UNCHANGED <<todo, members, conn>>
        /\ PersistResults
    BY Zenon DEF InspectGroupEnds, connectVars
  <1>2. Reported \subseteq members /\ members \subseteq Connected /\ Connected \subseteq Hosts
    BY <1>1, Zenon DEF InspectInv, ResultRows, Reported, Connected
  <1>3. \A h \in Reported : results[h] = {} /\ HostStatus(h) \in ConnStatus
    BY <1>1, <1>2, Zenon DEF InspectInv, ResultRows, Waiting, HostStatus, ConnStatus
  <1>4. \A h \in Reported : results'[h] = {Row(h)}
    <2>1. \A h \in Reported :
             results'[h] = WithRow({}, HostStatus(h), facts[h] \in {"identified", "done"})
      BY <1>1, <1>2, <1>3, Zenon DEF PersistResults
    <2>. QED BY <2>1, FS_EmptySet DEF WithRow
  <1>5. \A h \in Hosts \ Reported : results'[h] = results[h]
    BY <1>1, Zenon DEF PersistResults
  <1>6. ASSUME NEW h \in Reported
        PROVE  Row(h) \in FirstRow /\ (Row(h).status = "success" => Row(h).identified)
    <2>1. Row(h) \in FirstRow
      BY <1>3 DEF FirstRow
    <2>2. HostStatus(h) = "success" => facts[h] = "done"
      BY Zenon DEF HostStatus
    <2>. QED BY <2>1, <2>2, Zenon
  <1>7. \A h \in Reported : Row(h).status = HostStatus(h)
    BY Zenon
  <1>8. Connected' = Connected
    BY <1>1, Zenon DEF Connected
  <1> HIDE DEF Row
  <1>9. ResultRows'
    <2>1. results' \in [Hosts -> SUBSET FirstRow]
      <3>1. \A h \in Hosts : results'[h] \subseteq FirstRow
        BY <1>4, <1>5, <1>6 DEF InspectInv, ResultRows
      <3>2. results' = [h \in Hosts |-> results'[h]]
        BY <1>1, Zenon DEF PersistResults
      <3>. QED BY <3>1, <3>2, Zenon
    <2>2. \A h \in Hosts : \A q, r \in results'[h] : q = r
      BY <1>4, <1>5, Zenon DEF InspectInv, ResultRows
    <2>3. \A h \in Hosts : \A r \in results'[h] : r.status = "success" => r.identified
      BY <1>4, <1>5, <1>6 DEF InspectInv, ResultRows
    <2>4. \A h \in Hosts : results'[h] # {} => h \in Connected
      BY <1>2, <1>5, Zenon DEF InspectInv, ResultRows
    <2>5. todo \subseteq Connected /\ \A h \in todo : results'[h] = {}
      <3>1. todo \cap members = {}
        BY <1>1, Zenon DEF InspectInv, ResultRows
      <3>. QED BY <1>1, <1>2, <1>5, <3>1, Zenon DEF InspectInv, ResultRows, Waiting
    <2>. QED BY <1>1, <1>8, <2>1, <2>2, <2>3, <2>4, <2>5, Zenon DEF ResultRows, Waiting
  <1>10. Counted'
    <2>1. ASSUME NEW s \in ConnStatus
          PROVE  Cardinality(WithResult(s)') = Cardinality(WithResult(s)) + Cardinality(New(s))
      <3>1. WithResult(s)' = WithResult(s) \cup New(s) /\ WithResult(s) \cap New(s) = {}
        BY <1>2, <1>3, <1>4, <1>5, <1>7 DEF WithResult
      <3>2. IsFiniteSet(WithResult(s)) /\ IsFiniteSet(New(s))
        BY <1>2, FiniteHosts, Zenon DEF WithResult
      <3> HIDE DEF New
      <3>3. Cardinality(WithResult(s) \cup New(s)) = Cardinality(WithResult(s)) + Cardinality(New(s))
        BY <3>1, <3>2, TwoParts, Zenon
      <3>. QED BY <3>1, <3>3, Zenon
    <2>2. \A s \in ConnStatus : Cardinality(New(s)) \in Nat
      BY <1>2, FiniteHosts, Zenon
    <2>3. /\ stats \in [{"count", "scanned", "failed", "unreachable"} -> Nat]
          /\ stats.count = Cardinality(Connected)
          /\ \A s \in ConnStatus : stats[Counter(s)] = Cardinality(WithResult(s))
      BY <1>1, Zenon DEF InspectInv, Counted
    <2>4. \A s \in ConnStatus :
             {h \in Reported : Counter(HostStatus(h)) = Counter(s)} = New(s)
      BY <1>3, Counters, Zenon DEF ConnStatus
    <2>5. {h \in Reported : Counter(HostStatus(h)) = "count"} = {}
      BY <1>3, Counters, Zenon DEF ConnStatus
    <2> HIDE DEF New
    <2>6. /\ DOMAIN stats' = {"count", "scanned", "failed", "unreachable"}
          /\ \A s \in ConnStatus : stats'[Counter(s)] = stats[Counter(s)] + Cardinality(New(s))
          /\ stats'["count"] = stats["count"] + 0
      BY <1>1, <2>3, <2>4, <2>5, FS_EmptySet, Counters, Zenon DEF PersistResults, ConnStatus
    <2>7. stats' = [c \in DOMAIN stats' |-> stats'[c]]
      BY <1>1, Zenon DEF PersistResults
    <2>8. stats' \in [{"count", "scanned", "failed", "unreachable"} -> Nat]
      BY <2>2, <2>3, <2>6, <2>7, Counters DEF ConnStatus
    <2>. QED BY <1>1, <1>8, <2>1, <2>3, <2>6, <2>8 DEF Counted
  <1>. QED BY <1>9, <1>10, Zenon DEF InspectInv

(* cleanup_facts keeps the identified rows, which are at most one for each    *)
(* host, and _add_unreachable_hosts adds one where none is left.            *)
LEMMA Concludes == InspectInv /\ InspectDone => InspectInv'
  <1>. SUFFICES ASSUME InspectInv, InspectDone PROVE InspectInv'
    BY Zenon
  <1>1. /\ phase = "groups" /\ phase' = "done"
        /\ UNCHANGED <<conn, stats>>
        /\ results' = WithUnreachable(CleanedUp)
    BY Zenon DEF InspectDone, Finish, connectVars
  <1>2. Connected' = Connected /\ Connected \subseteq Hosts
    BY <1>1, Zenon DEF Connected
  <1> DEFINE Added == [id |-> 1, status |-> "unreachable", identified |-> FALSE]
  <1>3. WithRow({}, "unreachable", FALSE) = {Added}
    BY FS_EmptySet DEF WithRow
  <1>4. Added \in FirstRow /\ Added.status = "unreachable"
    BY Zenon DEF FirstRow, ConnStatus
  <1> HIDE DEF Added
  <1>5. \A h \in Hosts :
           \/ results'[h] = {Added} /\ h \in Connected /\ \A r \in results[h] : ~r.identified
           \/ results'[h] = {r \in results[h] : r.identified}
    BY <1>1, <1>3, Zenon DEF WithUnreachable, CleanedUp
  <1>6. \A h \in Connected : results'[h] # {}
    BY <1>1, <1>2, <1>3, Zenon DEF WithUnreachable
  <1>7. ResultRows'
    <2>1. \A h \in Hosts : results'[h] \subseteq FirstRow
      BY <1>4, <1>5 DEF InspectInv, ResultRows
    <2>2. results' \in [Hosts -> SUBSET FirstRow]
      BY <1>1, <2>1, Zenon DEF WithUnreachable
    <2>3. \A h \in Hosts : \A q, r \in results'[h] : q = r
      BY <1>5 DEF InspectInv, ResultRows
    <2>4. \A h \in Hosts : \A r \in results'[h] : r.status = "success" => r.identified
      BY <1>4, <1>5, Zenon
    <2>5. \A h \in Hosts : results'[h] # {} => h \in Connected
      BY <1>5, Zenon DEF InspectInv, ResultRows
    <2>. QED BY <1>1, <1>2, <1>6, <2>2, <2>3, <2>4, <2>5, Zenon DEF ResultRows
  <1>8. WithResult("success")' = WithResult("success")
    BY <1>4, <1>5 DEF InspectInv, ResultRows, WithResult
  <1>9. ScannedAccounted'
    BY <1>1, <1>8, CountsFit, Zenon DEF ScannedAccounted, WithResult
  <1>. QED BY <1>1, <1>7, <1>9, Zenon DEF InspectInv, Counted

(* Every step keeps the rows and the counters in agreement. *)
LEMMA InspectInvStep == InspectInv /\ [Next]_vars => InspectInv'
  <1>. SUFFICES ASSUME InspectInv, [Next]_vars PROVE InspectInv'
    BY Zenon
  <1>1. CASE ConnectStep
    <2>1. /\ phase \in {"begin", "credentials", "connect", "connecting"}
          /\ phase' \in {"credentials", "connect", "connecting", "inspect", "done"}
          /\ UNCHANGED results
      BY <1>1, Zenon DEF ConnectStep, Begin, NextCredential, ConnectGroup, ConnectResult, ConnectDenied,
                  ConnectGroupEnds, ConnectGroupBreaks, ConnectRaises, CredentialDone, ConnectDone,
                  Finish, inspectVars
    <2>. QED BY <2>1, BeforeInspection, Zenon
  <1>2. CASE InspectGroup
    <2>1. PICK G \in SUBSET todo : members' = G /\ todo' = todo \ G
      BY <1>2, Zenon DEF InspectGroup
    <2>. QED BY <1>2, <2>1, RowsAlone, Zenon DEF InspectGroup, connectVars, Waiting
  <1>3. ASSUME NEW h \in Hosts, FactArrives(h) \/ HostUnreachable(h) \/ HostFails(h)
        PROVE  InspectInv'
    <2>1. /\ phase = "inspecting" /\ phase' = "inspecting"
          /\ UNCHANGED <<results, stats, conn, todo, members>>
      BY <1>3, Zenon DEF FactArrives, HostUnreachable, HostFails, connectVars, inspectVars
    <2>2. members \subseteq Waiting \ todo
      BY <2>1, Zenon DEF InspectInv, ResultRows, Waiting
    <2>. QED BY <2>1, <2>2, RowsAlone, Zenon
  <1>4. CASE InspectRaises
    BY <1>4, RowsAlone, Zenon DEF InspectRaises, connectVars, inspectVars
  <1>5. CASE UNCHANGED vars
    <2>1. UNCHANGED <<phase, todo, members, stats, conn, results>>
      BY <1>5, Zenon DEF vars, connectVars, inspectVars
    <2>. QED BY <2>1 DEF InspectInv, ResultRows, Counted, ScannedAccounted, WithResult, Waiting, Connected
  <1>. QED
    BY <1>1, <1>2, <1>3, <1>4, <1>5, BeginsInspection, Persists, Concludes, Zenon
    DEF Next, InspectStep

(* The rows and the counters of the inspection agree in every reachable state. *)
THEOREM InspectionInv == Spec => []InspectInv
  <1>1. Init => InspectInv
    BY Zenon DEF Init, InspectInv, ResultRows, Counted
  <1>. QED BY <1>1, InspectInvStep, PTL DEF Spec

(* Whatever runs fail or time out, the number of scanned systems is the      *)
(* number of hosts with a successful result, also after cleanup_facts, and   *)
(* the counters never exceed the systems of the task.                       *)
THEOREM ScannedAlwaysAccounted == Spec => []ScannedAccounted
  <1>1. InspectInv => ScannedAccounted
    <2>1. ASSUME InspectInv, phase \notin {"groups", "inspecting"} PROVE ScannedAccounted
      BY <2>1, Zenon DEF InspectInv, ResultRows, Counted, ScannedAccounted
    <2>. QED BY <2>1, CountsFit, Zenon
  <1>. QED BY <1>1, InspectionInv, PTL

(* A finished inspection has one result for each host that was connected and  *)
(* none for another, for any number of groups that raise or time out.        *)
THEOREM AlwaysOneResult == Spec => []OneResultPerHost
  <1>1. InspectInv => OneResultPerHost
    <2> SUFFICES ASSUME InspectInv, phase = "done", \E h \in Hosts : results[h] # {},
                        NEW h \in Hosts
                 PROVE  Cardinality(results[h]) = IF h \in Connected THEN 1 ELSE 0
      BY Zenon DEF OneResultPerHost
    <2>1. CASE h \in Connected
      <3>1. PICK r : results[h] = {r}
        BY <2>1 DEF InspectInv, ResultRows
      <3>. QED BY <2>1, <3>1, FS_Singleton, Zenon
    <2>2. CASE h \notin Connected
      BY <2>2, FS_EmptySet, Zenon DEF InspectInv, ResultRows
    <2>. QED BY <2>1, <2>2, Zenon
  <1>. QED BY <1>1, InspectionInv, PTL
=============================================================================
