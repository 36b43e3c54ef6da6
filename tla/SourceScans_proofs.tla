------------------------- MODULE SourceScans_proofs -------------------------
(***************************************************************************)
(* The inspect task of any source while the server changes under it: the    *)
(* invariants of the runners together are inductive, and imply what the     *)
(* task promises about its counters, its results and its end.               *)
(***************************************************************************)
EXTENDS SourceScans, SourceRunners_proofs

(* The fingerprint runner stores no rows of the task. *)
FpOK == source_type = "fingerprint" => conns = <<>> /\ results = <<>> /\ stats = Zero

Inv ==
    /\ source_type \in SourceTypes
    /\ TaskOK /\ FailedEarly /\ Counted
    /\ SatOK /\ VcOK /\ OcpOK /\ SingleOK /\ FpOK

(* The steps of _process_sources change the fingerprints only, or raise. *)
Elsewhere == {"start", "aggregate", "populate", "done"}
Advances == \E map, next : Advance(map, next) /\ next \notin Elsewhere /\ pc # "done"

(* What the fingerprint runner does: it processes and merges, stores, counts or   *)
(* fails.                                                                    *)
LEMMA FpSteps ==
    ASSUME FpNext
    PROVE  Advances \/ FpPersist \/ FpStored \/ FpInsertAggregate \/ FpAggregate \/ FpFails
  <1>0. ASSUME NEW map, NEW next, Advance(map, next), next \notin Elsewhere, pc # "done"
        PROVE  Advances
    BY <1>0, Zenon DEF Advances
  <1>1. ASSUME NEW type, NEW first, NEW second, NEW at, NEW next, MergeSourceType(type, first, second, at, next),
               next \notin Elsewhere, \A i \in 1 .. 5 : at[i] \notin Elsewhere
        PROVE  Advances
    <2>1. at[1] # "done" /\ at[2] # "done" /\ at[3] # "done" /\ at[4] # "done" /\ at[5] # "done"
          /\ at[2] \notin Elsewhere /\ at[3] \notin Elsewhere
          /\ at[4] \notin Elsewhere /\ at[5] \notin Elsewhere
      BY <1>1 DEF Elsewhere
    <2>. QED BY <1>1, <2>1, Zenon DEF MergeSourceType, Match, Unique, AddRemaining, Advances
  <1>2. CASE FpProcess
    BY <1>0, <1>2, Zenon DEF FpProcess, Elsewhere
  <1>3. CASE FpDedup
    <2>1. pc = "dedup" /\ \E map : Advance(map, "dedup_bios_uuid")
      BY <1>3, Zenon DEF FpDedup
    <2>. QED BY <1>0, <2>1, Zenon DEF Elsewhere
  <1>4. CASE FpDedupBiosUuid
    <2>1. pc = "dedup_bios_uuid" /\ \E map : Advance(map, "sat_id")
      BY <1>4, Zenon DEF FpDedupBiosUuid
    <2>. QED BY <1>0, <2>1, Zenon DEF Elsewhere
  <1>5. CASE FpMergeSatellite
    <2> DEFINE at == <<"sat_id", "sat_id_unique", "sat_mac", "sat_mac_unique", "sat_add">>
    <2>1. \A i \in 1 .. 5 : at[i] \notin Elsewhere
      BY DEF Elsewhere
    <2>2. \E first, second : MergeSourceType("satellite", first, second, at, "vc_uuid")
      BY <1>5, Zenon DEF FpMergeSatellite
    <2> HIDE DEF at
    <2>. QED BY <1>1, <2>1, <2>2, Zenon DEF Elsewhere
  <1>6. CASE FpMergeVcenter
    <2> DEFINE at == <<"vc_uuid", "vc_uuid_unique", "vc_mac", "vc_mac_unique", "vc_add">>
    <2>1. \A i \in 1 .. 5 : at[i] \notin Elsewhere
      BY DEF Elsewhere
    <2>2. \E first, second : MergeSourceType("vcenter", first, second, at, "combine")
      BY <1>6, Zenon DEF FpMergeVcenter
    <2> HIDE DEF at
    <2>. QED BY <1>1, <2>1, <2>2, Zenon DEF Elsewhere
  <1>7. CASE FpCombine
    <2>1. pc = "combine" /\ \E map : Advance(map, "persist")
      BY <1>7, Zenon DEF FpCombine
    <2>. QED BY <1>0, <2>1, Zenon DEF Elsewhere
  <1>. QED BY <1>2, <1>3, <1>4, <1>5, <1>6, <1>7, Zenon DEF FpNext

(* The fingerprint runner leaves the counters and the rows of its task alone. *)
LEMMA FpMoves ==
    ASSUME FpNext
    PROVE  Moves
  <1>1. CASE Advances
    BY <1>1, Zenon DEF Advances, Advance, Goto, Raise, rowVars, serverVars, Moves, Elsewhere
  <1>2. CASE FpPersist
    BY <1>2, Zenon DEF FpPersist, scanVars, taskVars, rowVars, serverVars, Moves
  <1>3. CASE FpStored
    BY <1>3, Zenon DEF FpStored, Finish, Goto, rowVars, serverVars, Moves
  <1>4. CASE FpAggregate
    BY <1>4, Zenon DEF FpAggregate, Finish, rowVars, serverVars, Moves
  <1>5. CASE FpFails
    BY <1>5, Zenon DEF FpFails, Raise, rowVars, serverVars, Moves
  <1>6. CASE FpInsertAggregate
    BY <1>6, Zenon DEF FpInsertAggregate, Goto, rowVars, serverVars, Moves
  <1>. QED BY FpSteps, <1>1, <1>2, <1>3, <1>4, <1>5, <1>6, Zenon

(* Other tasks and requests change the workers that are left and the aggregate    *)
(* only.                                                                   *)
LEMMA OthersLeave ==
    ASSUME Others
    PROVE  /\ UNCHANGED <<source_type, pc, status, stats, conns, results, listing, added, removed>>
           /\ UNCHANGED <<api_version, org, page, fetched, inflight, answers>>
           /\ UNCHANGED <<objects, nodes, aapVars, stored, deployment>>
  <1>1. CASE source_type = "satellite" /\ OtherTasks /\ UNCHANGED <<vcVars, aapVars, ocpVars, acsVars, fpVars>>
    BY <1>1, Zenon DEF OtherTasks, OtherTaskWaits, OtherTaskGoesOn, scanVars, taskVars, rowVars, serverVars,
                vcVars, ocpVars, fpVars
  <1>2. CASE AggregateRequested /\ UNCHANGED inspectVars
    BY <1>2, Zenon DEF AggregateRequested, scanVars, taskVars, rowVars, serverVars, inspectVars, satVars,
                vcVars, ocpVars
  <1>. QED BY <1>1, <1>2, Zenon DEF Others

(* The server changes its listing, and nothing of the task. *)
LEMMA ServerKeeps ==
    ASSUME Inv, Server
    PROVE  Inv'
  <1>1. /\ pc \in Listing
        /\ UNCHANGED <<source_type, pc, status, stats, conns, results>>
        /\ UNCHANGED <<page, fetched, inflight, answers, objects, nodes>>
    BY Zenon DEF Server, ServerAdds, ServerRemoves, taskVars, rowVars, runnerVars, inspectVars, satVars, vcVars, ocpVars
  <1>2. listing' \in Seq(Systems) /\ IsInjective(listing')
    <2>1. listing \in Seq(Systems) /\ IsInjective(listing)
      BY Zenon DEF Inv, TaskOK
    <2>2. CASE ServerAdds
      <3>1. PICK s \in Systems \ (ToSet(listing) \union removed), i \in 1 .. Len(listing) + 1 :
                 listing' = InsertAt(listing, i, s)
        BY <2>2, Zenon DEF ServerAdds
      <3>. QED BY <2>1, <3>1, Inserting, Zenon
    <2>3. CASE ServerRemoves
      <3>1. PICK i \in 1 .. Len(listing) : listing' = RemoveAt(listing, i)
        BY <2>3, Zenon DEF ServerRemoves
      <3>. QED BY <2>1, <3>1, Removing, Zenon
    <2>. QED BY <2>2, <2>3, Zenon DEF Server
  <1>3. pc \notin {"machines", "node", "done"} /\ status # "completed"
    BY <1>1, Zenon DEF Listing, Inv, TaskOK
  <1>4. TaskOK' /\ SatOK' /\ FailedEarly' /\ SingleOK' /\ FpOK' /\ Counted'
    BY <1>1, <1>2, Zenon DEF Inv, TaskOK, SatOK, FailedEarly, SingleOK, FpOK, Counted, CountIs
  <1>5. VcOK' /\ OcpOK'
    BY <1>1, <1>3, Zenon DEF Inv, VcOK, OcpOK, Machines
  <1>. QED BY <1>1, <1>4, <1>5, Zenon DEF Inv

(* The first state. *)
LEMMA InvInit == Init => Inv
  <1> SUFFICES ASSUME Init PROVE Inv
    BY Zenon
  <1>1. /\ source_type \in SourceTypes /\ pc = "start" /\ status = "running" /\ stats = Zero
        /\ conns = <<>> /\ results = <<>> /\ page = 1 /\ fetched = <<>> /\ inflight = {} /\ answers = <<>>
        /\ objects = <<>> /\ nodes = <<>>
    BY Zenon DEF Init, SourceScanInit, SatInit, VcInit, OcpInit
  <1>2. listing \in Seq(Systems) /\ IsInjective(listing)
    <2>1. PICK n \in 0 .. Cardinality(Systems) : listing = SubSeq(SetToSeq(Systems), 1, n)
      BY Zenon DEF Init, SourceScanInit
    <2>2. /\ SetToSeq(Systems) \in Seq(Systems) /\ IsInjective(SetToSeq(Systems))
          /\ Len(SetToSeq(Systems)) = Cardinality(Systems) /\ Cardinality(Systems) \in Nat
      BY Listed, SystemsAssumption, Zenon
    <2>3. n \in Int /\ n <= Len(SetToSeq(Systems))
      BY <2>2
    <2>. QED BY <2>1, <2>2, <2>3, Slice
  <1>3. Zero \in StatsRow /\ Zero.scanned = 0 /\ Zero.failed = 0 /\ Zero.unreachable = 0
    BY Zenon DEF Zero, StatsRow
  <1>4. TaskOK
    BY <1>1, <1>2, <1>3 DEF TaskOK, IsSeq
  <1>5. SatOK
    BY <1>1 DEF SatOK, ToSet, IsInjective
  <1>6. VcOK
    <2>1. objects \in Seq(Inventory \cup Systems) /\ IsInjective(objects)
      BY <1>1 DEF IsInjective
    <2>2. Len(Machines) \in Nat
      <3>1. Machines \in Seq((Inventory \cup Systems) \cap Systems)
        BY <2>1, OnlyFacts, Zenon DEF Machines
      <3>. QED BY <3>1, LenProperties, Zenon
    <2>. QED BY <1>1, <2>1, <2>2 DEF VcOK
  <1>7. OcpOK
    BY <1>1 DEF OcpOK, IsInjective
  <1>8. Counted
    BY <1>1, <1>3, CountNone DEF Counted, CountIs
  <1>. QED BY <1>1, <1>4, <1>5, <1>6, <1>7, <1>8, Zenon DEF Inv, FailedEarly, SingleOK, FpOK

(* A runner that has ended takes no step, and no step changes the type of the    *)
(* source.                                                                 *)
LEMMA RunnerRuns ==
    ASSUME Inv, Runner
    PROVE  pc # "done" /\ source_type' = source_type
  <1>1. CASE source_type = "satellite" /\ SatNext
    <2>1. pc = "done" => inflight = {}
      BY <1>1, Zenon DEF Inv, SatOK
    <2>. QED BY <1>1, <2>1, Zenon DEF SatNext, SatRequestFails, SatInitialize, SatHostCount, SatHostsPage, SatListPage,
               SatHostTaskStarts, SatHostTaskEnds, SatGroupDone, SatProcess, SatDone, scanVars
  <1>2. CASE VcNext
    BY <1>2, Zenon DEF VcNext, VcConnectFails, VcConnect, VcInspectFails, VcInspect, VcRetrieve, VcRetrieved,
               VcMachine, VcDone, scanVars
  <1>3. CASE AapNext
    BY <1>3, Zenon DEF AapNext, AapClientFails, AapConnect, AapInstanceDetails, AapHosts, AapPage, AapPageFails,
               AapJobs, AapSave, AapRaises
  <1>4. CASE OcpNext
    BY <1>4, Zenon DEF OcpNext, OcpClientFails, OcpConnect, OcpListFails, OcpCluster, OcpNodes, OcpSaveNode,
               OcpExtraFact, OcpSaveCluster
  <1>5. CASE AcsNext
    BY <1>5, Zenon DEF AcsNext, AcsConnect, AcsMetric, AcsSave
  <1>6. CASE FpNext
    BY <1>6, FpMoves, Zenon DEF Moves
  <1>. QED BY <1>1, <1>2, <1>3, <1>4, <1>5, <1>6, Zenon DEF Runner

(* Every step keeps the invariant. *)
LEMMA InvStep == Inv /\ [Next]_vars => Inv'
  <1> SUFFICES ASSUME Inv, [Next]_vars PROVE Inv'
    BY Zenon
  <1>1. CASE Runner
    <2>1. source_type' = source_type
      BY <1>1, RunnerRuns, Zenon
    <2>2. CASE source_type = "satellite" /\ SatNext
      <3>1. (TaskOK /\ SatOK /\ FailedEarly /\ Counted)'
        BY <2>2, SatKeeps, Zenon DEF Inv
      <3>. QED BY <2>1, <2>2, <3>1, Zenon DEF Inv, VcOK, OcpOK, SingleOK, FpOK
    <2>3. CASE source_type = "vcenter" /\ VcNext
      <3>1. (TaskOK /\ VcOK /\ FailedEarly /\ Counted)'
        BY <2>3, VcKeeps, Zenon DEF Inv
      <3>. QED BY <2>1, <2>3, <3>1, Zenon DEF Inv, SatOK, OcpOK, SingleOK, FpOK
    <2>4. CASE source_type = "ansible" /\ AapNext
      <3>1. (TaskOK /\ SingleOK /\ FailedEarly /\ Counted)'
        BY <2>4, AapKeeps, Zenon DEF Inv
      <3>. QED BY <2>1, <2>4, <3>1, Zenon DEF Inv, SatOK, VcOK, OcpOK, FpOK
    <2>5. CASE source_type = "openshift" /\ OcpNext
      <3>1. (TaskOK /\ OcpOK /\ FailedEarly /\ Counted)'
        BY <2>5, OcpKeeps, Zenon DEF Inv
      <3>. QED BY <2>1, <2>5, <3>1, Zenon DEF Inv, SatOK, VcOK, SingleOK, FpOK
    <2>6. CASE source_type = "rhacs" /\ AcsNext
      <3>1. (TaskOK /\ SingleOK /\ FailedEarly /\ Counted)'
        BY <2>6, AcsKeeps, Zenon DEF Inv
      <3>. QED BY <2>1, <2>6, <3>1, Zenon DEF Inv, SatOK, VcOK, OcpOK, FpOK
    <2>7. CASE source_type = "fingerprint" /\ FpNext
      <3>1. (TaskOK /\ SingleOK /\ FailedEarly /\ Counted)' /\ Moves
        BY <2>7, FpMoves, MoveKeeps, Zenon DEF Inv
      <3>. QED BY <2>1, <2>7, <3>1, Zenon DEF Inv, SatOK, VcOK, OcpOK, FpOK, Moves
    <2>. QED BY <1>1, <2>2, <2>3, <2>4, <2>5, <2>6, <2>7, Zenon DEF Runner
  <1>2. CASE Server
    BY <1>2, ServerKeeps, Zenon
  <1>3. CASE Others \/ UNCHANGED vars
    <2>1. UNCHANGED <<source_type, pc, status, stats, conns, results, listing,
                      page, fetched, inflight, answers, objects, nodes>>
      BY <1>3, OthersLeave, Zenon DEF vars, scanVars, taskVars, rowVars, serverVars, runnerVars, inspectVars, satVars, vcVars, ocpVars
    <2>2. TaskOK' /\ FailedEarly' /\ SingleOK' /\ FpOK' /\ Counted'
      BY <2>1, Zenon DEF Inv, TaskOK, FailedEarly, SingleOK, FpOK, Counted, CountIs
    <2>3. SatOK' /\ VcOK' /\ OcpOK'
      BY <2>1, Zenon DEF Inv, SatOK, VcOK, OcpOK, Machines, Named1
    <2>. QED BY <2>1, <2>2, <2>3, Zenon DEF Inv
  <1>. QED BY <1>1, <1>2, <1>3, Zenon DEF Next, Done

(* The invariant of the inspect task of every source type. *)
THEOREM TaskInv == Spec => []Inv
  <1>. QED BY InvInit, InvStep, PTL DEF Spec

(* Where a host task has failed the ScanTask, no step of the runner makes it       *)
(* COMPLETED or RUNNING again: the error it has left among the answers stops      *)
(* process_results before validate_task_stats.                               *)
THEOREM FailureIsFinal == Spec => FailedStaysFailed
  <1>1. ASSUME Inv, Next, status = "failed" PROVE status' = "failed"
    <2>1. CASE Runner
      <3>1. pc # "done" /\ source_type = "satellite" /\ \E h \in DOMAIN answers : answers[h] = "error"
        BY <1>1, <2>1, RunnerRuns, Zenon DEF Inv, FailedEarly
      <3>2. SatNext
        BY <2>1, <3>1, Zenon DEF Runner
      <3>3. ~SatDone
        <4>1. SUFFICES ASSUME SatDone PROVE FALSE
          BY Zenon
        <4>2. pc = "process" /\ ~Unprocessed
          BY <4>1, Zenon DEF SatDone
        <4>3. /\ DOMAIN answers = ToSet(fetched) /\ Len(results) <= Len(fetched)
              /\ \A i \in 1 .. Len(results) : answers[fetched[i]] # "error"
              /\ DOMAIN fetched = 1 .. Len(fetched) /\ Len(fetched) \in Nat /\ Len(results) \in Nat
          BY <1>1, <3>1, <4>2, LenProperties, SeqFacts, Zenon DEF Inv, SatOK, TaskOK
        <4>4. Len(results) = Len(fetched)
          BY <4>2, <4>3, SMTT(30) DEF Unprocessed
        <4>. QED BY <3>1, <4>3, <4>4, Zenon DEF ToSet
      <3>. QED BY <1>1, <3>2, <3>3, Zenon DEF SatNext, SatRequestFails, SatInitialize, SatHostCount, SatHostsPage,
               SatListPage, SatHostTaskStarts, SatHostTaskEnds, SatGroupDone, SatProcess, Finish, Raise, Goto,
               scanVars, taskVars
    <2>2. CASE ~Runner
      BY <1>1, <2>2, OthersLeave, Zenon DEF Next, Server, ServerAdds, ServerRemoves, Done, vars, scanVars, taskVars
    <2>. QED BY <2>1, <2>2, Zenon
  <1>2. Inv /\ [Next]_vars => [status = "failed" => status' = "failed"]_vars
    BY <1>1, Zenon
  <1>. QED BY <1>2, TaskInv, PTL DEF Spec, FailedStaysFailed

(* The counters of a satellite or openshift task are the numbers of its rows, at    *)
(* every step of the runner and for any number of systems.                     *)
THEOREM CountersFollowRows == Spec => []CountersMatchRows
  <1>1. ASSUME Inv PROVE CountersMatchRows
    <2>1. \A x : WithStatus(<<>>, x) = 0 /\ WithStatus(conns, x) \in Nat /\ WithStatus(results, x) \in Nat
      BY <1>1, CountNone, CountOne, Zenon DEF Inv, TaskOK
    <2>2. CASE source_type = "satellite"
      <3>1. CountIs(<<>>, results)
        BY <1>1, <2>2, Zenon DEF Inv, Counted
      <3>2. Totals = Counts(results)
        BY <2>1, <3>1 DEF CountIs, Counts, Totals
      <3>. QED BY <2>2, <3>2, Zenon DEF CountersMatchRows
    <2>3. CASE source_type = "openshift"
      <3>1. CountIs(<<>>, results) \/ (results = <<>> /\ CountIs(conns, <<>>))
        BY <1>1, <2>3, Zenon DEF Inv, Counted, OcpOK
      <3>2. Totals = Counts(results) \/ (results = <<>> /\ Totals = Counts(conns))
        BY <2>1, <3>1 DEF CountIs, Counts, Totals
      <3>. QED BY <2>3, <3>2, Zenon DEF CountersMatchRows
    <2>. QED BY <2>2, <2>3, Zenon DEF CountersMatchRows
  <1>. QED BY <1>1, TaskInv, PTL

(* A COMPLETED satellite or openshift task has one result for every system it      *)
(* counted, however the listing changed between host_count and the last page.     *)
THEOREM CompletedTaskIsWhole == Spec => []CompletedIsWhole
  <1>1. ASSUME Inv, status = "completed", source_type \in {"satellite", "openshift"}
        PROVE  stats.count = Len(results) /\ stats.count = stats.scanned + stats.failed
    <2>1. IsSeq(results) /\ DOMAIN results = 1 .. Len(results) /\ pc = "done"
      BY <1>1, SeqFacts, Zenon DEF Inv, TaskOK
    <2>2. \A i \in DOMAIN results : results[i].status \in {"success", "failed"}
      BY <1>1, <2>1, Zenon DEF Inv, SatOK, OcpOK
    <2>3. /\ Len(results) = WithStatus(results, "success") + WithStatus(results, "failed")
          /\ WithStatus(results, "unreachable") = 0
      <3>1. \A x : x \notin {"success", "failed"} => WithStatus(results, x) = 0
        BY <2>1, <2>2, CountBoth, Zenon
      <3>2. Len(results) = WithStatus(results, "success") + WithStatus(results, "failed")
        BY <2>1, <2>2, CountBoth, Zenon
      <3>. QED BY <3>1, <3>2, Zenon
    <2>4. \A x : WithStatus(<<>>, x) = 0 /\ WithStatus(results, x) \in Nat
      BY <2>1, CountNone, CountOne, Zenon
    <2>5. CASE source_type = "satellite"
      <3>1. CountIs(<<>>, results) /\ stats.count = stats.scanned + stats.failed + stats.unreachable
        BY <1>1, <2>5, Zenon DEF Inv, Counted, SatOK
      <3>. QED BY <2>3, <2>4, <3>1 DEF CountIs
    <2>6. CASE source_type = "openshift"
      <3>1. CountIs(<<>>, results) /\ stats.count = Len(results)
        BY <1>1, <2>1, <2>6, Zenon DEF Inv, Counted, OcpOK
      <3>. QED BY <2>3, <2>4, <3>1 DEF CountIs
    <2>. QED BY <1>1, <2>5, <2>6, Zenon
  <1>. QED BY <1>1, TaskInv, PTL DEF CompletedIsWhole

(* However the pages of the server shift, a system gets one result at most. *)
THEOREM AlwaysOneResultPerSystem == Spec => []OneResultPerSystem
  <1>1. Inv => OneResultPerSystem
    BY NamedOnce, Zenon DEF Inv, TaskOK, OneResultPerSystem
  <1>. QED BY <1>1, TaskInv, PTL

-----------------------------------------------------------------------------
(* Nothing is read at first. *)
LEMMA ReadingInit == Init => Reading
  BY Zenon DEF Init, SourceScanInit, AapInit, Reading, Paging, AapPaging

(* The runners read what the server lists through. *)
LEMMA ReadingStep == Inv /\ Reading /\ [Next]_vars => Reading'
  <1> SUFFICES ASSUME Inv, Reading, [Next]_vars PROVE Reading'
    BY Zenon
  <1>1. CASE Runner
    <2>1. source_type' = source_type
      BY <1>1, RunnerRuns, Zenon
    <2>2. CASE source_type = "satellite" /\ SatNext /\ UNCHANGED aapVars
      <3>1. Paging'
        BY <2>2, PagingKept, Zenon DEF Inv, Reading
      <3>. QED BY <2>1, <2>2, <3>1, Zenon DEF Reading, AapPaging, aapVars
    <2>3. CASE source_type = "ansible" /\ AapNext
      <3>1. AapPaging'
        BY <2>3, AapPagingKept, Zenon DEF Inv, Reading
      <3>. QED BY <2>1, <2>3, <3>1, Zenon DEF Reading, Paging
    <2>4. CASE source_type \notin {"satellite", "ansible"} /\ UNCHANGED aapVars
      BY <2>1, <2>4, Zenon DEF Reading, Paging, AapPaging, aapVars
    <2>. QED BY <1>1, <2>2, <2>3, <2>4, Zenon DEF Runner, inspectVars
  <1>2. CASE Server
    BY <1>2, ServerReads, Zenon DEF Server, Inv, runnerVars, inspectVars
  <1>3. CASE Others \/ UNCHANGED vars
    <2>1. UNCHANGED <<source_type, pc, status, listing, added, removed, api_version, org, page, fetched, aapVars>>
      BY <1>3, OthersLeave, Zenon DEF vars, runnerVars, inspectVars, scanVars, taskVars, serverVars, satVars
    <2>. QED BY <2>1, Zenon DEF aapVars, Reading, Paging, AapPaging, InPage, Kept, Position, Scope, Scopes
  <1>. QED BY <1>1, <1>2, <1>3, Zenon DEF Next, Done

(* What has been read is described in every reachable state. *)
THEOREM ReadingInv == Spec => []Reading
  BY ReadingInit, ReadingStep, TaskInv, PTL DEF Spec

(* As long as nothing is removed, a COMPLETED task of a satellite, vcenter or        *)
(* openshift source has a result for every system that was listed from its start to  *)
(* its end, whatever was added meanwhile: the pages of a satellite, an inventory     *)
(* collected in pages, a list of nodes.                                         *)
THEOREM NobodyMissed == Spec => []NoSystemMissed
  <1>1. Inv /\ Reading => NoSystemMissed
    BY Seen, Zenon DEF Inv, NoSystemMissed
  <1>. QED BY <1>1, TaskInv, ReadingInv, PTL

(* The hosts fact of a controller that did not change has every host once, in       *)
(* whatever order the threads' pages arrive, and no host of the inventory is taken  *)
(* for one that only jobs know.                                              *)
THEOREM HostsFactKept == Spec => []HostsFactWhole
  <1>1. Inv /\ Reading => HostsFactWhole
    BY HostsSeen, Zenon DEF Inv, HostsFactWhole
  <1>. QED BY <1>1, TaskInv, ReadingInv, PTL

-----------------------------------------------------------------------------
(* The inventory is complete before the first machine is placed, and each       *)
(* result has the place of its machine.                                      *)
Placing ==
    source_type = "vcenter" =>
        /\ pc = "machines" => Inventory \subseteq ToSet(objects)
        /\ \A i \in DOMAIN results :
              results[i].facts = {RunsOn[results[i].name], Parent[RunsOn[results[i].name]],
                                  DatacenterOf[Parent[RunsOn[results[i].name]]]}

(* A machine is placed from the whole inventory, whatever order it came in. *)
LEMMA PlacingKept ==
    ASSUME Inv, Placing, source_type = "vcenter", VcNext
    PROVE  Placing'
  <1>1. CASE VcConnectFails \/ VcConnect \/ VcInspectFails \/ VcInspect \/ VcDone
    BY <1>1, Zenon DEF VcConnectFails, VcConnect, VcInspectFails, VcInspect, VcDone, Finish, Raise, Goto,
                rowVars, Placing
  <1>2. CASE VcRetrieve
    BY <1>2, Zenon DEF VcRetrieve, scanVars, taskVars, rowVars, Placing
  <1>3. CASE VcRetrieved
    <2>1. Inventory \subseteq ToSet(objects) /\ UNCHANGED <<results, objects>>
      BY <1>3, Zenon DEF VcRetrieved, Unretrieved, FilterSet, rowVars, vcVars
    <2>. QED BY <2>1, Zenon DEF Placing
  <1>4. CASE VcMachine
    <2> DEFINE n == Len(results)
               vm == Machines[n + 1]
               host == RunsOn[vm]
               place == {host, Parent[host], DatacenterOf[Parent[host]]}
    <2>1. /\ pc = "machines" /\ n < Len(Machines)
          /\ results' = Append(results, Row(vm, "success", Placement(vm, ToSet(objects))))
          /\ UNCHANGED <<pc, objects>>
      BY <1>4, Zenon DEF VcMachine, SaveResult, vcVars
    <2>2. vm \in Systems
      <3>1. Only(objects, Systems) \in Seq((Inventory \cup Systems) \cap Systems)
        BY OnlyFacts, Zenon DEF Inv, VcOK
      <3>2. Machines \in Seq(Systems) /\ n \in Nat
        BY <3>1, SeqMonotonic, SeqFacts, Zenon DEF Machines, Inv, TaskOK
      <3>3. n + 1 \in 1 .. Len(Machines)
        BY <2>1, <3>2, LenProperties
      <3>. QED BY <3>2, <3>3, ElementOfSeq, Zenon
    <2> HIDE DEF vm, n
    <2>3. Inventory \subseteq ToSet(objects) /\ place \subseteq Inventory \ {Root}
      BY <2>1, <2>2, InventoryAssumption, Zenon DEF Placing
    <2>4. Placement(vm, ToSet(objects)) = place
      <3>1. host \in ToSet(objects) /\ Parent[host] \in ToSet(objects)
            /\ Parent[host] # Root /\ DatacenterOf[Parent[host]] # Root
        BY <2>3, Zenon
      <3>2. Placement(vm, ToSet(objects)) = {host} \cup ({Parent[host], DatacenterOf[Parent[host]]} \ {Root})
        BY <3>1, Zenon DEF Placement, HostProps
      <3> HIDE DEF host
      <3>. QED BY <3>1, <3>2, Zenon
    <2> HIDE DEF place, host
    <2> DEFINE new == Row(vm, "success", place)
    <2>5. /\ DOMAIN results' = 1 .. n + 1 /\ results'[n + 1] = new
          /\ \A i \in 1 .. n : results'[i] = results[i]
          /\ n \in Nat /\ DOMAIN results = 1 .. n
      <3>1. IsSeq(results) /\ results' = Append(results, new)
        BY <2>1, <2>4, Zenon DEF Inv, TaskOK
      <3> HIDE DEF new
      <3>2. /\ DOMAIN Append(results, new) = 1 .. Len(results) + 1
            /\ Append(results, new)[Len(results) + 1] = new
            /\ \A i \in 1 .. Len(results) : Append(results, new)[i] = results[i]
        BY <3>1, Appending
      <3>3. Len(results) \in Nat /\ DOMAIN results = 1 .. Len(results)
        BY <3>1, SeqFacts, Zenon
      <3>. QED BY <3>1, <3>2, <3>3, Zenon DEF n
    <2>6. results'[n + 1].name = vm /\ results'[n + 1].facts = place
      <3>1. new.name = vm /\ new.facts = place
        BY Zenon DEF Row
      <3> HIDE DEF new
      <3>. QED BY <2>5, <3>1, Zenon
    <2>7. \A i \in 1 .. n + 1 : i \in 1 .. n \/ i = n + 1
      BY <2>5
    <2>. QED BY <2>1, <2>5, <2>6, <2>7, Zenon DEF Placing, place, host
  <1>. QED BY <1>1, <1>2, <1>3, <1>4, Zenon DEF VcNext

(* For any inventory a virtual machine is stored with its own host, the host's    *)
(* cluster and its datacenter, whatever order the property collector returns.    *)
THEOREM MachinesKeepTheirPlace == Spec => []MachinesPlaced
  <1>1. Init => Placing
    BY DEF Init, SourceScanInit, Placing
  <1>2. Inv /\ Placing /\ [Next]_vars => Placing'
    <2> SUFFICES ASSUME Inv, Placing, [Next]_vars PROVE Placing'
      BY Zenon
    <2>1. CASE source_type = "vcenter" /\ VcNext
      BY <2>1, PlacingKept, Zenon
    <2>2. CASE Runner /\ source_type # "vcenter"
      BY <2>2, RunnerRuns, Zenon DEF Placing
    <2>3. CASE Server
      BY <2>3, Zenon DEF Server, ServerAdds, ServerRemoves, taskVars, rowVars, runnerVars, inspectVars, vcVars, Placing
    <2>4. CASE Others \/ UNCHANGED vars
      BY <2>4, OthersLeave, Zenon DEF vars, scanVars, taskVars, rowVars, runnerVars, inspectVars, vcVars, Placing
    <2>. QED BY <2>1, <2>2, <2>3, <2>4, Zenon DEF Next, Done, Runner
  <1>3. Inv /\ Placing => MachinesPlaced
    BY SeqFacts, Zenon DEF Inv, TaskOK, Placing, MachinesPlaced
  <1>. QED BY <1>1, <1>2, <1>3, TaskInv, PTL DEF Spec

-----------------------------------------------------------------------------
(* Every source gives a fingerprint of its own, without a global id, whose facts  *)
(* say whether the source was scanned with sudo.                              *)
LEMMA ProcessFacts ==
    ASSUME NEW i
    PROVE  /\ Process(i).gid = NoValue /\ Process(i).sources = {i} /\ Process(i).broken = FALSE
           /\ \A key \in DOMAIN Process(i).facts : Process(i).facts[key].sudo = sources[i].sudo
  <1> DEFINE raw == sources[i]
             Of(v) == Fact(v, raw, i)
             Of1(f) == \A key \in DOMAIN f : f[key].sudo = raw.sudo
             Own(fp) == \E known, products, entitlements :
                           fp = NewFingerprint(known, products, entitlements, i) /\ Of1(known)
  <1>0. \A v : Of(v).sudo = raw.sudo
    BY Zenon DEF Fact
  <1>1. Own(ProcessNetworkFact(raw, i))
    <2> DEFINE a == StrOrNone(raw.subman)
               b == StrOrNone(raw.uuid)
               c == FormatMacAddresses(raw.macs)
               d == NetworkInfrastructure(raw)
               known == [subscription_manager_id |-> Of(a), bios_uuid |-> Of(b), mac_addresses |-> Of(c),
                         cpu_count |-> Of(raw.cpu), infrastructure_type |-> Of(d),
                         is_redhat |-> Of(raw.redhat), date_machine_id |-> Of(raw.date)]
    <2>1. ProcessNetworkFact(raw, i) = NewFingerprint(known, AddProducts(raw.evidence), raw.entitlements, i)
      BY Zenon DEF ProcessNetworkFact
    <2>2. Of1(known)
      <3> HIDE DEF Of, a, b, c, d, raw
      <3>. QED BY <1>0
    <2> HIDE DEF known, Of1
    <2>. QED BY <2>1, <2>2, Zenon
  <1>2. Own(ProcessSatelliteFact(raw, i))
    <2> DEFINE a == StrOrNone(raw.subman)
               b == FormatMacAddresses(raw.macs)
               c == SatelliteInfrastructure(raw)
               known == [subscription_manager_id |-> Of(a), mac_addresses |-> Of(b),
                         cpu_count |-> Of(raw.cpu), infrastructure_type |-> Of(c),
                         is_redhat |-> Of(raw.redhat), registration_time |-> Of(raw.date)]
    <2>1. ProcessSatelliteFact(raw, i) = NewFingerprint(known, AddProducts(raw.evidence), raw.entitlements, i)
      BY Zenon DEF ProcessSatelliteFact
    <2>2. Of1(known)
      <3> HIDE DEF Of, a, b, c, raw
      <3>. QED BY <1>0
    <2> HIDE DEF known, Of1
    <2>. QED BY <2>1, <2>2, Zenon
  <1>3. Own(ProcessVcenterFact(raw, i))
    <2> DEFINE a == StrOrNone(raw.uuid)
               b == FormatMacAddresses(raw.macs)
               known == [vm_uuid |-> Of(a), mac_addresses |-> Of(b), cpu_count |-> Of(raw.cpu),
                         infrastructure_type |-> Of("virtualized"), is_redhat |-> Of(raw.redhat)]
    <2>1. ProcessVcenterFact(raw, i) = NewFingerprint(known, << >>, {}, i)
      BY Zenon DEF ProcessVcenterFact
    <2>2. Of1(known)
      <3> HIDE DEF Of, a, b, raw
      <3>. QED BY <1>0
    <2> HIDE DEF known, Of1
    <2>. QED BY <2>1, <2>2, Zenon
  <1>4. Own(ProcessOpenShiftFact(raw, i)) /\ Own(ProcessServiceFact(raw, i))
    <2> DEFINE known == [cpu_count |-> Of(raw.cpu)]
    <2>1. /\ ProcessOpenShiftFact(raw, i) = NewFingerprint(known, << >>, {}, i)
          /\ ProcessServiceFact(raw, i) = NewFingerprint(<< >>, << >>, {}, i)
      BY Zenon DEF ProcessOpenShiftFact, ProcessServiceFact
    <2>2. Of1(known) /\ Of1(<< >>)
      <3> HIDE DEF Of, raw
      <3>. QED BY <1>0
    <2> HIDE DEF known, Of1
    <2>. QED BY <2>1, <2>2, Zenon
  <1>5. Own(Process(i))
    <2>1. Process(i) \in {ProcessNetworkFact(raw, i), ProcessSatelliteFact(raw, i), ProcessVcenterFact(raw, i),
                          ProcessOpenShiftFact(raw, i), ProcessServiceFact(raw, i)}
      BY DEF Process
    <2> HIDE DEF Own
    <2>. QED BY <1>1, <1>2, <1>3, <1>4, <2>1, Zenon
  <1>6. PICK known, products, entitlements :
           Process(i) = NewFingerprint(known, products, entitlements, i) /\ Of1(known)
    BY <1>5, Zenon
  <1>7. /\ NewFingerprint(known, products, entitlements, i).facts = known
        /\ NewFingerprint(known, products, entitlements, i).gid = NoValue
        /\ NewFingerprint(known, products, entitlements, i).sources = {i}
        /\ NewFingerprint(known, products, entitlements, i).broken = FALSE
    BY Zenon DEF NewFingerprint
  <1>. QED BY <1>6, <1>7, Zenon

(* What MergeLosesNothing says of one fingerprint, with what it takes to hold      *)
(* after a merge: every fact comes from one of the sources, and none is missing.  *)
Told(fp) ==
    /\ fp.broken = FALSE
    /\ \A i \in fp.sources : /\ DOMAIN Process(i).facts \subseteq DOMAIN fp.facts
                            /\ DOMAIN Process(i).products \subseteq DOMAIN fp.products
    /\ \A key \in DOMAIN fp.facts : \E i \in fp.sources :
          key \in DOMAIN Process(i).facts /\ fp.facts[key] = Process(i).facts[key]
    /\ \A key \in DOMAIN fp.facts : fp.facts[key].val = NoValue =>
          Erased(fp, key) \/ \A i \in fp.sources : Given(i, key) = NoValue
    /\ fp.entitlements = UNION {Process(i).entitlements : i \in fp.sources}
    /\ \A name \in DOMAIN fp.products : fp.products[name] = "absent" =>
          \A i \in fp.sources : name \in DOMAIN Process(i).products => Process(i).products[name] = "absent"

(* The fingerprint of one source tells what the source says. *)
LEMMA SourceTold == \A i : Told(Process(i))
  <1> SUFFICES ASSUME NEW i PROVE Told(Process(i))
    BY Zenon
  <1>1. /\ Process(i).gid = NoValue /\ Process(i).sources = {i} /\ Process(i).broken = FALSE
    BY ProcessFacts, Zenon
  <1>2. ASSUME NEW key \in DOMAIN Process(i).facts, Process(i).facts[key].val = NoValue
        PROVE  Given(i, key) = NoValue
    BY <1>1, <1>2, Zenon DEF Given, Get
  <1>. QED BY <1>1, <1>2, Zenon DEF Told

(* What a merge of two fingerprints has of each fact and of each product. *)
LEMMA MergeParts ==
    ASSUME NEW p, NEW m
    PROVE  /\ DOMAIN MergeFacts(p, m) = DOMAIN p \cup DOMAIN m
           /\ \A key \in DOMAIN p \cup DOMAIN m :
                 MergeFacts(p, m)[key] = IF Overrules(p, m, key) THEN m[key] ELSE p[key]
           /\ DOMAIN MergeProducts(p, m) = DOMAIN p
           /\ \A name \in DOMAIN p :
                 MergeProducts(p, m)[name] = "absent" =>
                     p[name] = "absent" /\ (name \in DOMAIN m => m[name] = "absent")
  <1>1. \A name \in DOMAIN p :
           MergeProducts(p, m)[name] = IF p[name] = "absent" /\ name \in DOMAIN m THEN m[name] ELSE p[name]
    BY Zenon DEF MergeProducts
  <1>2. DOMAIN MergeProducts(p, m) = DOMAIN p
    BY Zenon DEF MergeProducts
  <1>3. DOMAIN MergeFacts(p, m) = DOMAIN p \cup DOMAIN m
    BY Zenon DEF MergeFacts
  <1>4. \A key \in DOMAIN p \cup DOMAIN m :
           MergeFacts(p, m)[key] = IF Overrules(p, m, key) THEN m[key] ELSE p[key]
    BY Zenon DEF MergeFacts
  <1>. QED BY <1>1, <1>2, <1>3, <1>4, Zenon

(* _merge_fingerprint loses nothing: where two fingerprints tell what their        *)
(* sources say, and the products of the second are listed by the first, the       *)
(* merged one tells what the sources of both say, whichever was scanned with sudo.  *)
THEOREM MergeTellsBoth ==
    \A p, m : Told(p) /\ Told(m) /\ DOMAIN m.products \subseteq DOMAIN p.products
              => Told(MergeFingerprint(p, m))
  <1> SUFFICES ASSUME NEW p, NEW m, Told(p), Told(m), DOMAIN m.products \subseteq DOMAIN p.products
               PROVE  Told(MergeFingerprint(p, m))
    BY Zenon
  <1> DEFINE fp == MergeFingerprint(p, m)
  <1>1. /\ fp.facts = MergeFacts(p.facts, m.facts) /\ fp.products = MergeProducts(p.products, m.products)
        /\ fp.entitlements = p.entitlements \cup m.entitlements /\ fp.sources = p.sources \cup m.sources
    BY Zenon DEF MergeFingerprint
  <1>2. fp.broken = FALSE
    BY DEF MergeFingerprint, Told
  <1> HIDE DEF fp
  <1>3. /\ DOMAIN fp.facts = DOMAIN p.facts \cup DOMAIN m.facts
        /\ \A key \in DOMAIN fp.facts :
              fp.facts[key] = IF Overrules(p.facts, m.facts, key) THEN m.facts[key] ELSE p.facts[key]
        /\ DOMAIN fp.products = DOMAIN p.products
        /\ \A name \in DOMAIN fp.products : fp.products[name] = "absent" =>
              p.products[name] = "absent" /\ (name \in DOMAIN m.products => m.products[name] = "absent")
    <2>1. /\ DOMAIN MergeFacts(p.facts, m.facts) = DOMAIN p.facts \cup DOMAIN m.facts
          /\ \A key \in DOMAIN p.facts \cup DOMAIN m.facts :
                MergeFacts(p.facts, m.facts)[key]
                    = IF Overrules(p.facts, m.facts, key) THEN m.facts[key] ELSE p.facts[key]
      BY MergeParts, Zenon
    <2>2. /\ DOMAIN MergeProducts(p.products, m.products) = DOMAIN p.products
          /\ \A name \in DOMAIN p.products : MergeProducts(p.products, m.products)[name] = "absent" =>
                p.products[name] = "absent" /\ (name \in DOMAIN m.products => m.products[name] = "absent")
      BY MergeParts, Zenon
    <2>. QED BY <1>1, <2>1, <2>2, Zenon
  <1>4. \A i \in fp.sources : /\ DOMAIN Process(i).facts \subseteq DOMAIN fp.facts
                            /\ DOMAIN Process(i).products \subseteq DOMAIN fp.products
    <2>1. ASSUME NEW i \in p.sources
          PROVE  DOMAIN Process(i).facts \subseteq DOMAIN p.facts /\ DOMAIN Process(i).products \subseteq DOMAIN p.products
      BY Zenon DEF Told
    <2>2. ASSUME NEW i \in m.sources
          PROVE  DOMAIN Process(i).facts \subseteq DOMAIN m.facts /\ DOMAIN Process(i).products \subseteq DOMAIN m.products
      BY Zenon DEF Told
    <2>. QED BY <1>1, <1>3, <2>1, <2>2, Zenon
  <1>5. ASSUME NEW key \in DOMAIN fp.facts
        PROVE  \E i \in fp.sources : key \in DOMAIN Process(i).facts /\ fp.facts[key] = Process(i).facts[key]
    <2>1. CASE Overrules(p.facts, m.facts, key)
      <3>1. key \in DOMAIN m.facts /\ fp.facts[key] = m.facts[key]
        BY <1>3, <2>1, Zenon DEF Overrules
      <3>. QED BY <1>1, <3>1, Zenon DEF Told
    <2>2. CASE ~Overrules(p.facts, m.facts, key)
      <3>1. key \in DOMAIN p.facts /\ fp.facts[key] = p.facts[key]
        BY <1>3, <2>2, Zenon DEF Overrules
      <3>. QED BY <1>1, <3>1, Zenon DEF Told
    <2>. QED BY <2>1, <2>2, Zenon
  <1>6. ASSUME NEW key \in DOMAIN fp.facts, fp.facts[key].val = NoValue
        PROVE  Erased(fp, key) \/ \A i \in fp.sources : Given(i, key) = NoValue
    <2> DEFINE None(f) == \A i \in f.sources : Given(i, key) = NoValue
    <2>1. /\ Erased(p, key) \/ Erased(m, key) => Erased(fp, key)
          /\ None(p) /\ None(m) => None(fp)
      BY <1>1, Zenon DEF Erased
    <2>2. ASSUME NEW f, Told(f), key \notin DOMAIN f.facts PROVE None(f)
      <3>1. ASSUME NEW i \in f.sources PROVE key \notin DOMAIN Process(i).facts /\ Process(i).gid = NoValue
        BY <2>2, ProcessFacts, Zenon DEF Told
      <3>. QED BY <3>1, Zenon DEF Given, Get
    <2>3. ASSUME NEW f, Told(f), key \in DOMAIN f.facts, f.facts[key].val = NoValue
          PROVE  Erased(f, key) \/ None(f)
      BY <2>3, Zenon DEF Told
    <2> SUFFICES Erased(fp, key) \/ None(fp)
      OBVIOUS
    <2> HIDE DEF None
    <2>4. CASE Overrules(p.facts, m.facts, key)
      <3>1. key \in DOMAIN m.facts /\ m.facts[key].val = NoValue
        BY <1>3, <1>6, <2>4, Zenon DEF Overrules
      <3>2. CASE key \notin DOMAIN p.facts
        BY <2>1, <2>2, <2>3, <3>1, <3>2, Zenon
      <3>3. CASE m.facts[key].sudo
        <4>1. PICK i \in m.sources : key \in DOMAIN Process(i).facts /\ m.facts[key] = Process(i).facts[key]
          BY <3>1, Zenon DEF Told
        <4>2. Process(i).facts[key].sudo = sources[i].sudo /\ Process(i).gid = NoValue
          BY <4>1, ProcessFacts, Zenon
        <4>3. sources[i].sudo
          BY <3>3, <4>1, <4>2, Zenon
        <4>4. Given(i, key) = NoValue
          BY <3>1, <4>1, <4>2, Zenon DEF Given, Get
        <4>. QED BY <2>1, <4>1, <4>3, <4>4, Zenon DEF Erased
      <3>. QED BY <2>4, <3>1, <3>2, <3>3, Zenon DEF Overrules
    <2>5. CASE ~Overrules(p.facts, m.facts, key)
      <3>1. key \in DOMAIN p.facts /\ p.facts[key].val = NoValue
        BY <1>3, <1>6, <2>5, Zenon DEF Overrules
      <3>2. key \in DOMAIN m.facts => m.facts[key].val = NoValue
        BY <2>5, <3>1, Zenon DEF Overrules
      <3>. QED BY <2>1, <2>2, <2>3, <3>1, <3>2, Zenon
    <2>. QED BY <2>4, <2>5, Zenon
  <1>7. fp.entitlements = UNION {Process(i).entitlements : i \in fp.sources}
    <2>1. /\ p.entitlements = UNION {Process(i).entitlements : i \in p.sources}
          /\ m.entitlements = UNION {Process(i).entitlements : i \in m.sources}
      BY Zenon DEF Told
    <2>. QED BY <1>1, <2>1, Zenon
  <1>8. ASSUME NEW name \in DOMAIN fp.products, fp.products[name] = "absent", NEW i \in fp.sources,
               name \in DOMAIN Process(i).products
        PROVE  Process(i).products[name] = "absent"
    <2>1. CASE i \in p.sources
      BY <1>3, <1>8, <2>1, Zenon DEF Told
    <2>2. CASE i \in m.sources
      BY <1>3, <1>8, <2>2, Zenon DEF Told
    <2>. QED BY <1>1, <2>1, <2>2, Zenon
  <1>9. Told(fp)
    BY <1>2, <1>4, <1>5, <1>6, <1>7, <1>8, Zenon DEF Told
  <1>. QED BY <1>9, Zenon DEF fp

-----------------------------------------------------------------------------
(* What has been settled of the deployments report at each point of the task. *)
Settling ==
    source_type = "fingerprint" =>
        /\ IsSeq(stored)
        /\ pc \in {"aggregate", "populate"} => deployment = "completed" /\ stored # <<>>
        /\ pc = "done" => deployment = status
        /\ status = "completed" => aggregate # NoValue /\ stored # <<>> /\ CountedOnce

(* The aggregate is a report and not None, whatever is stored. *)
LEMMA AggregateIsReport ==
    ASSUME IsSeq(stored)
    PROVE  AggregateReport # NoValue
  <1>1. IsFiniteSet(DOMAIN stored)
    <2>1. Len(stored) \in Nat /\ DOMAIN stored = 1 .. Len(stored)
      BY SeqFacts, Zenon
    <2>. QED BY <2>1, FS_Interval
  <1>2. \A S : S \subseteq DOMAIN stored => Cardinality(S) \in Nat
    BY <1>1, FS_Subset, FS_CardinalityType, Zenon
  <1>3. \A k \in Kinds : Cardinality({i \in DOMAIN stored : InstanceKind(stored[i]) = k}) \in Nat
    BY <1>2, Zenon
  <1>4. Cardinality({i \in DOMAIN stored : HasEap(stored[i])}) \in Nat
    BY <1>2, Zenon
  <1>5. AggregateReport \in [instances : [Kinds -> Nat], jboss_eap : Nat]
    BY <1>3, <1>4, Zenon DEF AggregateReport
  <1>. QED BY <1>5, NoValueIsNoReport, Zenon

(* Two sets without a common element. *)
LEMMA AddUp ==
    ASSUME NEW A, NEW B, IsFiniteSet(A), IsFiniteSet(B), A \cap B = {}
    PROVE  /\ IsFiniteSet(A \cup B) /\ Cardinality(A \cup B) = Cardinality(A) + Cardinality(B)
           /\ Cardinality(A) \in Nat /\ Cardinality(B) \in Nat
  <1>1. /\ IsFiniteSet(A \cup B)
        /\ Cardinality(A \cup B) = Cardinality(A) + Cardinality(B) - Cardinality(A \cap B)
    BY FS_Union, Zenon
  <1>2. Cardinality(A \cap B) = 0
    BY FS_EmptySet, Zenon
  <1>3. Cardinality(A) \in Nat /\ Cardinality(B) \in Nat
    BY FS_CardinalityType, Zenon
  <1>. QED BY <1>1, <1>2, <1>3

(* Every stored fingerprint is counted under one kind of instance. *)
LEMMA KindsAddUp ==
    ASSUME IsSeq(stored), aggregate' = AggregateReport, stored' = stored
    PROVE  CountedOnce'
  <1> DEFINE D == DOMAIN stored
             Of(k) == {i \in D : InstanceKind(stored[i]) = k}
             a == Of("not_redhat")
             b == Of("virtualized")
             c == Of("bare_metal")
             d == Of("hypervisor")
             e == Of("unknown")
  <1>1. Len(stored) \in Nat /\ D = 1 .. Len(stored)
    BY SeqFacts, Zenon
  <1>2. IsFiniteSet(D) /\ Cardinality(D) = Len(stored)
    <2>1. \A n \in Nat : IsFiniteSet(1 .. n) /\ Cardinality(1 .. n) = n
      BY FS_Interval
    <2>. QED BY <1>1, <2>1, Zenon
  <1>3. \A k : IsFiniteSet(Of(k))
    BY <1>2, FS_Subset, Zenon
  <1>4. \A i \in D : InstanceKind(stored[i]) \in {"not_redhat", "virtualized", "bare_metal", "hypervisor", "unknown"}
    BY Zenon DEF InstanceKind
  <1>5. D = (((a \cup b) \cup c) \cup d) \cup e
    BY <1>4, Zenon
  <1>6. a \cap b = {} /\ (a \cup b) \cap c = {} /\ ((a \cup b) \cup c) \cap d = {}
        /\ (((a \cup b) \cup c) \cup d) \cap e = {}
    BY Zenon
  <1>7. IsFiniteSet(a) /\ IsFiniteSet(b) /\ IsFiniteSet(c) /\ IsFiniteSet(d) /\ IsFiniteSet(e)
    BY <1>3, Zenon
  <1>8. /\ aggregate'.instances["not_redhat"] = Cardinality(a)
        /\ aggregate'.instances["virtualized"] = Cardinality(b)
        /\ aggregate'.instances["bare_metal"] = Cardinality(c)
        /\ aggregate'.instances["hypervisor"] = Cardinality(d)
        /\ aggregate'.instances["unknown"] = Cardinality(e)
    <2>1. aggregate'.instances = [k \in Kinds |-> Cardinality(Of(k))]
      BY Zenon DEF AggregateReport
    <2> HIDE DEF Of
    <2>. QED BY <2>1, Zenon DEF Kinds
  <1> HIDE DEF a, b, c, d, e, D
  <1>9. IsFiniteSet(a \cup b) /\ Cardinality(a \cup b) = Cardinality(a) + Cardinality(b)
    BY <1>6, <1>7, AddUp, Zenon
  <1>10. /\ IsFiniteSet((a \cup b) \cup c)
         /\ Cardinality((a \cup b) \cup c) = Cardinality(a \cup b) + Cardinality(c)
    BY <1>6, <1>7, <1>9, AddUp, Zenon
  <1>11. /\ IsFiniteSet(((a \cup b) \cup c) \cup d)
         /\ Cardinality(((a \cup b) \cup c) \cup d) = Cardinality((a \cup b) \cup c) + Cardinality(d)
    BY <1>6, <1>7, <1>10, AddUp, Zenon
  <1>12. Cardinality(D) = Cardinality(((a \cup b) \cup c) \cup d) + Cardinality(e)
    BY <1>5, <1>6, <1>7, <1>11, AddUp, Zenon
  <1>13. Len(stored) = Cardinality(a) + Cardinality(b) + Cardinality(c) + Cardinality(d) + Cardinality(e)
    BY <1>2, <1>9, <1>10, <1>11, <1>12, Zenon
  <1>. QED BY <1>8, <1>13, Zenon DEF CountedOnce

(* The task and the report are settled together, by every way the task can end. *)
LEMMA SettlingKept ==
    ASSUME Inv, Settling, source_type = "fingerprint", FpNext
    PROVE  Settling'
  <1>1. source_type' = source_type /\ (pc # "done" => status = "running")
    BY FpMoves, Zenon DEF Moves, Inv, FailedEarly
  <1>2. CASE Advances
    BY <1>1, <1>2, Zenon DEF Advances, Advance, Goto, Raise, Settling, CountedOnce, Elsewhere
  <1>3. CASE FpPersist
    <2>1. IsSeq(stored')
      <3>1. IsSeq(stored) /\ (stored' = stored \/ \E fp : stored' = Append(stored, fp))
        BY <1>3, Zenon DEF FpPersist, Settling
      <3>2. ASSUME NEW fp PROVE IsSeq(Append(stored, fp))
        BY <3>1, Appending, Zenon
      <3>. QED BY <3>1, <3>2, Zenon
    <2>2. pc = "persist" /\ status' # "completed" /\ UNCHANGED <<pc, status, deployment, aggregate>>
      BY <1>1, <1>3, Zenon DEF FpPersist, scanVars, taskVars
    <2>. QED BY <1>1, <2>1, <2>2, Zenon DEF Settling
  <1>4. CASE FpStored
    BY <1>1, <1>4, Zenon DEF FpStored, Finish, Goto, Settling
  <1>5. CASE FpAggregate
    <2>1. AggregateReport # NoValue /\ CountedOnce'
      BY <1>5, AggregateIsReport, KindsAddUp, Zenon DEF FpAggregate, Settling
    <2>. QED BY <1>1, <1>5, <2>1, Zenon DEF FpAggregate, Finish, Settling
  <1>6. CASE FpFails
    BY <1>1, <1>6, Zenon DEF FpFails, Raise, Settling
  <1>7. CASE FpInsertAggregate
    BY <1>1, <1>7, Zenon DEF FpInsertAggregate, Goto, Settling
  <1>. QED BY FpSteps, <1>2, <1>3, <1>4, <1>5, <1>6, <1>7, Zenon

(* For any report, whatever fails and whenever the aggregate was requested, a        *)
(* finished fingerprint task and its deployments report agree, and the aggregate of  *)
(* a completed one counts every stored fingerprint once.                        *)
THEOREM DeploymentSettles == Spec => []DeploymentSettled
  <1>1. Init => Settling
    BY DEF Init, SourceScanInit, FpInit, Settling, IsSeq
  <1>2. Inv /\ Settling /\ [Next]_vars => Settling'
    <2> SUFFICES ASSUME Inv, Settling, [Next]_vars PROVE Settling'
      BY Zenon
    <2>1. CASE source_type = "fingerprint" /\ FpNext
      BY <2>1, SettlingKept, Zenon
    <2>2. CASE Runner /\ source_type # "fingerprint"
      BY <2>2, RunnerRuns, Zenon DEF Settling
    <2>3. CASE Server
      BY <2>3, Zenon DEF Server, ServerAdds, ServerRemoves, taskVars, runnerVars, fpVars, Settling, CountedOnce
    <2>4. CASE UNCHANGED vars
      BY <2>4, Zenon DEF vars, scanVars, taskVars, runnerVars, fpVars, Settling, CountedOnce
    <2>5. CASE Others
      <3>1. UNCHANGED <<source_type, pc, status, stored, deployment>>
        BY <2>5, OthersLeave, Zenon
      <3>2. source_type = "fingerprint" => status # "completed"
        BY <2>5, Zenon DEF Others, AggregateRequested, Inv, TaskOK
      <3>. QED BY <3>1, <3>2, Zenon DEF Settling
    <2>. QED BY <2>1, <2>2, <2>3, <2>4, <2>5, Zenon DEF Next, Done, Runner
  <1>3. Settling => DeploymentSettled
    BY Zenon DEF Settling, DeploymentSettled
  <1>. QED BY <1>1, <1>2, <1>3, TaskInv, PTL DEF Spec

=============================================================================
