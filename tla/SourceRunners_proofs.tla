------------------------ MODULE SourceRunners_proofs ------------------------
(***************************************************************************)
(* The invariants of the runners of the API sources, for any server and any *)
(* number of systems, and that each runner's steps keep them.  The task row *)
(* is common (TaskOK, Counted, FailedEarly); how far a runner has come says  *)
(* which systems have their result (SatOK, VcOK, OcpOK, SingleOK).          *)
(***************************************************************************)
EXTENDS SatelliteScan, VcenterScan, AnsibleScan, OpenShiftScan, RhacsScan, Selection_proofs

(* The counters of a task. *)
StatsRow == [count : Nat, scanned : Nat, failed : Nat, unreachable : Nat]

(* The row, and what the server lists. *)
TaskOK ==
    /\ status \in {"running", "failed", "completed"}
    /\ status = "completed" => pc = "done"
    /\ stats \in StatsRow
    /\ IsSeq(conns) /\ IsSeq(results)
    /\ listing \in Seq(Systems) /\ IsInjective(listing)
    /\ \A i, j \in DOMAIN results : results[i].name = results[j].name => i = j

(* The system has its result. *)
Named1(s) == \E i \in DOMAIN results : results[i].name = s

(* A satellite runner: a host task belongs to a host of the list and has      *)
(* answered once, and the results follow the list up to the first error.     *)
SatOK ==
    source_type = "satellite" =>
        /\ fetched \in Seq(Systems) /\ IsInjective(fetched) /\ page \in Nat \ {0}
        /\ pc \in {"start", "count", "hosts", "list"} => DOMAIN answers = {} /\ inflight = {}
        /\ pc \notin {"process", "done"} => results = <<>>
        /\ pc \in {"process", "done"} => inflight = {}
        /\ pc = "process" => DOMAIN answers = ToSet(fetched)
        /\ inflight \subseteq ToSet(fetched) \ DOMAIN answers
        /\ DOMAIN answers \subseteq ToSet(fetched)
        /\ \A h \in DOMAIN answers : answers[h] \in {"success", "failed", "error"}
        /\ Len(results) <= Len(fetched)
        /\ \A i \in 1 .. Len(results) :
              /\ results[i].name = fetched[i]
              /\ results[i].status \in {"success", "failed"}
              /\ answers[fetched[i]] # "error"
        /\ status = "completed" => Len(results) = Len(fetched)
        /\ status = "completed" => stats.count = stats.scanned + stats.failed + stats.unreachable

(* Only an error of a host task fails the task before the runner has ended. *)
FailedEarly ==
    pc # "done" /\ status # "running" =>
        /\ source_type = "satellite"
        /\ status = "failed"
        /\ \E h \in DOMAIN answers : answers[h] = "error"

(* A vcenter runner: the results follow the machines of the collected       *)
(* inventory, which has everything the server lists.                        *)
VcOK ==
    source_type = "vcenter" =>
        /\ objects \in Seq(Inventory \cup Systems) /\ IsInjective(objects)
        /\ pc = "start" => conns = <<>> /\ stats = Zero
        /\ pc \in {"start", "login", "retrieve"} => results = <<>>
        /\ Len(results) <= Len(Machines)
        /\ \A i \in 1 .. Len(results) : results[i].name = Machines[i]
        /\ pc = "machines" \/ status = "completed" => ToSet(listing) \subseteq ToSet(objects)
        /\ status = "completed" => Len(results) = Len(Machines)

(* An openshift runner: every node listed is still to be saved or has its     *)
(* result, and the count is that of both, with one for the cluster.          *)
OcpOK ==
    source_type = "openshift" =>
        /\ pc \in {"start", "cluster", "nodes", "node", "done"}
        /\ nodes \in Seq(Systems) /\ IsInjective(nodes)
        /\ pc \in {"start", "cluster", "nodes"} => results = <<>>
        /\ pc = "start" => conns = <<>> /\ stats = Zero
        /\ pc = "node" =>
              /\ stats.count = Len(results) + Len(nodes) + 1
              /\ \A i \in DOMAIN results : results[i].name \in Systems \ ToSet(nodes)
              /\ \A s \in ToSet(listing) : s \in ToSet(nodes) \/ Named1(s)
        /\ \A i \in DOMAIN results : results[i].status \in {"success", "failed"}
        /\ status = "completed" =>
              /\ results # <<>> /\ stats.count = Len(results)
              /\ \A s \in ToSet(listing) : Named1(s)

(* The runners of one system store one result, with their last step. *)
SingleOK ==
    source_type \in {"ansible", "rhacs"} =>
        /\ pc = "start" => conns = <<>>
        /\ pc # "done" => results = <<>>

(* The counters are the numbers of rows of two lists. *)
CountIs(rows, more) ==
    /\ stats.scanned = WithStatus(rows, "success") + WithStatus(more, "success")
    /\ stats.failed = WithStatus(rows, "failed") + WithStatus(more, "failed")
    /\ stats.unreachable = WithStatus(rows, "unreachable") + WithStatus(more, "unreachable")

(* Which rows a runner counts, and openshift starts again with the nodes. *)
Counted ==
    /\ source_type = "satellite" => CountIs(<<>>, results)
    /\ source_type \in {"vcenter", "ansible", "rhacs"} => CountIs(conns, results)
    /\ source_type = "openshift" =>
          /\ pc \in {"start", "cluster", "nodes"} => CountIs(conns, <<>>)
          /\ pc = "node" => CountIs(<<>>, results)
          /\ pc = "done" => CountIs(<<>>, results) \/ (results = <<>> /\ CountIs(conns, <<>>))

-----------------------------------------------------------------------------
(* A page of a listing: the elements of its places, and a page that is not full  *)
(* is the last one.                                                         *)
LEMMA Page ==
    ASSUME NEW T, NEW list \in Seq(T), NEW p \in Nat \ {0}, NEW size \in Nat \ {0}
    PROVE  /\ PageOf(list, p, size) \in Seq(T)
           /\ IsInjective(list) => IsInjective(PageOf(list, p, size))
           /\ ToSet(PageOf(list, p, size)) =
                {list[i] : i \in {i \in 1 .. Len(list) : (p - 1) * size < i /\ i <= p * size}}
           /\ Len(PageOf(list, p, size)) # size => Len(list) < p * size
           /\ Len(PageOf(list, p, size)) \in Nat
           /\ p = 1 => Len(PageOf(list, p, size)) = IF size < Len(list) THEN size ELSE Len(list)
  <1> DEFINE a == (p - 1) * size
             b == p * size
             n == Len(list)
             last == IF b < n THEN b ELSE n
  <1>1. a \in Nat /\ b = a + size /\ n \in Nat /\ (p = 1 => a = 0)
    BY LenProperties
  <1> HIDE DEF a, b
  <1>2. a + 1 \in Nat \ {0} /\ last \in Int /\ last <= n
    BY <1>1
  <1>3. PageOf(list, p, size) = SubSeq(list, a + 1, last)
    BY Zenon DEF PageOf, a, b
  <1>4. a + 1 .. last = {i \in 1 .. n : a < i /\ i <= b}
    BY <1>1
  <1>5. /\ PageOf(list, p, size) \in Seq(T)
        /\ IsInjective(list) => IsInjective(PageOf(list, p, size))
        /\ ToSet(PageOf(list, p, size)) = {list[i] : i \in {i \in 1 .. n : a < i /\ i <= b}}
        /\ Len(PageOf(list, p, size)) = IF a + 1 <= last THEN last - (a + 1) + 1 ELSE 0
    <2> HIDE DEF last, n
    <2>1. /\ SubSeq(list, a + 1, last) \in Seq(T)
          /\ IsInjective(list) => IsInjective(SubSeq(list, a + 1, last))
          /\ ToSet(SubSeq(list, a + 1, last)) = {list[i] : i \in a + 1 .. last}
          /\ Len(SubSeq(list, a + 1, last)) = IF a + 1 <= last THEN last - (a + 1) + 1 ELSE 0
      BY <1>2, Slice DEF n
    <2>. QED BY <1>3, <1>4, <2>1, Zenon
  <1>6. Len(PageOf(list, p, size)) \in Nat
    BY <1>5, LenProperties, Zenon
  <1>7. Len(PageOf(list, p, size)) # size => n < b
    BY <1>1, <1>5
  <1>8. p = 1 => Len(PageOf(list, p, size)) = IF size < n THEN size ELSE n
    BY <1>1, <1>5
  <1>. QED BY <1>5, <1>6, <1>7, <1>8, Zenon DEF a, b

(* SaveResult stores a row under a new name and counts it. *)
LEMMA Saving ==
    ASSUME TaskOK, NEW name, NEW result \in Statuses, NEW found, SaveResult(name, result, found),
           ~Named1(name)
    PROVE  /\ IsSeq(results')
           /\ Len(results') = Len(results) + 1
           /\ results'[Len(results) + 1].name = name
           /\ results'[Len(results) + 1].status = result
           /\ \A i \in 1 .. Len(results) : results'[i] = results[i]
           /\ \A i, j \in DOMAIN results' : results'[i].name = results'[j].name => i = j
           /\ stats' \in StatsRow /\ stats'.count = stats.count
           /\ CountIs(<<>>, results) => CountIs(<<>>, results)'
           /\ CountIs(conns, results) => CountIs(conns, results)'
  <1> DEFINE n == Len(results)
             row == Row(name, result, found)
  <1>1. /\ results' = Append(results, row) /\ conns' = conns
        /\ stats' = Increment(stats, result)
        /\ IsSeq(results) /\ stats \in StatsRow
    BY Zenon DEF SaveResult, TaskOK
  <1>2. n \in Nat /\ DOMAIN results = 1 .. n
    BY <1>1, SeqFacts, Zenon
  <1>3. row.name = name /\ row.status = result
    BY Zenon DEF Row
  <1> HIDE DEF row
  <1>4. /\ IsSeq(results') /\ Len(results') = n + 1 /\ DOMAIN results' = 1 .. n + 1
        /\ results'[n + 1] = row
        /\ \A i \in 1 .. n : results'[i] = results[i]
    BY <1>1, Appending
  <1>5. \A i, j \in DOMAIN results' : results'[i].name = results'[j].name => i = j
    <2>1. \A i \in 1 .. n : results'[i].name # results'[n + 1].name
      BY <1>2, <1>3, <1>4, Zenon DEF Named1
    <2>2. 1 .. n + 1 = (1 .. n) \cup {n + 1}
      BY <1>2
    <2>3. \A i, j \in 1 .. n : results'[i].name = results'[j].name => i = j
      BY <1>2, <1>4, Zenon DEF TaskOK
    <2> SUFFICES ASSUME NEW i \in (1 .. n) \cup {n + 1}, NEW j \in (1 .. n) \cup {n + 1},
                        results'[i].name = results'[j].name
                 PROVE  i = j
      BY <1>4, <2>2, Zenon
    <2>. QED BY <2>1, <2>3, Zenon
  <1>6. /\ stats' \in StatsRow /\ stats'.count = stats.count
        /\ stats'.scanned = stats.scanned + (IF result = "success" THEN 1 ELSE 0)
        /\ stats'.failed = stats.failed + (IF result = "failed" THEN 1 ELSE 0)
        /\ stats'.unreachable = stats.unreachable + (IF result = "unreachable" THEN 1 ELSE 0)
    BY <1>1 DEF Increment, StatsRow, Statuses
  <1>7. \A r : /\ WithStatus(results, r) \in Nat
               /\ WithStatus(results', r) = WithStatus(results, r) + (IF result = r THEN 1 ELSE 0)
    BY <1>1, <1>3, CountOne, Zenon
  <1>8. IsSeq(conns) /\ \A r : WithStatus(conns, r) \in Nat
    BY CountOne, Zenon DEF TaskOK
  <1>9. CountIs(<<>>, results) => CountIs(<<>>, results)'
    BY <1>1, <1>6, <1>7, CountNone DEF CountIs
  <1>10. CountIs(conns, results) => CountIs(conns, results)'
    BY <1>1, <1>6, <1>7, <1>8 DEF CountIs
  <1>. QED BY <1>3, <1>4, <1>5, <1>6, <1>9, <1>10, Zenon

(* One row with a status for every name. *)
LEMMA RowsFacts ==
    ASSUME NEW T, NEW names \in Seq(T), NEW r
    PROVE  /\ IsSeq(Rows(names, r)) /\ Len(Rows(names, r)) = Len(names)
           /\ \A i \in 1 .. Len(names) : Rows(names, r)[i] = [name |-> names[i], status |-> r]
  <1>1. Len(names) \in Nat
    BY LenProperties, Zenon
  <1>2. Rows(names, r) \in [1 .. Len(names) -> {[name |-> names[i], status |-> r] : i \in 1 .. Len(names)}]
    BY Zenon DEF Rows
  <1>3. Rows(names, r) \in Seq({[name |-> names[i], status |-> r] : i \in 1 .. Len(names)})
    BY <1>1, <1>2
  <1>4. Len(Rows(names, r)) = Len(names)
    BY <1>1, <1>2
  <1>. QED BY <1>3, <1>4, Zenon DEF Rows, IsSeq

(* The hosts of one listing are different systems. *)
LEMMA HostsFacts ==
    ASSUME TaskOK, NEW o
    PROVE  HostsOf(o) \in Seq(Systems) /\ IsInjective(HostsOf(o))
  <1> DEFINE S == {h \in Systems : OrgOf[h] = Orgs[o]}
  <1>1. listing \in Seq(Systems) /\ IsInjective(listing)
    BY Zenon DEF TaskOK
  <1>2. Only(listing, S) \in Seq(Systems \cap S) /\ IsInjective(Only(listing, S))
    BY <1>1, OnlyFacts, Zenon
  <1> HIDE DEF S
  <1>3. Only(listing, S) \in Seq(Systems)
    BY <1>2, SeqMonotonic, Zenon
  <1>. QED BY <1>1, <1>2, <1>3, Zenon DEF HostsOf, S

(* The satellite runner. *)
LEMMA SatKeeps ==
    ASSUME TaskOK, SatOK, FailedEarly, Counted, source_type = "satellite", SatNext
    PROVE  (TaskOK /\ SatOK /\ FailedEarly /\ Counted)'
  <1>1. CASE SatRequestFails
    BY <1>1, Zenon DEF SatRequestFails, Finish, Raise, rowVars, serverVars, satVars,
                TaskOK, SatOK, FailedEarly, Counted, CountIs
  <1>2. CASE SatInitialize
    BY <1>2, Zenon DEF SatInitialize, Goto, rowVars, serverVars,
                TaskOK, SatOK, FailedEarly, Counted, CountIs
  <1>3. CASE SatGroupDone
    BY <1>3, Zenon DEF SatGroupDone, Goto, rowVars, serverVars, satVars,
                TaskOK, SatOK, FailedEarly, Counted, CountIs
  <1>4. ASSUME NEW h \in Systems, SatHostTaskStarts(h)
        PROVE  (TaskOK /\ SatOK /\ FailedEarly /\ Counted)'
    BY <1>4, Zenon DEF SatHostTaskStarts, scanVars, taskVars, rowVars, serverVars,
                TaskOK, SatOK, FailedEarly, Counted, CountIs
  <1>5. ASSUME NEW h \in Systems, NEW answer \in {"success", "failed", "error"},
               SatHostTaskEnds(h, answer)
        PROVE  (TaskOK /\ SatOK /\ FailedEarly /\ Counted)'
    BY <1>5 DEF SatHostTaskEnds, rowVars, serverVars,
                TaskOK, SatOK, FailedEarly, Counted, CountIs
  <1>6. HostsOf(org) \in Seq(Systems) /\ IsInjective(HostsOf(org))
    BY HostsFacts, Zenon
  <1> DEFINE found == PageOf(HostsOf(org), page, PerPage)
  <1>7. found \in Seq(Systems) /\ IsInjective(found)
    BY <1>6, Page, SatelliteAssumption, Zenon DEF SatOK
  <1> HIDE DEF found
  <1>8. CASE SatHostCount
    <2>1. /\ stats' = [stats EXCEPT !.count = IF api_version = 1 THEN HostCountV1 ELSE HostCountV2]
          /\ UNCHANGED <<source_type, status, jobFailed, conns, results, listing, page, fetched, inflight, answers>>
          /\ pc = "count" /\ pc' = "hosts"
      BY <1>8, Zenon DEF SatHostCount, Goto, rowVars, serverVars, satVars
    <2>2. HostCountV1 \in Nat /\ HostCountV2 \in Nat
      <3>1. HostsOf(1) \in Seq(Systems)
        BY HostsFacts, Zenon
      <3>. QED BY <3>1, LenProperties, Zenon DEF HostCountV1, HostCountV2, TaskOK
    <2>3. /\ stats' \in StatsRow
          /\ stats'.scanned = stats.scanned /\ stats'.failed = stats.failed
          /\ stats'.unreachable = stats.unreachable
      BY <2>1, <2>2, Zenon DEF TaskOK, StatsRow
    <2>. QED BY <2>1, <2>3, Zenon DEF TaskOK, SatOK, FailedEarly, Counted, CountIs
  <1>9. CASE SatHostsPage
    <2>1. /\ conns' = conns \o Rows(found, "success")
          /\ pc = "hosts" /\ pc' \in {"hosts", "list"}
          /\ page' \in {page + 1, 1}
          /\ UNCHANGED <<source_type, status, jobFailed, stats, results, listing, fetched, inflight, answers>>
      BY <1>9, Zenon DEF SatHostsPage, TurnPage, serverVars, found
    <2>2. IsSeq(conns')
      <3>1. IsSeq(Rows(found, "success"))
        BY <1>7, RowsFacts, Zenon DEF IsSeq
      <3>. QED BY <2>1, <3>1, Joining, Zenon DEF TaskOK
    <2>. QED BY <2>1, <2>2 DEF TaskOK, SatOK, FailedEarly, Counted, CountIs
  <1>10. CASE SatListPage
    <2> DEFINE new == Only(found, Systems \ ToSet(fetched))
    <2>1. /\ fetched' = fetched \o new
          /\ pc = "list" /\ pc' \in {"list", "details"}
          /\ page' \in {page + 1, 1}
          /\ UNCHANGED <<source_type, status, jobFailed, stats, conns, results, listing, inflight, answers>>
      BY <1>10, Zenon DEF SatListPage, TurnPage, rowVars, serverVars, found
    <2>2. /\ new \in Seq(Systems) /\ IsInjective(new)
          /\ ToSet(fetched) \cap ToSet(new) = {}
      <3>1. /\ new \in Seq(Systems \cap (Systems \ ToSet(fetched)))
            /\ IsInjective(new) /\ ToSet(new) = ToSet(found) \cap (Systems \ ToSet(fetched))
        BY <1>7, OnlyFacts, Zenon
      <3>. QED BY <3>1, SeqMonotonic, Zenon
    <2> HIDE DEF new
    <2>3. /\ fetched' \in Seq(Systems) /\ IsInjective(fetched')
          /\ ToSet(fetched) \subseteq ToSet(fetched')
      <3>1. fetched \in Seq(Systems) /\ IsInjective(fetched)
        BY Zenon DEF SatOK
      <3>2. IsSeq(fetched) /\ IsSeq(new)
        BY <2>2, <3>1, Zenon DEF IsSeq
      <3>. QED BY <2>1, <2>2, <3>1, <3>2, ConcatProperties, Joining, JoinInjective, Zenon
    <2>4. results = <<>> /\ Len(fetched') \in Nat
      BY <2>1, <2>3, LenProperties, Zenon DEF SatOK
    <2>. QED BY <2>1, <2>3, <2>4 DEF TaskOK, SatOK, FailedEarly, Counted, CountIs
  <1>11. CASE SatProcess
    <2> DEFINE n == Len(results)
               h == fetched[n + 1]
    <2>1. /\ pc = "process" /\ n < Len(fetched)
          /\ UNCHANGED <<source_type, listing, page, fetched, inflight, answers>>
      BY <1>11, Zenon DEF SatProcess, Unprocessed, serverVars, satVars
    <2>2. n \in Nat /\ DOMAIN results = 1 .. n /\ Len(fetched) \in Nat /\ DOMAIN fetched = 1 .. Len(fetched)
      BY SeqFacts, LenProperties, Zenon DEF TaskOK, SatOK
    <2>3. n + 1 \in DOMAIN fetched /\ h \in ToSet(fetched)
      BY <2>1, <2>2 DEF ToSet
    <2>4. h \in DOMAIN answers /\ answers[h] \in {"success", "failed", "error"}
      BY <2>1, <2>3, Zenon DEF SatOK
    <2>5. ~Named1(h)
      <3>1. \A i \in 1 .. n : i \in DOMAIN fetched /\ i # n + 1
        BY <2>1, <2>2
      <3>2. \A i \in 1 .. n : results[i].name = fetched[i]
        BY Zenon DEF SatOK
      <3>. QED BY <2>2, <2>3, <3>1, <3>2, Zenon DEF Named1, SatOK, IsInjective
    <2>6. CASE answers[h] = "error"
      <3>1. /\ pc' = "done" /\ status' = "failed"
            /\ UNCHANGED <<stats, conns, results>>
        BY <1>11, <2>6, Zenon DEF SatProcess, Raise, rowVars
      <3>. QED BY <2>1, <3>1, Zenon DEF TaskOK, SatOK, FailedEarly, Counted, CountIs
    <2>7. CASE answers[h] # "error"
      <3>1. /\ SaveResult(h, answers[h], HostFacts(answers[h]))
            /\ UNCHANGED <<pc, status, jobFailed>>
        BY <1>11, <2>7, Zenon DEF SatProcess
      <3>2. answers[h] \in {"success", "failed"} /\ answers[h] \in Statuses
        BY <2>4, <2>7, Zenon DEF Statuses
      <3> HIDE DEF h, n
      <3>3. /\ IsSeq(results') /\ Len(results') = n + 1
            /\ results'[n + 1].name = h /\ results'[n + 1].status = answers[h]
            /\ \A i \in 1 .. n : results'[i] = results[i]
            /\ \A i, j \in DOMAIN results' : results'[i].name = results'[j].name => i = j
            /\ stats' \in StatsRow /\ stats'.count = stats.count
            /\ CountIs(<<>>, results) => CountIs(<<>>, results)'
        BY <2>5, <3>1, <3>2, Saving, Zenon DEF n
      <3>4. conns' = conns
        BY <3>1, Zenon DEF SaveResult
      <3>5. TaskOK' /\ FailedEarly' /\ Counted'
        BY <2>1, <3>1, <3>3, <3>4, Zenon DEF TaskOK, FailedEarly, Counted
      <3>6. \A i \in 1 .. n + 1 : i \in 1 .. n \/ i = n + 1
        BY <2>2
      <3>7. ASSUME NEW i \in 1 .. n + 1
            PROVE  /\ results'[i].name = fetched[i]
                   /\ results'[i].status \in {"success", "failed"}
                   /\ answers[fetched[i]] # "error"
        <4>1. CASE i \in 1 .. n
          BY <3>3, <4>1, Zenon DEF SatOK, n
        <4>2. CASE i = n + 1
          BY <2>7, <3>2, <3>3, <4>2, Zenon DEF h
        <4>. QED BY <3>6, <4>1, <4>2, Zenon
      <3>8. n + 1 <= Len(fetched) /\ status # "completed"
        BY <2>1, <2>2 DEF TaskOK
      <3>. QED BY <2>1, <3>1, <3>3, <3>5, <3>7, <3>8, Zenon DEF SatOK
    <2>. QED BY <2>6, <2>7, Zenon
  <1>12. CASE SatDone
    <2>1. /\ stats' = [stats EXCEPT !.count = stats.scanned + stats.failed + stats.unreachable]
          /\ UNCHANGED <<source_type, jobFailed, conns, results, listing, page, fetched, inflight, answers>>
          /\ pc = "process" /\ pc' = "done" /\ status' = "completed"
          /\ ~Unprocessed
      BY <1>12, Zenon DEF SatDone, Finish, rowVars, serverVars, satVars
    <2>2. /\ stats' \in StatsRow
          /\ stats'.scanned = stats.scanned /\ stats'.failed = stats.failed
          /\ stats'.unreachable = stats.unreachable
          /\ stats'.count = stats.scanned + stats.failed + stats.unreachable
      BY <2>1 DEF TaskOK, StatsRow
    <2>3. Len(results) = Len(fetched)
      BY <2>1, SeqFacts, LenProperties DEF Unprocessed, SatOK, TaskOK
    <2>. QED BY <2>1, <2>2, <2>3, Zenon DEF TaskOK, SatOK, FailedEarly, Counted, CountIs
  <1>. QED BY <1>1, <1>2, <1>3, <1>4, <1>5, <1>8, <1>9, <1>10, <1>11, <1>12, Zenon DEF SatNext

(* Rows of one status are counted under it and under no other. *)
LEMMA RowsCounted ==
    ASSUME NEW T, NEW names \in Seq(T), NEW r
    PROVE  /\ WithStatus(Rows(names, r), r) = Len(names)
           /\ \A x : x # r => WithStatus(Rows(names, r), x) = 0
  <1> DEFINE rows == Rows(names, r)
  <1>1. /\ Len(names) \in Nat
        /\ DOMAIN rows = 1 .. Len(names)
        /\ \A i \in 1 .. Len(names) : rows[i].status = r
    <2>1. /\ IsSeq(rows) /\ Len(rows) = Len(names)
          /\ \A i \in 1 .. Len(names) : rows[i] = [name |-> names[i], status |-> r]
      BY RowsFacts, Zenon
    <2>2. DOMAIN rows = 1 .. Len(names) /\ Len(names) \in Nat
      BY <2>1, SeqFacts, Zenon
    <2> HIDE DEF rows
    <2>. QED BY <2>1, <2>2
  <1> HIDE DEF rows
  <1>2. {i \in DOMAIN rows : rows[i].status = r} = 1 .. Len(names)
    BY <1>1, Zenon
  <1>3. \A x : x # r => {i \in DOMAIN rows : rows[i].status = x} = {}
    BY <1>1, Zenon
  <1>4. Cardinality(1 .. Len(names)) = Len(names)
    <2>1. Cardinality(1 .. Len(names)) = IF 1 > Len(names) THEN 0 ELSE Len(names) - 1 + 1
      BY <1>1, FS_Interval
    <2>. QED BY <1>1, <2>1
  <1>. QED BY <1>2, <1>3, <1>4, FS_EmptySet, Zenon DEF WithStatus, rows

(* The vcenter runner. *)
LEMMA VcKeeps ==
    ASSUME TaskOK, VcOK, FailedEarly, Counted, source_type = "vcenter", VcNext
    PROVE  (TaskOK /\ VcOK /\ FailedEarly /\ Counted)'
  <1>1. CASE VcConnectFails
    BY <1>1, Zenon DEF VcConnectFails, Finish, Raise, rowVars, serverVars, vcVars, Machines,
                TaskOK, VcOK, FailedEarly, Counted, CountIs
  <1>2. CASE VcConnect
    <2>1. /\ pc = "start" /\ pc' = "login" /\ conns' = Rows(listing, "success")
          /\ stats' = [stats EXCEPT !.scanned = @ + Len(listing)]
          /\ UNCHANGED <<source_type, status, jobFailed, results, listing, objects>>
      BY <1>2, Zenon DEF VcConnect, Goto, serverVars, vcVars
    <2>2. /\ IsSeq(conns') /\ Len(listing) \in Nat /\ WithStatus(conns', "success") = Len(listing)
          /\ WithStatus(conns', "failed") = 0 /\ WithStatus(conns', "unreachable") = 0
      BY <2>1, RowsFacts, RowsCounted, LenProperties DEF TaskOK
    <2>3. results = <<>> /\ stats = Zero
      BY <2>1, Zenon DEF VcOK
    <2>4. /\ stats' \in StatsRow /\ stats'.scanned = Len(listing)
          /\ stats'.failed = 0 /\ stats'.unreachable = 0
      BY <2>1, <2>2, <2>3 DEF StatsRow, Zero
    <2>5. CountIs(conns, results)'
      BY <2>1, <2>2, <2>3, <2>4, CountNone, SMTT(30) DEF CountIs
    <2>. QED BY <2>1, <2>2, <2>4, <2>5, Zenon DEF TaskOK, VcOK, FailedEarly, Counted, Machines
  <1>3. CASE VcInspectFails
    BY <1>3, Zenon DEF VcInspectFails, Finish, Raise, rowVars, serverVars, vcVars, Machines,
                TaskOK, VcOK, FailedEarly, Counted, CountIs
  <1>4. CASE VcInspect
    BY <1>4, Zenon DEF VcInspect, Goto, rowVars, serverVars, vcVars, Machines,
                TaskOK, VcOK, FailedEarly, Counted, CountIs
  <1>5. CASE VcRetrieve
    <2>1. PICK o \in Unretrieved : objects' = Append(objects, o)
      BY <1>5, Zenon DEF VcRetrieve
    <2>2. pc = "retrieve" /\ UNCHANGED <<source_type, pc, status, jobFailed, stats, conns, results, listing>>
      BY <1>5, Zenon DEF VcRetrieve, scanVars, taskVars, rowVars, serverVars
    <2>3. o \in Inventory \cup Systems /\ o \notin ToSet(objects)
      <3>1. \A i \in 1 .. Len(listing) : listing[i] \in Systems
        BY ElementOfSeq, Zenon DEF TaskOK
      <3>2. ToSet(listing) \subseteq Systems
        BY <3>1, LenProperties, Zenon DEF ToSet, TaskOK
      <3>. QED BY <2>1, <3>2, Zenon DEF Unretrieved, FilterSet
    <2>4. objects' \in Seq(Inventory \cup Systems) /\ IsInjective(objects')
      <3>1. objects \in Seq(Inventory \cup Systems) /\ IsInjective(objects)
        BY Zenon DEF VcOK
      <3>. QED BY <2>1, <2>3, <3>1, AppendInjection, Zenon
    <2>5. Len(Machines') \in Nat
      <3>1. Only(objects', Systems) \in Seq((Inventory \cup Systems) \cap Systems)
        BY <2>4, OnlyFacts, Zenon
      <3>. QED BY <3>1, LenProperties, Zenon DEF Machines
    <2>6. results = <<>> /\ Len(results) = 0
      BY <2>2, Zenon DEF VcOK
    <2>. QED BY <2>2, <2>4, <2>5, <2>6 DEF TaskOK, VcOK, FailedEarly, Counted, CountIs
  <1>6. CASE VcRetrieved
    <2>1. /\ pc = "retrieve" /\ pc' = "machines" /\ ToSet(listing) \subseteq ToSet(objects)
          /\ UNCHANGED <<source_type, status, jobFailed, stats, conns, results, listing, objects>>
      BY <1>6, Zenon DEF VcRetrieved, Goto, rowVars, serverVars, vcVars, Unretrieved, FilterSet
    <2>. QED BY <2>1, Zenon DEF TaskOK, VcOK, FailedEarly, Counted, CountIs, Machines
  <1>7. Machines \in Seq(Systems) /\ IsInjective(Machines) /\ ToSet(Machines) = ToSet(objects) \cap Systems
    <2>1. /\ Only(objects, Systems) \in Seq((Inventory \cup Systems) \cap Systems)
          /\ IsInjective(Only(objects, Systems))
          /\ ToSet(Only(objects, Systems)) = ToSet(objects) \cap Systems
      BY OnlyFacts, Zenon DEF VcOK
    <2>. QED BY <2>1, SeqMonotonic, Zenon DEF Machines
  <1>8. CASE VcMachine
    <2> DEFINE n == Len(results)
               vm == Machines[n + 1]
    <2>1. /\ pc = "machines" /\ n < Len(Machines)
          /\ SaveResult(vm, "success", Placement(vm, ToSet(objects)))
          /\ UNCHANGED <<source_type, pc, status, jobFailed, listing, objects>>
      BY <1>8, Zenon DEF VcMachine, serverVars, vcVars
    <2>2. n \in Nat /\ DOMAIN results = 1 .. n /\ Len(Machines) \in Nat /\ DOMAIN Machines = 1 .. Len(Machines)
      BY <1>7, SeqFacts, LenProperties, Zenon DEF TaskOK
    <2>3. ~Named1(vm)
      <3>1. \A i \in 1 .. n : i \in DOMAIN Machines /\ i # n + 1
        BY <2>1, <2>2
      <3>2. \A i \in 1 .. n : results[i].name = Machines[i]
        BY Zenon DEF VcOK
      <3>3. n + 1 \in DOMAIN Machines
        BY <2>1, <2>2
      <3>. QED BY <1>7, <2>2, <3>1, <3>2, <3>3, Zenon DEF Named1, IsInjective
    <2> HIDE DEF vm, n
    <2>4. "success" \in Statuses
      BY Zenon DEF Statuses
    <2>5. /\ IsSeq(results') /\ Len(results') = n + 1
          /\ results'[n + 1].name = vm
          /\ \A i \in 1 .. n : results'[i] = results[i]
          /\ \A i, j \in DOMAIN results' : results'[i].name = results'[j].name => i = j
          /\ stats' \in StatsRow
          /\ CountIs(conns, results) => CountIs(conns, results)'
      BY <2>1, <2>3, <2>4, Saving, Zenon DEF n
    <2>6. conns' = conns
      BY <2>1, Zenon DEF SaveResult
    <2>7. TaskOK' /\ FailedEarly' /\ Counted'
      BY <2>1, <2>5, <2>6, Zenon DEF TaskOK, FailedEarly, Counted
    <2>8. ASSUME NEW i \in 1 .. n + 1 PROVE results'[i].name = Machines[i]
      <3>1. CASE i \in 1 .. n
        BY <2>5, <3>1, Zenon DEF VcOK, n
      <3>2. CASE i = n + 1
        BY <2>5, <3>2, Zenon DEF vm
      <3>. QED BY <2>2, <3>1, <3>2, SMTT(30)
    <2>9. n + 1 <= Len(Machines) /\ status # "completed" /\ Machines' = Machines
      BY <2>1, <2>2 DEF TaskOK, Machines
    <2>. QED BY <2>1, <2>5, <2>7, <2>8, <2>9, Zenon DEF VcOK
  <1>9. CASE VcDone
    BY <1>9, Zenon DEF VcDone, Finish, rowVars, serverVars, vcVars, Machines,
                TaskOK, VcOK, FailedEarly, Counted, CountIs
  <1>. QED BY <1>1, <1>2, <1>3, <1>4, <1>5, <1>6, <1>8, <1>9, Zenon DEF VcNext

(* The connection of a source that is one system is counted. *)
LEMMA Connecting ==
    ASSUME conns = <<>>, NEW result \in Statuses, NEW next, SaveConnection(Restarted(1), result, next)
    PROVE  /\ IsSeq(conns') /\ stats' \in StatsRow /\ results' = results
           /\ CountIs(conns, <<>>)'
           /\ \/ pc' = next /\ status' = status
              \/ pc' = "done" /\ status' = "failed"
  <1> DEFINE row == [name |-> Self, status |-> result]
  <1>1. /\ conns' = Append(<<>>, row) /\ stats' = Increment(Restarted(1), result) /\ results' = results
        /\ \/ pc' = next /\ status' = status
           \/ pc' = "done" /\ status' = "failed"
    BY Zenon DEF SaveConnection, Goto, Finish
  <1>2. IsSeq(<<>>)
    BY DEF IsSeq
  <1>3. row.status = result
    BY Zenon
  <1> HIDE DEF row
  <1>4. IsSeq(conns') /\ \A r : WithStatus(conns', r) = IF result = r THEN 1 ELSE 0
    <2>1. \A r : WithStatus(Append(<<>>, row), r) = WithStatus(<<>>, r) + (IF row.status = r THEN 1 ELSE 0)
      BY <1>2, CountOne, Zenon
    <2>2. IsSeq(Append(<<>>, row))
      BY <1>2, Appending, Zenon
    <2>. QED BY <1>1, <1>3, <2>1, <2>2, CountNone
  <1>5. /\ stats' \in StatsRow
        /\ stats'.scanned = (IF result = "success" THEN 1 ELSE 0)
        /\ stats'.failed = (IF result = "failed" THEN 1 ELSE 0)
        /\ stats'.unreachable = (IF result = "unreachable" THEN 1 ELSE 0)
    <2> DEFINE s == Restarted(1)
    <2>1. s \in StatsRow /\ s.scanned = 0 /\ s.failed = 0 /\ s.unreachable = 0
      BY Zenon DEF Restarted, Zero, StatsRow
    <2> HIDE DEF s
    <2>2. stats' = Increment(s, result)
      BY <1>1, Zenon DEF s
    <2>. QED BY <2>1, <2>2 DEF Increment, StatsRow, Statuses
  <1>. QED BY <1>1, <1>4, <1>5, CountNone DEF CountIs

(* The openshift runner. *)
LEMMA OcpKeeps ==
    ASSUME TaskOK, OcpOK, FailedEarly, Counted, source_type = "openshift", OcpNext
    PROVE  (TaskOK /\ OcpOK /\ FailedEarly /\ Counted)'
  <1>1. CASE OcpClientFails
    <2>1. /\ pc \in {"start", "cluster"} /\ pc' = "done" /\ status' = "failed"
          /\ stats' = IF pc = "start" THEN Restarted(1) ELSE stats
          /\ UNCHANGED <<source_type, conns, results, listing, nodes>>
      BY <1>1, Zenon DEF OcpClientFails, Finish, Raise, rowVars, serverVars, ocpVars
    <2>2. results = <<>> /\ CountIs(conns, <<>>) /\ (pc = "start" => conns = <<>> /\ stats = Zero)
      BY <2>1, Zenon DEF OcpOK, Counted
    <2>3. /\ stats' \in StatsRow /\ stats'.scanned = stats.scanned
          /\ stats'.failed = stats.failed /\ stats'.unreachable = stats.unreachable
      BY <2>1, <2>2, Zenon DEF Restarted, Zero, StatsRow, TaskOK
    <2>. QED BY <2>1, <2>2, <2>3, Zenon DEF TaskOK, OcpOK, FailedEarly, Counted, CountIs
  <1>2. CASE OcpConnect
    <2>1. /\ pc = "start" /\ conns = <<>> /\ results = <<>>
          /\ UNCHANGED <<source_type, listing, nodes>>
      BY <1>2, Zenon DEF OcpConnect, OcpOK, serverVars, ocpVars
    <2>2. PICK result \in Statuses : SaveConnection(Restarted(1), result, "cluster")
      BY <1>2, Zenon DEF OcpConnect
    <2>3. /\ IsSeq(conns') /\ stats' \in StatsRow /\ results' = results
          /\ CountIs(conns, <<>>)'
          /\ \/ pc' = "cluster" /\ status' = status
             \/ pc' = "done" /\ status' = "failed"
      BY <2>1, <2>2, Connecting, Zenon
    <2>. QED BY <2>1, <2>3, Zenon DEF TaskOK, OcpOK, FailedEarly, Counted
  <1>3. CASE OcpListFails
    BY <1>3, Zenon DEF OcpListFails, Raise, rowVars, serverVars, ocpVars,
                TaskOK, OcpOK, FailedEarly, Counted, CountIs
  <1>4. CASE OcpCluster
    BY <1>4, Zenon DEF OcpCluster, Goto, rowVars, serverVars, ocpVars,
                TaskOK, OcpOK, FailedEarly, Counted, CountIs
  <1>5. CASE OcpNodes
    <2>1. /\ pc = "nodes" /\ pc' = "node" /\ nodes' = listing
          /\ stats' = Restarted(Len(listing) + 1) /\ results = <<>>
          /\ UNCHANGED <<source_type, status, jobFailed, conns, results, listing>>
      BY <1>5, Zenon DEF OcpNodes, Goto, rowVars, serverVars, OcpOK
    <2>2. Len(listing) \in Nat
      BY LenProperties, Zenon DEF TaskOK
    <2>3. /\ stats' \in StatsRow /\ stats'.count = Len(listing) + 1
          /\ stats'.scanned = 0 /\ stats'.failed = 0 /\ stats'.unreachable = 0
      BY <2>1, <2>2 DEF Restarted, Zero, StatsRow
    <2>4. CountIs(<<>>, results)'
      BY <2>1, <2>3, CountNone DEF CountIs
    <2>5. TaskOK' /\ FailedEarly' /\ Counted'
      BY <2>1, <2>3, <2>4, Zenon DEF TaskOK, FailedEarly, Counted
    <2>6. Len(results') + Len(nodes') + 1 = Len(listing) + 1 /\ DOMAIN results = {} /\ status # "completed"
      BY <2>1, <2>2 DEF TaskOK
    <2>7. nodes' \in Seq(Systems) /\ IsInjective(nodes')
      BY <2>1, Zenon DEF TaskOK
    <2>. QED BY <2>1, <2>3, <2>5, <2>6, <2>7, Zenon DEF OcpOK
  <1>6. CASE OcpSaveNode
    <2> DEFINE n == Len(results)
               node == Head(nodes)
    <2>1. /\ pc = "node" /\ nodes # <<>> /\ SaveResult(node, "success", {"node"})
          /\ nodes' = Tail(nodes)
          /\ UNCHANGED <<source_type, pc, status, jobFailed, listing>>
      BY <1>6, Zenon DEF OcpSaveNode, serverVars
    <2>2. /\ nodes \in Seq(Systems) /\ IsInjective(nodes)
          /\ \A i \in DOMAIN results : results[i].name \in Systems \ ToSet(nodes)
          /\ \A i \in DOMAIN results : results[i].status \in {"success", "failed"}
          /\ \A s \in ToSet(listing) : s \in ToSet(nodes) \/ Named1(s)
          /\ stats.count = Len(results) + Len(nodes) + 1
      BY <2>1, Zenon DEF OcpOK
    <2>3. n \in Nat /\ DOMAIN results = 1 .. n
      BY SeqFacts, Zenon DEF TaskOK
    <2>4. /\ nodes' \in Seq(Systems) /\ IsInjective(nodes') /\ Len(nodes') = Len(nodes) - 1
          /\ node \in Systems /\ ToSet(nodes) = ToSet(nodes') \cup {node} /\ node \notin ToSet(nodes')
          /\ Len(nodes) \in Nat
      BY <2>1, <2>2, TailFacts, Zenon
    <2>5. ~Named1(node)
      BY <2>2, <2>4, Zenon DEF Named1
    <2> HIDE DEF node, n
    <2>6. /\ IsSeq(results') /\ Len(results') = n + 1
          /\ results'[n + 1].name = node /\ results'[n + 1].status = "success"
          /\ \A i \in 1 .. n : results'[i] = results[i]
          /\ \A i, j \in DOMAIN results' : results'[i].name = results'[j].name => i = j
          /\ stats' \in StatsRow /\ stats'.count = stats.count
          /\ CountIs(<<>>, results) => CountIs(<<>>, results)'
      <3>1. "success" \in Statuses
        BY Zenon DEF Statuses
      <3>. QED BY <2>1, <2>5, <3>1, Saving, Zenon DEF n
    <2>7. conns' = conns
      BY <2>1, Zenon DEF SaveResult
    <2>8. TaskOK' /\ FailedEarly' /\ Counted'
      BY <2>1, <2>6, <2>7, Zenon DEF TaskOK, FailedEarly, Counted
    <2>9. DOMAIN results' = (1 .. n) \cup {n + 1}
      <3>1. DOMAIN results' = 1 .. n + 1
        BY <2>6, SeqFacts, Zenon
      <3>. QED BY <2>3, <3>1
    <2>10. /\ \A i \in DOMAIN results' : results'[i].name \in Systems \ ToSet(nodes')
           /\ \A i \in DOMAIN results' : results'[i].status \in {"success", "failed"}
      BY <2>2, <2>3, <2>4, <2>6, <2>9, Zenon
    <2>11. \A s : (Named1(s) \/ s = node) => Named1(s)'
      BY <2>3, <2>6, <2>9, Zenon DEF Named1
    <2>12. \A s \in ToSet(listing) : s \in ToSet(nodes') \/ Named1(s)'
      BY <2>2, <2>4, <2>11, Zenon
    <2>13. stats'.count = Len(results') + Len(nodes') + 1 /\ status # "completed"
      <3>1. Len(results) + Len(nodes) + 1 = Len(results) + 1 + (Len(nodes) - 1) + 1
        BY <2>3, <2>4 DEF n
      <3>. QED BY <2>1, <2>2, <2>4, <2>6, <3>1, Zenon DEF n, TaskOK
    <2>. QED BY <2>1, <2>4, <2>8, <2>10, <2>12, <2>13, Zenon DEF OcpOK
  <1>7. CASE OcpExtraFact
    <2>1. /\ pc = "node"
          /\ (pc' = pc /\ status' = status) \/ (pc' = "done" /\ status' = "failed")
          /\ UNCHANGED <<source_type, stats, conns, results, listing, nodes>>
      BY <1>7, Zenon DEF OcpExtraFact, Raise, rowVars, serverVars
    <2>. QED BY <2>1, Zenon DEF TaskOK, OcpOK, FailedEarly, Counted, CountIs, Named1
  <1>8. CASE OcpSaveCluster
    <2> DEFINE n == Len(results)
               result == IF errors = {} THEN "success" ELSE "failed"
    <2>1. /\ pc = "node" /\ nodes = <<>> /\ pc' = "done" /\ status' \in {"completed", "failed"}
          /\ SaveResult(Self, result, collected \union {"cluster"})
          /\ UNCHANGED <<source_type, listing, nodes>>
      BY <1>8, Zenon DEF OcpSaveCluster, Finish, serverVars, ocpVars
    <2>2. /\ \A i \in DOMAIN results : results[i].name \in Systems
          /\ \A i \in DOMAIN results : results[i].status \in {"success", "failed"}
          /\ \A s \in ToSet(listing) : Named1(s)
          /\ stats.count = Len(results) + 1
      <3>1. ToSet(nodes) = {} /\ Len(nodes) = 0
        BY <2>1 DEF ToSet
      <3>2. n \in Nat
        BY SeqFacts, Zenon DEF TaskOK
      <3>3. /\ stats.count = Len(results) + Len(nodes) + 1
            /\ \A i \in DOMAIN results : results[i].name \in Systems \ ToSet(nodes)
            /\ \A i \in DOMAIN results : results[i].status \in {"success", "failed"}
            /\ \A s \in ToSet(listing) : s \in ToSet(nodes) \/ Named1(s)
        BY <2>1, Zenon DEF OcpOK
      <3>. QED BY <3>1, <3>2, <3>3
    <2>3. n \in Nat /\ DOMAIN results = 1 .. n
      BY SeqFacts, Zenon DEF TaskOK
    <2>4. ~Named1(Self)
      BY <2>2, SystemsAssumption, Zenon DEF Named1
    <2>5. result \in Statuses /\ result \in {"success", "failed"}
      BY Zenon DEF Statuses
    <2> HIDE DEF result, n
    <2>6. /\ IsSeq(results') /\ Len(results') = n + 1
          /\ results'[n + 1].status = result
          /\ \A i \in 1 .. n : results'[i] = results[i]
          /\ \A i, j \in DOMAIN results' : results'[i].name = results'[j].name => i = j
          /\ stats' \in StatsRow /\ stats'.count = stats.count
          /\ CountIs(<<>>, results) => CountIs(<<>>, results)'
      BY <2>1, <2>4, <2>5, Saving, Zenon DEF n
    <2>7. conns' = conns
      BY <2>1, Zenon DEF SaveResult
    <2>8. TaskOK' /\ FailedEarly' /\ Counted'
      BY <2>1, <2>6, <2>7, Zenon DEF TaskOK, FailedEarly, Counted
    <2>9. DOMAIN results' = (1 .. n) \cup {n + 1}
      <3>1. DOMAIN results' = 1 .. n + 1
        BY <2>6, SeqFacts, Zenon
      <3>. QED BY <2>3, <3>1
    <2>10. \A i \in DOMAIN results' : results'[i].status \in {"success", "failed"}
      BY <2>2, <2>3, <2>5, <2>6, <2>9, Zenon
    <2>11. \A s : Named1(s) => Named1(s)'
      BY <2>3, <2>6, <2>9, Zenon DEF Named1
    <2>12. stats'.count = Len(results') /\ results' # <<>>
      BY <2>2, <2>3, <2>6, SMTT(30) DEF n
    <2>. QED BY <2>1, <2>2, <2>8, <2>10, <2>11, <2>12, Zenon DEF OcpOK
  <1>. QED BY <1>1, <1>2, <1>3, <1>4, <1>5, <1>6, <1>7, <1>8, Zenon DEF OcpNext

(* A step that changes no row and no counter of the task. *)
Moves ==
    /\ UNCHANGED <<source_type, stats, conns, results, listing, added, removed>>
    /\ pc # "done"
    /\ \/ status' = status /\ pc' # "start"
       \/ pc' = "done" /\ status' \in {"failed", "completed"}

(* A step of a source that is one system which collects a fact. *)
LEMMA MoveKeeps ==
    ASSUME TaskOK, SingleOK, FailedEarly, Counted,
           source_type \in {"ansible", "rhacs", "fingerprint"}, Moves
    PROVE  (TaskOK /\ SingleOK /\ FailedEarly /\ Counted)'
  BY Zenon DEF Moves, TaskOK, SingleOK, FailedEarly, Counted, CountIs

(* The connection check of a source that is one system. *)
LEMMA ConnectKeeps ==
    ASSUME TaskOK, SingleOK, FailedEarly, Counted,
           source_type \in {"ansible", "rhacs"}, pc = "start", UNCHANGED <<source_type, listing>>,
           NEW result \in Statuses, NEW next, next \notin {"start", "done"},
           SaveConnection(Restarted(1), result, next)
    PROVE  (TaskOK /\ SingleOK /\ FailedEarly /\ Counted)'
  <1>1. conns = <<>> /\ results = <<>>
    BY Zenon DEF SingleOK
  <1>2. /\ IsSeq(conns') /\ stats' \in StatsRow /\ results' = results
        /\ CountIs(conns, <<>>)'
        /\ \/ pc' = next /\ status' = status
           \/ pc' = "done" /\ status' = "failed"
    BY <1>1, Connecting, Zenon
  <1>3. CountIs(conns, results)'
    BY <1>1, <1>2, Zenon DEF CountIs
  <1>. QED BY <1>1, <1>2, <1>3, Zenon DEF TaskOK, SingleOK, FailedEarly, Counted

(* The result of a source that is one system. *)
LEMMA SaveKeeps ==
    ASSUME TaskOK, SingleOK, FailedEarly, Counted,
           source_type \in {"ansible", "rhacs"}, pc # "done", UNCHANGED <<source_type, listing>>,
           NEW result \in Statuses, NEW found, SaveResult(Self, result, found),
           pc' = "done", status' \in {"failed", "completed"}
    PROVE  (TaskOK /\ SingleOK /\ FailedEarly /\ Counted)'
  <1>1. results = <<>>
    BY Zenon DEF SingleOK
  <1>2. ~Named1(Self) /\ conns' = conns
    BY <1>1 DEF Named1, SaveResult
  <1>3. /\ IsSeq(results')
        /\ \A i, j \in DOMAIN results' : results'[i].name = results'[j].name => i = j
        /\ stats' \in StatsRow
        /\ CountIs(conns, results) => CountIs(conns, results)'
    BY <1>2, Saving, Zenon
  <1>. QED BY <1>2, <1>3, Zenon DEF TaskOK, SingleOK, FailedEarly, Counted

(* The ansible runner. *)
LEMMA AapKeeps ==
    ASSUME TaskOK, SingleOK, FailedEarly, Counted, source_type = "ansible", AapNext
    PROVE  (TaskOK /\ SingleOK /\ FailedEarly /\ Counted)'
  <1>1. CASE AapConnect
    <2>1. /\ pc = "start" /\ UNCHANGED <<source_type, listing>>
          /\ \E result \in Statuses : SaveConnection(Restarted(1), result, "instance_details")
      BY <1>1, Zenon DEF AapConnect, serverVars
    <2>. QED BY <2>1, ConnectKeeps
  <1>2. CASE AapSave
    <2>1. /\ pc = "save" /\ UNCHANGED <<source_type, listing>>
          /\ \E result \in Statuses : \E found : SaveResult(Self, result, found)
          /\ pc' = "done" /\ status' \in {"failed", "completed"}
      BY <1>2, Zenon DEF AapSave, Finish, serverVars, Statuses
    <2>. QED BY <2>1, SaveKeeps, Zenon
  <1>3. CASE AapClientFails
    BY <1>3, MoveKeeps, Zenon DEF AapClientFails, Finish, rowVars, serverVars, Moves
  <1>4. CASE AapInstanceDetails
    BY <1>4, MoveKeeps, Zenon DEF AapInstanceDetails, FactCollected, FactLost, Goto, rowVars, serverVars, Moves
  <1>5. CASE AapHosts
    BY <1>5, MoveKeeps, Zenon DEF AapHosts, FactLost, Goto, rowVars, serverVars, Moves
  <1>6. ASSUME NEW p \in pages, AapPage(p)
        PROVE  (TaskOK /\ SingleOK /\ FailedEarly /\ Counted)'
    BY <1>6, MoveKeeps, Zenon DEF AapPage, FactCollected, Goto, rowVars, serverVars, Moves
  <1>7. ASSUME NEW p \in pages, AapPageFails(p)
        PROVE  (TaskOK /\ SingleOK /\ FailedEarly /\ Counted)'
    BY <1>7, MoveKeeps, Zenon DEF AapPageFails, FactLost, Goto, rowVars, serverVars, Moves
  <1>8. CASE AapJobs
    BY <1>8, MoveKeeps, Zenon DEF AapJobs, UniqueHosts, FactCollected, FactLost, Goto, rowVars, serverVars, Moves
  <1>9. CASE AapRaises
    BY <1>9, MoveKeeps, Zenon DEF AapRaises, Raise, rowVars, serverVars, Moves
  <1>. QED BY <1>1, <1>2, <1>3, <1>4, <1>5, <1>6, <1>7, <1>8, <1>9, Zenon DEF AapNext

(* The rhacs runner. *)
LEMMA AcsKeeps ==
    ASSUME TaskOK, SingleOK, FailedEarly, Counted, source_type = "rhacs", AcsNext
    PROVE  (TaskOK /\ SingleOK /\ FailedEarly /\ Counted)'
  <1>1. CASE AcsConnect
    <2>1. /\ pc = "start" /\ UNCHANGED <<source_type, listing>>
          /\ \E result \in Statuses : SaveConnection(Restarted(1), result, "secured_units_current")
      BY <1>1, Zenon DEF AcsConnect, serverVars
    <2>. QED BY <2>1, ConnectKeeps
  <1>2. CASE AcsSave
    <2>1. /\ pc = "save" /\ UNCHANGED <<source_type, listing>>
          /\ \E result \in Statuses : \E found : SaveResult(Self, result, found)
          /\ pc' = "done" /\ status' \in {"failed", "completed"}
      BY <1>2, Zenon DEF AcsSave, Finish, serverVars, Statuses
    <2>. QED BY <2>1, SaveKeeps, Zenon
  <1>3. CASE AcsMetric("secured_units_current", "secured_units_max")
    BY <1>3, MoveKeeps, Zenon DEF AcsMetric, Goto, Raise, rowVars, serverVars, Moves
  <1>4. CASE AcsMetric("secured_units_max", "save")
    BY <1>4, MoveKeeps, Zenon DEF AcsMetric, Goto, Raise, rowVars, serverVars, Moves
  <1>. QED BY <1>1, <1>2, <1>3, <1>4, Zenon DEF AcsNext

-----------------------------------------------------------------------------
(***************************************************************************)
(* What has been read of a listing that comes in pages: a satellite's,     *)
(* which may grow between two pages, and a controller's, whose pages       *)
(* arrive in any order.                                                    *)
(***************************************************************************)
(* The hosts of a listing of the satellite, and how many of those the server    *)
(* lists come up to one of them.                                            *)
Scope(o) == IF api_version = 1 THEN {h \in Systems : OrgOf[h] = Orgs[o]} ELSE Systems
Position(o, h) == Cardinality(UpTo(listing, h) \cap Scope(o))

(* The systems of a listing that were there all the time. *)
Kept(o) == (ToSet(listing) \cap Scope(o)) \ added

(* While nothing is removed, no host is before the page to be read without        *)
(* having been fetched: what is added only moves hosts to later pages.          *)
Paging ==
    source_type = "satellite" /\ removed = {} =>
        /\ pc = "list" =>
              /\ org \in 1 .. Scopes
              /\ \A o \in 1 .. org - 1 : Kept(o) \subseteq ToSet(fetched)
              /\ \A h \in Kept(org) : Position(org, h) <= (page - 1) * PerPage => h \in ToSet(fetched)
        /\ pc \in {"details", "process"} \/ status = "completed" =>
              ToSet(listing) \ added \subseteq ToSet(fetched)

(* A host is at its place in the listing. *)
LEMMA Placed ==
    ASSUME TaskOK, NEW o, NEW h \in ToSet(listing) \cap Scope(o)
    PROVE  /\ Position(o, h) \in 1 .. Len(HostsOf(o))
           /\ HostsOf(o)[Position(o, h)] = h
  <1>1. listing \in Seq(Systems) /\ IsInjective(listing)
    BY Zenon DEF TaskOK
  <1>2. CASE api_version = 1
    <2> DEFINE S == Scope(o)
    <2>1. HostsOf(o) = Only(listing, S)
      BY <1>2, Zenon DEF HostsOf, Scope
    <2> HIDE DEF S
    <2>2. /\ Only(listing, S) \in Seq(Systems \cap S)
          /\ ToSet(Only(listing, S)) = ToSet(listing) \cap S
      BY <1>1, OnlyFacts, Zenon
    <2>3. PICK k \in 1 .. Len(Only(listing, S)) : Only(listing, S)[k] = h
      <3>1. h \in ToSet(Only(listing, S))
        BY <2>2, Zenon DEF S
      <3>2. DOMAIN Only(listing, S) = 1 .. Len(Only(listing, S))
        BY <2>2, LenProperties, Zenon
      <3>. QED BY <3>1, <3>2, Zenon DEF ToSet
    <2>4. Cardinality(UpTo(listing, h) \cap S) = k
      BY <1>1, <2>3, Ranked, Zenon
    <2>. QED BY <2>1, <2>3, <2>4, Zenon DEF Position, S
  <1>3. CASE api_version # 1
    <2>1. HostsOf(o) = listing /\ Scope(o) = Systems
      BY <1>3, Zenon DEF HostsOf, Scope
    <2>2. PICK k \in 1 .. Len(listing) : listing[k] = h
      BY <1>1, LenProperties, Zenon DEF ToSet
    <2>3. UpTo(listing, h) \subseteq Systems /\ Cardinality(UpTo(listing, h)) = k
      BY <1>1, <2>2, RankedAll, Zenon
    <2>4. UpTo(listing, h) \cap Systems = UpTo(listing, h)
      BY <2>3, Zenon
    <2>. QED BY <2>1, <2>2, <2>3, <2>4, Zenon DEF Position
  <1>. QED BY <1>2, <1>3, Zenon

(* What one page adds to the hosts fetched. *)
LEMMA PageRead ==
    ASSUME TaskOK, SatOK, source_type = "satellite", SatListPage
    PROVE  /\ ToSet(fetched') = ToSet(fetched) \cup ToSet(PageOf(HostsOf(org), page, PerPage))
           /\ \A h \in ToSet(listing) \cap Scope(org) :
                 Position(org, h) <= (page - 1) * PerPage \/ Position(org, h) > page * PerPage
                   \/ h \in ToSet(fetched')
           /\ Len(PageOf(HostsOf(org), page, PerPage)) # PerPage =>
                 \A h \in ToSet(listing) \cap Scope(org) : Position(org, h) < page * PerPage
  <1> DEFINE list == HostsOf(org)
             found == PageOf(list, page, PerPage)
             new == Only(found, Systems \ ToSet(fetched))
             a == (page - 1) * PerPage
             b == page * PerPage
  <1>1. list \in Seq(Systems) /\ IsInjective(list)
    BY HostsFacts, Zenon
  <1>2. page \in Nat \ {0} /\ PerPage \in Nat \ {0} /\ fetched \in Seq(Systems)
    BY SatelliteAssumption, Zenon DEF SatOK
  <1> HIDE DEF list
  <1>3. /\ found \in Seq(Systems)
        /\ ToSet(found) = {list[i] : i \in {i \in 1 .. Len(list) : a < i /\ i <= b}}
        /\ Len(found) # PerPage => Len(list) < b
    BY <1>1, <1>2, Page
  <1>4. a \in Nat /\ b \in Nat /\ Len(list) \in Nat
    BY <1>1, <1>2, LenProperties
  <1>5. fetched' = fetched \o new
    BY Zenon DEF SatListPage, list
  <1> HIDE DEF found, a, b
  <1>6. new \in Seq(Systems) /\ ToSet(new) = ToSet(found) \cap (Systems \ ToSet(fetched))
    <2>1. /\ new \in Seq(Systems \cap (Systems \ ToSet(fetched)))
          /\ ToSet(new) = ToSet(found) \cap (Systems \ ToSet(fetched))
      BY <1>3, OnlyFacts, Zenon
    <2>. QED BY <2>1, SeqMonotonic, Zenon
  <1> HIDE DEF new
  <1>7. ToSet(fetched') = ToSet(fetched) \cup ToSet(found)
    <2>1. IsSeq(fetched) /\ IsSeq(new)
      BY <1>2, <1>6, Zenon DEF IsSeq
    <2>2. ToSet(fetched') = ToSet(fetched) \cup ToSet(new)
      BY <1>5, <2>1, Joining, Zenon
    <2>3. ToSet(found) \subseteq Systems
      BY <1>3, LenProperties DEF ToSet
    <2>. QED BY <1>6, <2>2, <2>3, Zenon
  <1>8. ASSUME NEW h \in ToSet(listing) \cap Scope(org)
        PROVE  Position(org, h) \in 1 .. Len(list) /\ list[Position(org, h)] = h
    BY <1>8, Placed, Zenon DEF list
  <1>9. ASSUME NEW h \in ToSet(listing) \cap Scope(org)
        PROVE  Position(org, h) <= a \/ Position(org, h) > b \/ h \in ToSet(fetched')
    <2>1. Position(org, h) \in 1 .. Len(list) /\ list[Position(org, h)] = h
      BY <1>8, Zenon
    <2>2. CASE a < Position(org, h) /\ Position(org, h) <= b
      BY <1>3, <1>7, <2>1, <2>2, Zenon
    <2>. QED BY <1>4, <2>1, <2>2
  <1>10. ASSUME Len(found) # PerPage, NEW h \in ToSet(listing) \cap Scope(org)
         PROVE  Position(org, h) < b
    <2>1. Position(org, h) \in 1 .. Len(list)
      BY <1>8, Zenon
    <2>. QED BY <1>3, <1>4, <1>10, <2>1
  <1>. QED BY <1>7, <1>9, <1>10, Zenon DEF list, found, a, b

(* The listing is read through, whatever is added to it. *)
LEMMA PagingKept ==
    ASSUME TaskOK, SatOK, Paging, source_type = "satellite", SatNext
    PROVE  Paging'
  <1>1. CASE SatListPage
    <2> DEFINE full == Len(PageOf(HostsOf(org), page, PerPage)) = PerPage
    <2> SUFFICES ASSUME removed = {} PROVE Paging'
      BY <1>1, Zenon DEF SatListPage, serverVars, Paging
    <2>1. /\ UNCHANGED <<source_type, status, listing, added, removed, api_version>>
          /\ pc = "list" /\ status # "completed"
      BY <1>1, Zenon DEF SatListPage, serverVars, TaskOK
    <2>2. /\ full => page' = page + 1 /\ UNCHANGED <<org, pc>>
          /\ ~full => /\ page' = 1
                      /\ org' = IF org < Scopes THEN org + 1 ELSE 1
                      /\ pc' = IF org < Scopes THEN pc ELSE "details"
      BY <1>1, Zenon DEF SatListPage, TurnPage
    <2>3. /\ ToSet(fetched) \subseteq ToSet(fetched')
          /\ \A h \in Kept(org) :
                Position(org, h) <= (page - 1) * PerPage \/ Position(org, h) > page * PerPage
                  \/ h \in ToSet(fetched')
          /\ ~full => \A h \in Kept(org) : Position(org, h) < page * PerPage
      BY <1>1, PageRead, Zenon DEF Kept
    <2> HIDE DEF full
    <2>4. /\ org \in 1 .. Scopes
          /\ \A o \in 1 .. org - 1 : Kept(o) \subseteq ToSet(fetched)
          /\ \A h \in Kept(org) : Position(org, h) <= (page - 1) * PerPage => h \in ToSet(fetched)
      BY <2>1, Zenon DEF Paging
    <2>5. \A h \in Kept(org) : Position(org, h) \in Nat /\ Position(org, h) # 0
      <3>1. \A h \in Kept(org) : Position(org, h) \in 1 .. Len(HostsOf(org))
        BY Placed, Zenon DEF Kept
      <3>. QED BY <3>1
    <2>6. Scopes \in Nat /\ page \in Nat \ {0} /\ PerPage \in Nat \ {0} /\ page * PerPage \in Nat
      BY SatelliteAssumption DEF Scopes, SatOK
    <2>7. Scopes' = Scopes /\ \A o : Kept(o)' = Kept(o) /\ \A h : Position(o, h)' = Position(o, h)
      BY <2>1, Zenon DEF Scopes, Kept, Position, Scope
    <2>8. \A h \in Kept(org) : Position(org, h) <= page * PerPage => h \in ToSet(fetched')
      BY <2>3, <2>4, <2>5, <2>6
    <2>9. CASE full
      <3>1. (page' - 1) * PerPage = page * PerPage
        BY <2>2, <2>6, <2>9
      <3>2. /\ org' \in 1 .. Scopes'
            /\ \A o \in 1 .. org' - 1 : Kept(o)' \subseteq ToSet(fetched')
            /\ \A h \in Kept(org)' : Position(org, h)' <= (page' - 1) * PerPage => h \in ToSet(fetched')
        <4>1. org' = org
          BY <2>2, <2>9, Zenon
        <4>2. Kept(org)' = Kept(org) /\ \A h : Position(org, h)' = Position(org, h)
          BY <2>1, <4>1, Zenon DEF Kept, Position, Scope
        <4>. QED BY <2>3, <2>4, <2>7, <2>8, <3>1, <4>1, <4>2, Zenon
      <3>. QED BY <2>1, <2>2, <2>9, <3>2, Zenon DEF Paging
    <2>10. CASE ~full
      <3>1. Kept(org) \subseteq ToSet(fetched')
        BY <2>3, <2>5, <2>6, <2>8, <2>10
      <3>2. \A o \in 1 .. org : Kept(o) \subseteq ToSet(fetched')
        <4>1. \A o \in 1 .. org : o \in 1 .. org - 1 \/ o = org
          BY <2>4
        <4>. QED BY <2>3, <2>4, <3>1, <4>1, Zenon
      <3>3. CASE org < Scopes
        <4>1. page' = 1 /\ org' = org + 1 /\ pc' = pc
          BY <2>2, <2>10, <3>3, Zenon
        <4>2. org' \in 1 .. Scopes' /\ org' - 1 = org /\ (page' - 1) * PerPage = 0
          BY <2>4, <2>6, <2>7, <3>3, <4>1
        <4>3. \A h \in Kept(org)' : Position(org, h)' \in Nat /\ Position(org, h)' # 0
          <5>1. \A h \in Kept(org + 1) : Position(org + 1, h) \in 1 .. Len(HostsOf(org + 1))
            BY Placed, Zenon DEF Kept
          <5>2. \A h \in Kept(org + 1) : Position(org + 1, h) \in Nat /\ Position(org + 1, h) # 0
            BY <5>1
          <5>3. Kept(org)' = Kept(org + 1) /\ \A h : Position(org, h)' = Position(org + 1, h)
            BY <2>1, <4>1, Zenon DEF Kept, Position, Scope
          <5>. QED BY <5>2, <5>3, Zenon
        <4>4. \A h \in Kept(org)' : ~(Position(org, h)' <= (page' - 1) * PerPage)
          BY <4>2, <4>3
        <4>5. \A o \in 1 .. org' - 1 : Kept(o)' \subseteq ToSet(fetched')
          BY <2>7, <3>2, <4>2, Zenon
        <4>. QED BY <2>1, <4>1, <4>2, <4>4, <4>5, Zenon DEF Paging
      <3>4. CASE ~(org < Scopes)
        <4>1. org = Scopes /\ pc' = "details"
          BY <2>2, <2>4, <2>6, <2>10, <3>4
        <4>2. \A h \in Systems : \E o \in 1 .. Scopes : h \in Scope(o)
          <5>1. CASE api_version = 1
            BY <5>1, SatelliteAssumption, Zenon DEF Scopes, Scope
          <5>2. CASE api_version # 1
            BY <5>2 DEF Scopes, Scope
          <5>. QED BY <5>1, <5>2, Zenon
        <4>3. ToSet(listing) \subseteq Systems
          BY LenProperties DEF TaskOK, ToSet
        <4>4. ToSet(listing) \ added \subseteq ToSet(fetched')
          BY <3>2, <4>1, <4>2, <4>3, Zenon DEF Kept
        <4>. QED BY <2>1, <4>1, <4>4, Zenon DEF Paging
      <3>. QED BY <3>3, <3>4, Zenon
    <2>. QED BY <2>9, <2>10, Zenon
  <1>2. CASE SatHostsPage
    <2> SUFFICES ASSUME pc' = "list", removed = {} PROVE Paging'
      BY <1>2, Zenon DEF SatHostsPage, TurnPage, serverVars, Paging, TaskOK
    <2>1. /\ UNCHANGED <<source_type, status, listing, added, removed, api_version, fetched>>
          /\ pc = "hosts" /\ status # "completed" /\ page' = 1 /\ org' = 1
      BY <1>2, Zenon DEF SatHostsPage, TurnPage, serverVars, TaskOK
    <2>2. Scopes' \in Nat \ {0}
      BY <2>1, SatelliteAssumption DEF Scopes
    <2>3. \A h \in Kept(1) : Position(1, h) \in Nat /\ Position(1, h) # 0
      <3>1. \A h \in Kept(1) : Position(1, h) \in 1 .. Len(HostsOf(1))
        BY Placed, Zenon DEF Kept
      <3>. QED BY <3>1
    <2>4. Kept(org)' = Kept(1) /\ \A h : Position(org, h)' = Position(1, h)
      BY <2>1, Zenon DEF Kept, Position, Scope
    <2>5. org' \in 1 .. Scopes' /\ 1 .. org' - 1 = {} /\ (page' - 1) * PerPage = 0
      BY <2>1, <2>2, SatelliteAssumption
    <2>. QED BY <2>1, <2>3, <2>4, <2>5 DEF Paging
  <1>3. CASE SatDone
    BY <1>3, Zenon DEF SatDone, Finish, rowVars, serverVars, satVars, Paging
  <1>4. CASE SatProcess
    BY <1>4, Zenon DEF SatProcess, Raise, serverVars, satVars, Paging, TaskOK
  <1>5. CASE SatGroupDone
    BY <1>5, Zenon DEF SatGroupDone, Goto, serverVars, satVars, Paging, TaskOK
  <1>6. ASSUME NEW h \in Systems, SatHostTaskStarts(h) PROVE Paging'
    BY <1>6, Zenon DEF SatHostTaskStarts, scanVars, taskVars, serverVars, Paging, TaskOK
  <1>7. ASSUME NEW h \in Systems, NEW answer, SatHostTaskEnds(h, answer) PROVE Paging'
    BY <1>7, Zenon DEF SatHostTaskEnds, serverVars, Paging, TaskOK, SatOK
  <1>8. CASE SatRequestFails
    BY <1>8, Zenon DEF SatRequestFails, Finish, Raise, serverVars, satVars, Paging, TaskOK
  <1>9. CASE SatInitialize
    BY <1>9, Zenon DEF SatInitialize, Goto, serverVars, Paging, TaskOK
  <1>10. CASE SatHostCount
    BY <1>10, Zenon DEF SatHostCount, Goto, serverVars, satVars, Paging, TaskOK
  <1>. QED BY <1>1, <1>2, <1>3, <1>4, <1>5, <1>6, <1>7, <1>8, <1>9, <1>10, Zenon DEF SatNext

-----------------------------------------------------------------------------
InPage(i, p) == (p - 1) * AapPageSize < i /\ i <= p * AapPageSize

(* Where nothing changes on the controller: the hosts collected are those of       *)
(* every page but the ones requested, and the fact, once collected, has them all. *)
AapPaging ==
    /\ source_type # "ansible" => facts = {}
    /\ source_type = "ansible" /\ added = {} /\ removed = {} =>
        /\ pc = "pages" =>
              /\ pages \subseteq Nat \ {0}
              /\ hosts \in Seq(Systems) /\ IsInjective(hosts)
              /\ ToSet(hosts) =
                    {listing[i] : i \in {i \in 1 .. Len(listing) : \A p \in pages : ~InPage(i, p)}}
        /\ "hosts" \in facts =>
              /\ pc \in {"jobs", "save", "done"}
              /\ hosts \in Seq(Systems) /\ IsInjective(hosts) /\ ToSet(hosts) = ToSet(listing)

(* Every place is in one page, and the last page is the one of the last place. *)
LEMMA Pages ==
    ASSUME NEW i \in Nat \ {0}, NEW n \in Nat, i <= n
    PROVE  \E p \in 1 .. CeilDiv(n, AapPageSize) : InPage(i, p)
  <1> DEFINE d == AapPageSize
             p == CeilDiv(i, d)
             q == CeilDiv(n, d)
  <1>1. d \in Nat \ {0}
    BY AnsibleAssumption, Zenon
  <1> HIDE DEF d
  <1>2. /\ p \in Int /\ q \in Int
        /\ p * d <= i + d - 1 /\ i + d - 1 < p * d + d
        /\ q * d <= n + d - 1 /\ n + d - 1 < q * d + d
    BY <1>1 DEF CeilDiv
  <1> HIDE DEF p, q
  <1>3. (p - 1) * d = p * d - d
    BY <1>1, <1>2
  <1>4. (p - 1) * d < i /\ i <= p * d
    BY <1>1, <1>2, <1>3
  <1>5. p >= 1
    <2>1. p * d > 0
      <3>1. p * d \in Int
        BY <1>1, <1>2
      <3>. QED BY <1>4, <3>1
    <2>. QED BY <1>1, <1>2, <2>1
  <1>6. p <= q
    <2> SUFFICES ASSUME q + 1 <= p PROVE FALSE
      BY <1>2
    <2>1. (q + 1) * d <= p * d
      BY <1>1, <1>2
    <2>2. (q + 1) * d = q * d + d
      BY <1>1, <1>2
    <2>. QED BY <1>1, <1>2, <2>1, <2>2
  <1>7. p \in 1 .. q
    BY <1>2, <1>5, <1>6
  <1>. QED BY <1>4, <1>7, Zenon DEF InPage, d, q

(* No place is in two pages. *)
LEMMA OnePage ==
    ASSUME NEW i \in Nat, NEW p \in Nat, NEW q \in Nat, InPage(i, p), InPage(i, q)
    PROVE  p = q
  <1> DEFINE d == AapPageSize
  <1>1. d \in Nat \ {0}
    BY AnsibleAssumption, Zenon
  <1>2. (p - 1) * d < i /\ i <= p * d /\ (q - 1) * d < i /\ i <= q * d
    BY Zenon DEF InPage
  <1> HIDE DEF d
  <1>3. ASSUME p <= q - 1 PROVE FALSE
    <2>1. p * d <= (q - 1) * d
      BY <1>1, <1>3, SMTT(30)
    <2>. QED BY <1>1, <1>2, <2>1, SMTT(30)
  <1>4. ASSUME q <= p - 1 PROVE FALSE
    <2>1. q * d <= (p - 1) * d
      BY <1>1, <1>4, SMTT(30)
    <2>. QED BY <1>1, <1>2, <2>1, SMTT(30)
  <1>. QED BY <1>3, <1>4

(* The ansible runner. *)
LEMMA AapPagingKept ==
    ASSUME TaskOK, AapPaging, source_type = "ansible", AapNext
    PROVE  AapPaging'
  <1>1. listing \in Seq(Systems) /\ IsInjective(listing) /\ Len(listing) \in Nat
        /\ DOMAIN listing = 1 .. Len(listing) /\ ToSet(listing) = {listing[i] : i \in 1 .. Len(listing)}
    BY LenProperties, Zenon DEF TaskOK, ToSet
  <1>0. \A k \in Nat \ {0} :
            /\ PageOf(listing, k, AapPageSize) \in Seq(Systems)
            /\ IsInjective(PageOf(listing, k, AapPageSize))
            /\ ToSet(PageOf(listing, k, AapPageSize)) =
                  {listing[i] : i \in {i \in 1 .. Len(listing) :
                                          (k - 1) * AapPageSize < i /\ i <= k * AapPageSize}}
            /\ k = 1 => Len(PageOf(listing, k, AapPageSize)) =
                          IF AapPageSize < Len(listing) THEN AapPageSize ELSE Len(listing)
    <2> TAKE k \in Nat \ {0}
    <2>1. AapPageSize \in Nat \ {0}
      BY AnsibleAssumption, Zenon
    <2>2. listing \in Seq(Systems) /\ IsInjective(listing)
      BY <1>1, Zenon
    <2>3. /\ PageOf(listing, k, AapPageSize) \in Seq(Systems)
          /\ IsInjective(listing) => IsInjective(PageOf(listing, k, AapPageSize))
          /\ ToSet(PageOf(listing, k, AapPageSize)) =
                {listing[i] : i \in {i \in 1 .. Len(listing) :
                                        (k - 1) * AapPageSize < i /\ i <= k * AapPageSize}}
          /\ k = 1 => Len(PageOf(listing, k, AapPageSize)) =
                        IF AapPageSize < Len(listing) THEN AapPageSize ELSE Len(listing)
      BY <2>1, <2>2, Page, SMTT(30)
    <2>. QED BY <2>2, <2>3, Zenon
  <1>2. CASE AapHosts
    <2> DEFINE first == PageOf(listing, 1, AapPageSize)
               n == Len(listing)
               total == CeilDiv(n, Len(first))
    <2>1. /\ UNCHANGED <<source_type, listing, added, removed>>
          /\ pc = "hosts"
          /\ \/ /\ hosts' = first
                /\ \/ Len(first) < n /\ pages' = 2 .. total /\ pc' = "pages" /\ facts' = facts
                   \/ ~(Len(first) < n) /\ pc' = "jobs"
             \/ facts' = facts /\ pc' = "jobs"
      BY <1>2, Zenon DEF AapHosts, FactLost, Goto, serverVars
    <2>2. /\ first \in Seq(Systems) /\ IsInjective(first)
          /\ Len(first) = IF AapPageSize < n THEN AapPageSize ELSE n
      <3>1. 1 \in Nat \ {0}
        OBVIOUS
      <3>. QED BY <1>0, <3>1, Zenon
    <2>3. ToSet(first) = {listing[i] : i \in {i \in 1 .. n : i <= AapPageSize}}
      <3> DEFINE At(k) == {i \in 1 .. n : (k - 1) * AapPageSize < i /\ i <= k * AapPageSize}
      <3>0. \A k \in Nat \ {0} : ToSet(PageOf(listing, k, AapPageSize)) = {listing[i] : i \in At(k)}
        BY <1>0, Zenon
      <3> HIDE DEF At
      <3>1. ToSet(first) = {listing[i] : i \in At(1)}
        BY <3>0
      <3>2. (1 - 1) * AapPageSize = 0 /\ 1 * AapPageSize = AapPageSize
        BY AnsibleAssumption
      <3>3. At(1) = {i \in 1 .. n : i <= AapPageSize}
        BY <1>1, <3>2 DEF At
      <3>. QED BY <3>1, <3>3, Zenon
    <2> HIDE DEF first
    <2> SUFFICES ASSUME added = {}, removed = {} PROVE AapPaging'
      BY <2>1, Zenon DEF AapPaging
    <2>4. "hosts" \notin facts
      BY <2>1, Zenon DEF AapPaging
    <2>5. CASE hosts' = first /\ Len(first) < n /\ pages' = 2 .. total /\ pc' = "pages" /\ facts' = facts
      <3>1. Len(first) = AapPageSize /\ total = CeilDiv(n, AapPageSize)
        <4>1. Len(first) < n /\ Len(first) = IF AapPageSize < n THEN AapPageSize ELSE n
          BY <2>2, <2>5, Zenon
        <4>2. n \in Nat
          BY <1>1
        <4> DEFINE got == Len(first)
        <4> HIDE DEF got, n
        <4>3. got < n /\ got = IF AapPageSize < n THEN AapPageSize ELSE n
          BY <4>1, Zenon DEF got
        <4>4. got = AapPageSize
          BY <4>2, <4>3
        <4>. QED BY <4>4, Zenon DEF got
      <3>2. pages' \subseteq Nat \ {0}
        BY <2>5
      <3>3. \A i \in 1 .. n : i <= AapPageSize <=> \A p \in pages' : ~InPage(i, p)
        <4> TAKE i \in 1 .. n
        <4>1. i \in Nat \ {0} /\ i <= n /\ n \in Nat
          BY <1>1
        <4>2. ASSUME i <= AapPageSize, NEW p \in pages' PROVE ~InPage(i, p)
          <5>1. InPage(i, 1)
            BY <4>1, <4>2, AnsibleAssumption DEF InPage
          <5>2. p \in Nat /\ p # 1
            BY <2>5, <3>2
          <5>. QED BY <4>1, <5>1, <5>2, OnePage, Zenon
        <4>3. ASSUME \A p \in pages' : ~InPage(i, p) PROVE i <= AapPageSize
          <5>1. PICK p \in 1 .. CeilDiv(n, AapPageSize) : InPage(i, p)
            BY <4>1, Pages, Zenon
          <5>2. p \notin 2 .. total
            BY <2>5, <4>3, <5>1, Zenon
          <5>3. p = 1
            BY <3>1, <5>1, <5>2
          <5>. QED BY <5>1, <5>3, AnsibleAssumption DEF InPage
        <4>. QED BY <4>2, <4>3, Zenon
      <3>4. ToSet(hosts') = {listing'[i] : i \in {i \in 1 .. Len(listing') : \A p \in pages' : ~InPage(i, p)}}
        BY <2>1, <2>3, <2>5, <3>3, Zenon
      <3>. QED BY <2>1, <2>2, <2>4, <2>5, <3>2, <3>4, Zenon DEF AapPaging, InPage
    <2>6. CASE hosts' = first /\ ~(Len(first) < n) /\ pc' = "jobs"
      <3>1. \A i \in 1 .. n : i <= AapPageSize
        BY <1>1, <2>2, <2>6, AnsibleAssumption
      <3>2. ToSet(hosts') = ToSet(listing')
        BY <1>1, <2>1, <2>3, <2>6, <3>1, Zenon
      <3>. QED BY <2>1, <2>2, <2>6, <3>2, Zenon DEF AapPaging
    <2>7. CASE facts' = facts /\ pc' = "jobs"
      BY <2>1, <2>4, <2>7, Zenon DEF AapPaging
    <2>. QED BY <2>1, <2>5, <2>6, <2>7, Zenon
  <1>3. ASSUME NEW p \in pages, AapPage(p) PROVE AapPaging'
    <2> DEFINE here == PageOf(listing, p, AapPageSize)
               Got(P) == {i \in 1 .. Len(listing) : \A q \in P : ~InPage(i, q)}
               This == {i \in 1 .. Len(listing) : InPage(i, p)}
    <2>1. /\ UNCHANGED <<source_type, listing, added, removed>>
          /\ pc = "pages" /\ hosts' = hosts \o here /\ pages' = pages \ {p}
          /\ pages' = {} => pc' = "jobs"
          /\ pages' # {} => pc' = "pages" /\ facts' = facts
      BY <1>3, Zenon DEF AapPage, FactCollected, Goto, serverVars
    <2> SUFFICES ASSUME added = {}, removed = {} PROVE AapPaging'
      BY <2>1, Zenon DEF AapPaging
    <2>2. /\ pages \subseteq Nat \ {0} /\ hosts \in Seq(Systems) /\ IsInjective(hosts)
          /\ ToSet(hosts) = {listing[i] : i \in Got(pages)} /\ "hosts" \notin facts
      BY <2>1, Zenon DEF AapPaging
    <2>3. /\ here \in Seq(Systems) /\ IsInjective(here)
          /\ ToSet(here) = {listing[i] : i \in This}
      BY <1>0, <2>1, <2>2, Zenon DEF InPage
    <2> HIDE DEF here
    <2>4. Got(pages') = Got(pages) \cup This /\ Got(pages) \cap This = {}
      <3>1. ASSUME NEW i \in This, NEW q \in pages', InPage(i, q) PROVE FALSE
        <4>1. i \in Nat /\ p \in Nat /\ q \in Nat /\ q # p /\ InPage(i, p)
          BY <1>1, <2>1, <2>2, <3>1
        <4>. QED BY <3>1, <4>1, OnePage, Zenon
      <3>2. \A i \in Got(pages') : i \in This \/ i \in Got(pages)
        BY <2>1, Zenon
      <3>3. \A i \in Got(pages) : i \notin This /\ i \in Got(pages')
        BY <1>3, <2>1, Zenon
      <3>. QED BY <3>1, <3>2, <3>3, Zenon
    <2> HIDE DEF Got, This
    <2>5. Got(pages) \subseteq DOMAIN listing /\ This \subseteq DOMAIN listing
      BY <1>1, Zenon DEF Got, This
    <2>6. ToSet(hosts) \cap ToSet(here) = {}
      BY <1>1, <2>2, <2>3, <2>4, <2>5 DEF IsInjective
    <2>7. /\ hosts' \in Seq(Systems) /\ IsInjective(hosts')
          /\ ToSet(hosts') = ToSet(hosts) \cup ToSet(here)
      <3>1. IsSeq(hosts) /\ IsSeq(here)
        BY <2>2, <2>3, Zenon DEF IsSeq
      <3>. QED BY <2>1, <2>2, <2>3, <2>6, <3>1, ConcatProperties, Joining, JoinInjective, Zenon
    <2>8. ToSet(hosts') = {listing[i] : i \in Got(pages')}
      BY <2>2, <2>3, <2>4, <2>7, Zenon
    <2>9. CASE pages' = {}
      <3>1. Got(pages') = 1 .. Len(listing)
        BY <2>9, Zenon DEF Got
      <3>2. ToSet(hosts') = ToSet(listing')
        BY <1>1, <2>1, <2>8, <3>1, Zenon
      <3>. QED BY <2>1, <2>7, <2>9, <3>2, Zenon DEF AapPaging
    <2>10. CASE pages' # {}
      <3>1. ToSet(hosts') = {listing'[i] : i \in {i \in 1 .. Len(listing') : \A q \in pages' : ~InPage(i, q)}}
        BY <2>1, <2>8, Zenon DEF Got
      <3>2. pages' \subseteq Nat \ {0}
        BY <2>1, <2>2, Zenon
      <3>. QED BY <2>1, <2>2, <2>7, <2>10, <3>1, <3>2, Zenon DEF AapPaging, InPage
    <2>. QED BY <2>9, <2>10, Zenon
  <1>4. ASSUME NEW p \in pages, AapPageFails(p) PROVE AapPaging'
    BY <1>4, Zenon DEF AapPageFails, FactLost, Goto, serverVars, AapPaging
  <1>5. CASE AapClientFails
    BY <1>5, Zenon DEF AapClientFails, Finish, serverVars, aapVars, AapPaging
  <1>6. CASE AapConnect
    BY <1>6, Zenon DEF AapConnect, SaveConnection, Goto, Finish, serverVars, AapPaging
  <1>7. CASE AapInstanceDetails
    BY <1>7, Zenon DEF AapInstanceDetails, FactCollected, FactLost, Goto, serverVars, AapPaging
  <1>8. CASE AapJobs
    BY <1>8, Zenon DEF AapJobs, UniqueHosts, FactCollected, FactLost, Goto, serverVars, AapPaging
  <1>9. CASE AapSave
    BY <1>9, Zenon DEF AapSave, Finish, serverVars, aapVars, AapPaging
  <1>10. CASE AapRaises
    BY <1>10, Zenon DEF AapRaises, Raise, serverVars, aapVars, AapPaging
  <1>. QED BY <1>2, <1>3, <1>4, <1>5, <1>6, <1>7, <1>8, <1>9, <1>10, Zenon DEF AapNext

-----------------------------------------------------------------------------
(* What has been read of a listing that changes or comes in pages. *)
Reading == Paging /\ AapPaging

(* What users add to a satellite comes on the page to be read or later, or moves    *)
(* hosts there.                                                             *)
LEMMA ServerReads ==
    ASSUME TaskOK, SatOK, Reading, ServerAdds \/ ServerRemoves, UNCHANGED <<satVars, aapVars>>
    PROVE  Reading'
  <1>1. /\ pc \in Listing /\ UNCHANGED <<source_type, pc, status>>
        /\ UNCHANGED <<api_version, org, page, fetched, facts, hosts, pages>>
    BY Zenon DEF ServerAdds, ServerRemoves, taskVars, satVars, aapVars
  <1>2. pc \notin {"details", "process", "jobs", "save", "done"} /\ status # "completed"
    BY <1>1, Zenon DEF Listing, TaskOK
  <1>3. listing \in Seq(Systems)
    BY Zenon DEF TaskOK
  <1>4. CASE ServerRemoves
    <2>1. removed' # {}
      BY <1>4, Zenon DEF ServerRemoves
    <2>. QED BY <1>1, <2>1, Zenon DEF Reading, Paging, AapPaging
  <1>5. CASE ServerAdds
    <2>1. PICK s \in Systems \ (ToSet(listing) \union removed), i \in 1 .. Len(listing) + 1 :
               listing' = InsertAt(listing, i, s) /\ added' = added \union {s}
      BY <1>5, Zenon DEF ServerAdds
    <2>2. removed' = removed /\ added' # {}
      BY <1>5, <2>1, Zenon DEF ServerAdds
    <2>3. AapPaging'
      BY <1>1, <2>2, Zenon DEF Reading, AapPaging
    <2>4. CASE source_type = "satellite" /\ removed = {} /\ pc = "list"
      <3>1. /\ listing' \in Seq(Systems) /\ ToSet(listing') = ToSet(listing) \cup {s}
            /\ \A x : UpTo(listing, x) \subseteq UpTo(listing', x)
        BY <1>3, <2>1, Inserting, UpToGrows
      <3>2. /\ org \in 1 .. Scopes
            /\ \A o \in 1 .. org - 1 : Kept(o) \subseteq ToSet(fetched)
            /\ \A h \in Kept(org) : Position(org, h) <= (page - 1) * PerPage => h \in ToSet(fetched)
        BY <2>4, Zenon DEF Reading, Paging
      <3>3. Scopes' = Scopes /\ \A o : Scope(o)' = Scope(o)
        BY <1>1, Zenon DEF Scopes, Scope
      <3>4. \A o : Kept(o)' \subseteq Kept(o)
        BY <2>1, <3>1, <3>3, Zenon DEF Kept
      <3>5. Kept(org)' \subseteq Kept(org) /\ Scope(org)' = Scope(org)
        BY <1>1, <2>1, <3>1, Zenon DEF Kept, Scope
      <3>6. ASSUME NEW h \in Kept(org)' PROVE Position(org, h) <= Position(org, h)' /\ Position(org, h) \in Nat /\ Position(org, h)' \in Nat
        <4> DEFINE A == UpTo(listing, h) \cap Scope(org)
                   B == UpTo(listing', h) \cap Scope(org)
        <4>1. h \in ToSet(listing')
          BY <3>6, Zenon DEF Kept
        <4>2. IsFiniteSet(UpTo(listing', h))
          BY <3>1, <4>1, UpToFacts, Zenon
        <4>3. A \subseteq B /\ B \subseteq UpTo(listing', h)
          BY <3>1, Zenon
        <4> HIDE DEF A, B
        <4>4. IsFiniteSet(B) /\ IsFiniteSet(A) /\ Cardinality(A) <= Cardinality(B)
          BY <4>2, <4>3, FS_Subset, Zenon
        <4>5. Cardinality(A) \in Nat /\ Cardinality(B) \in Nat
          BY <4>4, FS_CardinalityType, Zenon
        <4>6. Position(org, h) = Cardinality(A) /\ Position(org, h)' = Cardinality(B)
          BY <3>5, Zenon DEF Position, A, B
        <4>. QED BY <4>4, <4>5, <4>6, Zenon
      <3>7. (page - 1) * PerPage \in Int
        BY <2>4, SatelliteAssumption DEF SatOK
      <3>8. \A h \in Kept(org)' : Position(org, h)' <= (page' - 1) * PerPage => h \in ToSet(fetched')
        <4> SUFFICES ASSUME NEW h \in Kept(org)', Position(org, h)' <= (page - 1) * PerPage
                     PROVE  h \in ToSet(fetched)
          BY <1>1, Zenon
        <4>1. Position(org, h) <= (page - 1) * PerPage
          BY <3>6, <3>7
        <4>. QED BY <3>2, <3>5, <4>1, Zenon
      <3>9. org' \in 1 .. Scopes' /\ \A o \in 1 .. org' - 1 : Kept(o)' \subseteq ToSet(fetched')
        BY <1>1, <3>2, <3>3, <3>4, Zenon
      <3>. QED BY <1>1, <1>2, <2>3, <3>8, <3>9, Zenon DEF Reading, Paging
    <2>5. CASE ~(source_type = "satellite" /\ removed = {} /\ pc = "list")
      BY <1>1, <1>2, <2>2, <2>3, <2>5, Zenon DEF Reading, Paging
    <2>. QED BY <2>4, <2>5, Zenon
  <1>. QED BY <1>4, <1>5, Zenon

(* What a completed task of a satellite, vcenter or openshift source has seen. *)
LEMMA Seen ==
    ASSUME TaskOK, SatOK, VcOK, OcpOK, Reading, status = "completed", removed = {},
           source_type \in {"satellite", "vcenter", "openshift"},
           NEW s \in ToSet(listing) \ added
    PROVE  Named(results, s) = 1
  <1>1. IsSeq(results) /\ DOMAIN results = 1 .. Len(results) /\ s \in Systems
    BY SeqFacts, LenProperties DEF TaskOK, ToSet
  <1> SUFFICES Named1(s)
    BY <1>1, NamedOnce, Zenon DEF Named1, TaskOK
  <1>2. CASE source_type = "satellite"
    <2>1. /\ fetched \in Seq(Systems) /\ Len(results) = Len(fetched)
          /\ \A i \in 1 .. Len(results) : results[i].name = fetched[i]
      BY <1>2, Zenon DEF SatOK
    <2>2. s \in ToSet(fetched)
      BY <1>2, Zenon DEF Reading, Paging
    <2>3. PICK i \in 1 .. Len(fetched) : fetched[i] = s
      BY <2>1, <2>2, LenProperties, Zenon DEF ToSet
    <2>. QED BY <1>1, <2>1, <2>3, Zenon DEF Named1
  <1>3. CASE source_type = "vcenter"
    <2>1. /\ objects \in Seq(Inventory \cup Systems) /\ Len(results) = Len(Machines)
          /\ \A i \in 1 .. Len(results) : results[i].name = Machines[i]
          /\ s \in ToSet(objects)
      BY <1>3, Zenon DEF VcOK
    <2>2. Machines \in Seq((Inventory \cup Systems) \cap Systems) /\ s \in ToSet(Machines)
      <3>1. /\ Machines \in Seq((Inventory \cup Systems) \cap Systems)
            /\ ToSet(Machines) = ToSet(objects) \cap Systems
        BY <2>1, OnlyFacts, Zenon DEF Machines
      <3>. QED BY <1>1, <2>1, <3>1, Zenon
    <2>3. PICK i \in 1 .. Len(Machines) : Machines[i] = s
      BY <2>2, LenProperties, Zenon DEF ToSet
    <2>. QED BY <1>1, <2>1, <2>3, Zenon DEF Named1
  <1>4. CASE source_type = "openshift"
    BY <1>4, Zenon DEF OcpOK
  <1>. QED BY <1>2, <1>3, <1>4, Zenon

(* What the hosts fact of a controller that did not change has. *)
LEMMA HostsSeen ==
    ASSUME TaskOK, Reading, "hosts" \in facts, added = {}, removed = {}
    PROVE  /\ Len(hosts) = Len(listing) /\ ToSet(hosts) = ToSet(listing)
           /\ HostsOnlyInJobs \intersect ToSet(listing) = {}
  <1>1. hosts \in Seq(Systems) /\ IsInjective(hosts) /\ ToSet(hosts) = ToSet(listing)
    BY Zenon DEF Reading, AapPaging
  <1>2. listing \in Seq(Systems) /\ IsInjective(listing)
    BY Zenon DEF TaskOK
  <1>3. Len(hosts) = Len(listing)
    BY <1>1, <1>2, Distinct, Zenon
  <1>. QED BY <1>1, <1>3, Zenon DEF HostsOnlyInJobs

=============================================================================
