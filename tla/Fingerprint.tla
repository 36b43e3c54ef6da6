----------------------------- MODULE Fingerprint ----------------------------
(***************************************************************************)
(* The fingerprint task: the raw facts of a report's sources become           *)
(* fingerprints, those of one system are merged, and each is stored.         *)
(*                                                                         *)
(* A fingerprint keeps for each fact its value, whether the source that gave  *)
(* it was scanned with sudo, and the name of that source (its metadata).     *)
(* Every source of a report holds the facts of one system.  The task is         *)
(* followed from the point where the report has its deployments report.       *)
(***************************************************************************)
EXTENDS SourceScan, Products

CONSTANTS Reports,  \* the reports to process: sequences of raw facts
          Lower,    \* the lower-case form of every MAC address
          NoValue   \* None

VARIABLES sources,        \* the report: source i has the raw facts sources[i]
          fingerprint_map, \* fingerprints by source type, and the combined ones
          stored,         \* SystemFingerprint rows of the deployments report
          invalid,        \* number_invalid
          deployment,     \* DeploymentsReport.status
          aggregate       \* AggregateReport, NoValue while there is no row

fpVars == <<sources, fingerprint_map, stored, invalid, deployment, aggregate>>

Merging == {"network", "satellite", "vcenter"}

FpInit ==
    /\ IF source_type = "fingerprint" THEN sources \in Reports ELSE sources = <<>>
    /\ fingerprint_map = [t \in Merging \union {"combined", "others"} |-> <<>>]
    /\ stored = <<>>
    /\ invalid = 0
    /\ deployment = "pending"
    /\ aggregate = NoValue

-----------------------------------------------------------------------------
(* Raw facts to fingerprints *)

(* _add_fact_to_fingerprint *)
Fact(value, raw, i) == [val |-> value, sudo |-> raw.sudo, source_name |-> i]

NewFingerprint(facts, products, entitlements, i) ==
    [facts |-> facts, products |-> products, entitlements |-> entitlements,
     sources |-> {i}, gid |-> NoValue, broken |-> FALSE]

StrOrNone(value) == IF value = "" THEN NoValue ELSE value

FormatMacAddresses(macs) ==
    IF macs = NoValue THEN NoValue ELSE [i \in 1 .. Len(macs) |-> Lower[macs[i]]]

(* fingerprint_network_infrastructure_type *)
NetworkInfrastructure(raw) ==
    IF raw.virt_what \/ raw.is_guest \/ raw.chassis \in {"vm", "container"} THEN "virtualized"
    ELSE IF raw.chassis # NoValue THEN "bare_metal" ELSE "unknown"

ProcessNetworkFact(raw, i) ==
    NewFingerprint(
        [subscription_manager_id |-> Fact(StrOrNone(raw.subman), raw, i),
         bios_uuid |-> Fact(StrOrNone(raw.uuid), raw, i),
         mac_addresses |-> Fact(FormatMacAddresses(raw.macs), raw, i),
         cpu_count |-> Fact(raw.cpu, raw, i),
         infrastructure_type |-> Fact(NetworkInfrastructure(raw), raw, i),
         is_redhat |-> Fact(raw.redhat, raw, i),
         date_machine_id |-> Fact(raw.date, raw, i)],
        AddProducts(raw.evidence), raw.entitlements, i)

(* A hypervisor is known by its name, virt-who-...; otherwise is_virtualized   *)
(* decides.                                                                *)
SatelliteInfrastructure(raw) ==
    IF raw.virt_who THEN "hypervisor"
    ELSE IF raw.is_virtualized = NoValue THEN "unknown"
    ELSE IF raw.is_virtualized THEN "virtualized" ELSE "bare_metal"

ProcessSatelliteFact(raw, i) ==
    NewFingerprint(
        [subscription_manager_id |-> Fact(StrOrNone(raw.subman), raw, i),
         mac_addresses |-> Fact(FormatMacAddresses(raw.macs), raw, i),
         cpu_count |-> Fact(raw.cpu, raw, i),
         infrastructure_type |-> Fact(SatelliteInfrastructure(raw), raw, i),
         is_redhat |-> Fact(raw.redhat, raw, i),
         registration_time |-> Fact(raw.date, raw, i)],
        AddProducts(raw.evidence), raw.entitlements, i)

ProcessVcenterFact(raw, i) ==
    NewFingerprint(
        [vm_uuid |-> Fact(StrOrNone(raw.uuid), raw, i),
         mac_addresses |-> Fact(FormatMacAddresses(raw.macs), raw, i),
         cpu_count |-> Fact(raw.cpu, raw, i),
         infrastructure_type |-> Fact("virtualized", raw, i),
         is_redhat |-> Fact(raw.redhat, raw, i)],
        << >>, {}, i)

ProcessOpenShiftFact(raw, i) == NewFingerprint([cpu_count |-> Fact(raw.cpu, raw, i)], << >>, {}, i)

(* What is kept of an ansible controller or an RHACS instance is its name and   *)
(* version, which nothing here depends on.                                  *)
ProcessServiceFact(raw, i) == NewFingerprint(<< >>, << >>, {}, i)

(* process_facts_for_datasource *)
Process(i) ==
    CASE sources[i].type = "network" -> ProcessNetworkFact(sources[i], i)
      [] sources[i].type = "satellite" -> ProcessSatelliteFact(sources[i], i)
      [] sources[i].type = "vcenter" -> ProcessVcenterFact(sources[i], i)
      [] sources[i].type = "openshift" -> ProcessOpenShiftFact(sources[i], i)
      [] OTHER -> ProcessServiceFact(sources[i], i)

(* _process_source: the fact that describes an openshift cluster gives none. *)
ProcessSources(type) ==
    LET these == SelectSeq([i \in 1 .. Len(sources) |-> i],
                           LAMBDA i : sources[i].type = type /\ ~sources[i].cluster)
    IN  [j \in 1 .. Len(these) |-> Process(these[j])]

-----------------------------------------------------------------------------
(* Merging *)

Get(fp, key) ==
    IF key = "FINGERPRINT_GLOBAL_ID" THEN fp.gid
    ELSE IF key \in DOMAIN fp.facts THEN fp.facts[key].val ELSE NoValue

(* keys_to_add_list: the merged fingerprint takes the fact of m where p has    *)
(* none or has no value, and where only m was scanned with sudo.             *)
Overrules(p, m, key) ==
    /\ key \in DOMAIN m
    /\ \/ key \notin DOMAIN p
       \/ p[key].val = NoValue /\ m[key].val # NoValue
       \/ ~p[key].sudo /\ m[key].sudo

MergeFacts(p, m) ==
    [key \in DOMAIN p \union DOMAIN m |-> IF Overrules(p, m, key) THEN m[key] ELSE p[key]]

KeepPriorityProducts(p, m) == p

MergeProducts(p, m) ==
    [name \in DOMAIN p |-> IF p[name] = "absent" /\ name \in DOMAIN m THEN m[name] ELSE p[name]]

(* _merge_fingerprint.  A product of m that p does not list would read an      *)
(* attribute of None.                                                       *)
MergeFingerprint(p, m) ==
    [facts |-> MergeFacts(p.facts, m.facts),
     products |-> MergeProducts(p.products, m.products),
     entitlements |-> p.entitlements \union m.entitlements,
     sources |-> p.sources \union m.sources,
     gid |-> p.gid,
     broken |-> p.broken \/ m.broken \/ ~(DOMAIN m.products \subseteq DOMAIN p.products)]

(* Where the values of a sequence occur first. *)
Firsts(s) == SelectSeq([i \in 1 .. Len(s) |-> i], LAMBDA i : \A j \in 1 .. i - 1 : s[j] # s[i])

MergeSame(key, list, value) ==
    LET same == SelectSeq(list, LAMBDA fp : Get(fp, key) = value)
    IN  FoldLeft(MergeFingerprint, Head(same), Tail(same))

(* One turn of _remove_duplicate_fingerprints: those without the key, then one *)
(* for each value of it, merged in their order.                             *)
RemoveDuplicatesBy(key, list) ==
    LET values == [i \in 1 .. Len(list) |-> Get(list[i], key)]
        first == SelectSeq(Firsts(values), LAMBDA i : values[i] # NoValue)
    IN  SelectSeq(list, LAMBDA fp : Get(fp, key) = NoValue)
        \o [i \in 1 .. Len(first) |-> MergeSame(key, list, values[first[i]])]

(* The global ids are removed after use. *)
ById(list) ==
    LET unique == RemoveDuplicatesBy("FINGERPRINT_GLOBAL_ID", list)
    IN  [i \in 1 .. Len(unique) |-> [unique[i] EXCEPT !.gid = NoValue]]

KeyValuesWithNone(fp, key) ==
    LET v == Get(fp, key)
    IN  IF v # NoValue /\ key = "mac_addresses" THEN v ELSE <<v>>

(* The values a fingerprint is indexed by: a list is exploded. *)
KeyValues(fp, key) ==
    LET v == Get(fp, key)
    IN  IF v = NoValue THEN <<>> ELSE IF key = "mac_addresses" THEN v ELSE <<v>>

Numbered(list) == [i \in 1 .. Len(list) |-> [list[i] EXCEPT !.gid = i]]

WithoutKey(key, list) == SelectSeq(Numbered(list), LAMBDA fp : KeyValues(fp, key) = <<>>)

(* _create_index_for_fingerprints: of the fingerprints that share a value only *)
(* the first is indexed by it; an entry tells its place in the list.           *)
Index(key, list) ==
    LET Entries(i) == [j \in 1 .. Len(KeyValues(list[i], key)) |->
                          [value |-> KeyValues(list[i], key)[j], place |-> i]]
        entries == FlattenSeq([i \in 1 .. Len(list) |-> Entries(i)])
        first == Firsts([e \in 1 .. Len(entries) |-> entries[e].value])
    IN  <<>> \o [k \in 1 .. Len(first) |-> entries[first[k]]]

Has(index, value) == \E e \in ToSet(index) : e.value = value
Place(index, value) == (CHOOSE e \in ToSet(index) : e.value = value).place

(* The fingerprints some of whose entries have no match in the other index. *)
Unmatched(list, index, other) ==
    LET left == SelectSeq(index, LAMBDA e : ~Has(other, e.value))
    IN  [k \in 1 .. Len(left) |-> Numbered(list)[left[k].place]]

CandidatesLeft(list, index, other) == Unmatched(list, index, other)

Matches(base_list, base, candidate_list, candidates) ==
    LET matched == SelectSeq(candidates, LAMBDA e : Has(base, e.value))
    IN  [k \in 1 .. Len(matched) |->
            MergeFingerprint(Numbered(base_list)[Place(base, matched[k].value)],
                             candidate_list[matched[k].place])]

-----------------------------------------------------------------------------
(* The task *)

(* A merge that fails raises out of _process_sources. *)
Advance(map, next) ==
    /\ fingerprint_map' = map
    /\ IF \E t \in DOMAIN map : \E fp \in ToSet(fingerprint_map'[t]) : fp.broken
       THEN Raise /\ deployment' = "failed"
       ELSE Goto(next) /\ UNCHANGED deployment
    /\ UNCHANGED <<source_type, stats, rowVars, serverVars, sources, stored, invalid, aggregate>>

(* _process_sources: the fingerprints of every source, ... *)
FpProcess ==
    /\ pc = "start"
    /\ Advance([t \in DOMAIN fingerprint_map |->
                   IF t \in Merging THEN ProcessSources(t)
                   ELSE IF t = "others"
                   THEN ProcessSources("openshift") \o ProcessSources("ansible") \o ProcessSources("rhacs")
                   ELSE <<>>],
               "dedup")

(* ... those of one type without duplicates, one identification key after the    *)
(* other (satellite and vcenter have one, network two), ...                  *)
FpDedup ==
    /\ pc = "dedup"
    /\ Advance([fingerprint_map EXCEPT
                   !["network"] = RemoveDuplicatesBy("subscription_manager_id", @),
                   !["satellite"] = RemoveDuplicatesBy("subscription_manager_id", @),
                   !["vcenter"] = RemoveDuplicatesBy("vm_uuid", @)],
               "dedup_bios_uuid")

FpDedupBiosUuid ==
    /\ pc = "dedup_bios_uuid"
    /\ Advance([fingerprint_map EXCEPT
                   !["combined"] = RemoveDuplicatesBy("bios_uuid", fingerprint_map["network"]),
                   !["network"] = <<>>],
               "sat_id")

(* _merge_matching_fingerprints, up to the two lists that still have a fingerprint *)
(* once for each of its values.                                              *)
Match(type, keys, next) ==
    LET base_list == fingerprint_map["combined"]
        candidate_list == fingerprint_map[type]
    IN  \E base \in {Index(keys[1], base_list)}, candidates \in {Index(keys[2], candidate_list)} :
            Advance([fingerprint_map EXCEPT
                        !["combined"] = WithoutKey(keys[1], base_list)
                                        \o Matches(base_list, base, candidate_list, candidates)
                                        \o Unmatched(base_list, base, candidates),
                        ![type] = WithoutKey(keys[2], candidate_list)
                                  \o CandidatesLeft(candidate_list, candidates, base)],
                    next)

(* Its end, where a fingerprint becomes one again. *)
Unique(type, next) ==
    Advance([fingerprint_map EXCEPT !["combined"] = ById(@), ![type] = ById(@)], next)

AddMatchedOnly(type, next) == Advance([fingerprint_map EXCEPT ![type] = <<>>], next)

(* The candidates no key has matched are added to the result. *)
AddRemaining(type, next) ==
    Advance([fingerprint_map EXCEPT !["combined"] = @ \o fingerprint_map[type], ![type] = <<>>], next)

(* _merge_fingerprints_from_source_types: nothing to merge if one of the lists is   *)
(* empty, otherwise one pair of keys after the other.                        *)
MergeSourceType(type, first, second, at, next) ==
    \/ /\ pc = at[1]
       /\ IF fingerprint_map["combined"] = <<>> \/ fingerprint_map[type] = <<>>
          THEN AddRemaining(type, next)
          ELSE Match(type, first, at[2])
    \/ pc = at[2] /\ Unique(type, at[3])
    \/ pc = at[3] /\ Match(type, second, at[4])
    \/ pc = at[4] /\ Unique(type, at[5])
    \/ pc = at[5] /\ AddRemaining(type, next)

FpMergeSatellite ==
    MergeSourceType("satellite", <<"subscription_manager_id", "subscription_manager_id">>,
                    <<"mac_addresses", "mac_addresses">>,
                    <<"sat_id", "sat_id_unique", "sat_mac", "sat_mac_unique", "sat_add">>, "vc_uuid")

(* The reverse priority keys are given as a tuple and not as a set: they have no     *)
(* effect.                                                                  *)
FpMergeVcenter ==
    MergeSourceType("vcenter", <<"bios_uuid", "vm_uuid">>, <<"mac_addresses", "mac_addresses">>,
                    <<"vc_uuid", "vc_uuid_unique", "vc_mac", "vc_mac_unique", "vc_add">>, "combine")

RawDateKeys == <<"registration_time", "date_machine_id">>

(* _compute_system_creation_time: the most accurate date there is decides, even *)
(* where it cannot be parsed.                                               *)
ComputeSystemCreationTime(fp) ==
    LET dates == SelectSeq(RawDateKeys, LAMBDA key : Get(fp, key) # NoValue)
        others == [key \in DOMAIN fp.facts \ ToSet(RawDateKeys) |-> fp.facts[key]]
        Parsed(fact) == [fact EXCEPT !.val = IF @ = "unparsable" THEN NoValue ELSE @]
    IN  IF dates = <<>> THEN [fp EXCEPT !.facts = others]
        ELSE [fp EXCEPT !.facts =
                 [key \in DOMAIN others \union {"system_creation_date"} |->
                     IF key = "system_creation_date" THEN Parsed(fp.facts[Last(dates)])
                     ELSE others[key]]]

(* The end of _process_sources, with _post_process_merged_fingerprints. *)
FpCombine ==
    /\ pc = "combine"
    /\ LET all == fingerprint_map["combined"] \o fingerprint_map["others"]
       IN  Advance([fingerprint_map EXCEPT
                       !["combined"] = [i \in 1 .. Len(all) |-> ComputeSystemCreationTime(all[i])],
                       !["others"] = <<>>],
                   "persist")

Pending == Len(stored) + invalid < Len(fingerprint_map["combined"])

(* A fingerprint the serializer refuses, or the database, is only counted. *)
FpPersist ==
    /\ pc = "persist"
    /\ Pending
    /\ \/ /\ stored' = Append(stored, fingerprint_map["combined"][Len(stored) + invalid + 1])
          /\ UNCHANGED invalid
       \/ invalid' = invalid + 1 /\ UNCHANGED stored
    /\ UNCHANGED <<scanVars, sources, fingerprint_map, deployment, aggregate>>

(* _aggregate_from_system_fingerprints: by infrastructure, the Red Hat systems *)
(* and what openshift and satellite know of only.                           *)
RedHat(fp) ==
    Get(fp, "is_redhat") = TRUE \/ \E i \in fp.sources : sources[i].type \in {"satellite", "openshift"}

InstanceKind(fp) ==
    LET type == Get(fp, "infrastructure_type")
    IN  IF ~RedHat(fp) THEN "not_redhat"
        ELSE IF type \in {"virtualized", "bare_metal", "hypervisor"} THEN type ELSE "unknown"

Kinds == {"not_redhat", "virtualized", "bare_metal", "hypervisor", "unknown"}

HasEap(fp) ==
    InstanceKind(fp) # "not_redhat" /\ "eap" \in DOMAIN fp.products /\ fp.products.eap = "present"

AggregateReport ==
    [instances |-> [k \in Kinds |-> Cardinality({i \in DOMAIN stored : InstanceKind(stored[i]) = k})],
     jboss_eap |-> Cardinality({i \in DOMAIN stored : HasEap(stored[i])})]

ASSUME NoValueIsNoReport == NoValue \notin [instances : [Kinds -> Nat], jboss_eap : Nat]

(* No valid fingerprint fails the report and the task. *)
FpStored ==
    /\ pc = "persist"
    /\ ~Pending
    /\ IF stored = <<>>
       THEN Finish("failed") /\ deployment' = "failed"
       ELSE Goto("aggregate") /\ deployment' = "completed"
    /\ UNCHANGED <<source_type, stats, rowVars, serverVars, sources, fingerprint_map, stored, invalid, aggregate>>

(* The row as AggregateReport.objects.create inserts it. *)
ZeroReport == [instances |-> [k \in Kinds |-> 0], jboss_eap |-> 0]

KeepEarlierAggregate ==
    /\ pc = "aggregate"
    /\ IF aggregate = NoValue THEN aggregate' = ZeroReport /\ Goto("populate")
       ELSE UNCHANGED aggregate /\ Finish("completed")
    /\ UNCHANGED <<source_type, stats, rowVars, serverVars, sources, fingerprint_map, stored, invalid, deployment>>

(* _create_aggregate_report forces a new build: a row that is there is deleted     *)
(* and one with nothing counted is inserted, ...                              *)
FpInsertAggregate ==
    /\ pc = "aggregate"
    /\ aggregate' = ZeroReport
    /\ Goto("populate")
    /\ UNCHANGED <<source_type, stats, rowVars, serverVars, sources, fingerprint_map, stored, invalid, deployment>>

(* ... which is saved again when everything has been counted. *)
FpAggregate ==
    /\ pc = "populate"
    /\ aggregate' = AggregateReport
    /\ Finish("completed")
    /\ UNCHANGED <<source_type, stats, rowVars, serverVars, sources, fingerprint_map, stored, invalid, deployment>>

(* A request for the aggregate report builds it from what is stored so far, or     *)
(* fails after the insert.  (Requests that overlap with the task's own build are   *)
(* the subject of ReportRow.)                                                *)
AggregateRequested ==
    /\ pc = "persist"
    /\ aggregate = NoValue
    /\ aggregate' \in {ZeroReport, AggregateReport}
    /\ UNCHANGED <<scanVars, sources, fingerprint_map, stored, invalid, deployment>>

(* An unexpected exception fails the report too, even a completed one; an         *)
(* aggregate that has been inserted stays.                                    *)
FpFails ==
    /\ pc # "done"
    /\ Raise
    /\ deployment' = "failed"
    /\ UNCHANGED <<source_type, stats, rowVars, serverVars, sources, fingerprint_map, stored, invalid, aggregate>>

FpNext ==
    \/ FpProcess
    \/ FpDedup
    \/ FpDedupBiosUuid
    \/ FpMergeSatellite
    \/ FpMergeVcenter
    \/ FpCombine
    \/ FpPersist
    \/ FpStored
    \/ FpInsertAggregate
    \/ FpAggregate
    \/ FpFails

-----------------------------------------------------------------------------
(* Properties of the fingerprints that are ready to be stored; storing and counting *)
(* do not change them any more.                                             *)

Ready == pc = "persist" /\ stored = <<>> /\ invalid = 0 /\ aggregate = NoValue
Outcome == IF Ready THEN ToSet(fingerprint_map["combined"]) ELSE {}

Given(i, key) == Get(Process(i), key)
Macs(i) == ToSet(KeyValues(Process(i), "mac_addresses"))

SameValue(i, j, k, l) == Given(i, k) # NoValue /\ Given(i, k) = Given(j, l)

(* Two systems the fingerprinter may take for one. *)
Linked(i, j) ==
    \/ SameValue(i, j, "subscription_manager_id", "subscription_manager_id")
    \/ SameValue(i, j, "bios_uuid", "bios_uuid")
    \/ SameValue(i, j, "vm_uuid", "vm_uuid")
    \/ SameValue(i, j, "bios_uuid", "vm_uuid")
    \/ SameValue(j, i, "bios_uuid", "vm_uuid")
    \/ Macs(i) \intersect Macs(j) # {}

Fingerprinted == {i \in 1 .. Len(sources) : ~sources[i].cluster}

(* Systems are merged only along shared identifiers: the sources of a           *)
(* fingerprint cannot be split into two parts with no identifier in common.   *)
MergedByIdentifiers ==
    \A fp \in Outcome : \A part \in SUBSET fp.sources \ {{}, fp.sources} :
        \E i \in part, j \in fp.sources \ part : Linked(i, j)

(* The systems that shared identifiers connect with system i. *)
Component(i) ==
    LET Closed(part) == \A k \in part, l \in Fingerprinted \ part : ~Linked(k, l)
    IN  {j \in Fingerprinted : \A part \in SUBSET Fingerprinted : i \in part /\ Closed(part) => j \in part}

(* _create_index_for_fingerprints may lose a fingerprint ("Potential lost        *)
(* fingerprint due to duplicate"), and with it what was merged into it: only     *)
(* where a system it is connected with has no MAC address of its own, and never  *)
(* all the systems that are connected.  And it may double one: only where a       *)
(* system has several MAC addresses, since what was merged has left the list of  *)
(* candidates.                                                              *)
LostOrDoubledOnlyByMacs ==
    Ready =>
        \A i \in Fingerprinted :
            /\ \E fp \in Outcome : fp.sources \intersect Component(i) # {}
            /\ (\A fp \in Outcome : i \notin fp.sources) =>
                   \E j \in Component(i) :
                       /\ Macs(j) # {}
                       /\ \A mac \in Macs(j) : \E k \in Fingerprinted \ {j} : mac \in Macs(k)
            /\ (\A j \in Fingerprinted : Cardinality(Macs(j)) <= 1) =>
                   Len(SelectSeq(fingerprint_map["combined"], LAMBDA fp : i \in fp.sources)) <= 1

(* A network source scanned with sudo overrules one scanned without, even where   *)
(* it found nothing.                                                        *)
Erased(fp, key) ==
    \E i \in fp.sources :
        key \in DOMAIN Process(i).facts /\ sources[i].sudo /\ Given(i, key) = NoValue

(* _merge_fingerprint loses nothing: it never breaks off at a product its priority            *)
(* fingerprint does not list, a fact some source has a value for has one            *)
(* afterwards (unless a source scanned with sudo found none), a product is absent    *)
(* only if every source says so, and every entitlement is there.               *)
MergeLosesNothing ==
    /\ \A t \in DOMAIN fingerprint_map : \A fp \in ToSet(fingerprint_map[t]) : ~fp.broken
    /\ \A fp \in Outcome :
        /\ \A key \in DOMAIN fp.facts \ {"system_creation_date"} :
               fp.facts[key].val = NoValue =>
                   Erased(fp, key) \/ \A i \in fp.sources : Given(i, key) = NoValue
        /\ fp.entitlements = UNION {Process(i).entitlements : i \in fp.sources}
        /\ \A name \in DOMAIN fp.products : fp.products[name] = "absent" =>
               \A i \in fp.sources : name \in DOMAIN Process(i).products =>
                   Process(i).products[name] = "absent"

(* What the log of _process_sources says: the number of CPUs and the              *)
(* infrastructure type of a merged fingerprint are vcenter's where a vcenter        *)
(* source of it knows them ("we trust vcenter more than network/satellite").      *)
VcenterTrusted ==
    \A fp \in Outcome : \A key \in {"cpu_count", "infrastructure_type"} :
        (\E i \in fp.sources : sources[i].type = "vcenter" /\ Given(i, key) # NoValue) =>
            sources[fp.facts[key].source_name].type = "vcenter"

(* The order of the facts does not matter to detect_jboss_eap: the presence is       *)
(* the strongest one any fact speaks for, raised by exactly the facts that name    *)
(* it, and WildFly alone is no EAP.                                           *)
StrongestEvidenceWins ==
    pc = "start" => \A i \in 1 .. Len(sources) :
        LET facts == sources[i].evidence.eap
            Of(p) == {f \in DOMAIN facts : facts[f].presence = p}
            strongest == IF Of("present") # {} THEN "present"
                         ELSE IF Of("potential") # {} THEN "potential" ELSE "absent"
            found == DetectEap(facts)
        IN  /\ found.presence = IF found.versions = {"WildFly"} THEN "absent" ELSE strongest
            /\ found.raw_facts = Of(strongest)

(* The kinds of instances add up to the stored fingerprints. *)
CountedOnce ==
    LET n == aggregate.instances
    IN  n["not_redhat"] + n["virtualized"] + n["bare_metal"] + n["hypervisor"] + n["unknown"] = Len(stored)

(* A finished fingerprint task and its deployments report agree.  A completed one  *)
(* has stored a fingerprint, and its aggregate counts every stored one under        *)
(* exactly one kind of instance, although a request may have built an aggregate     *)
(* while fingerprints were still being stored.  (A failed task may leave such an    *)
(* aggregate, or one with nothing counted.)                                    *)
DeploymentSettled ==
    source_type = "fingerprint" /\ pc = "done" =>
        /\ deployment = status
        /\ status = "completed" => stored # <<>> /\ aggregate # NoValue /\ CountedOnce

=============================================================================
