--------------------------- MODULE MCSourceScans ----------------------------
EXTENDS SourceScans

CONSTANTS s1, s2, s3, o1, o2, dc, clu, esx

MCOrgs == <<o1, o2>>
MCOrgOf == s1 :> o1 @@ s2 :> o2 @@ s3 :> o1
MCKind == dc :> "datacenter" @@ clu :> "cluster" @@ esx :> "host"
MCParent == dc :> Root @@ clu :> dc @@ esx :> clu
MCRunsOn == [s \in Systems |-> esx]
MCExtraFacts == <<"workloads", "operators", "rhacm_metrics">>

-----------------------------------------------------------------------------
(* The reports of the fingerprint task: up to three sources with shared and      *)
(* missing identifiers, and single sources with every combination of EAP facts. *)

NoEvidence == [eap |-> << >>, fuse |-> {}, jws |-> {}, jws_version |-> <<>>]

Nothing ==
    [type |-> "network", sudo |-> FALSE, subman |-> "", uuid |-> "", macs |-> NoValue, cpu |-> NoValue,
     date |-> NoValue, redhat |-> NoValue, virt_what |-> FALSE, is_guest |-> FALSE, chassis |-> NoValue,
     virt_who |-> FALSE, is_virtualized |-> NoValue, cluster |-> FALSE, evidence |-> NoEvidence,
     entitlements |-> {}]

MCLower == [m \in {"aa", "AA", "bb", "cc"} |-> IF m = "AA" THEN "aa" ELSE m]

Catalogue ==
    {[Nothing EXCEPT !.subman = "id1", !.uuid = "u1", !.macs = <<"aa">>, !.cpu = 4, !.redhat = TRUE,
                     !.chassis = "desktop", !.date = "parsable"],
     [Nothing EXCEPT !.subman = "id1", !.uuid = "u2", !.macs = <<"bb">>, !.sudo = TRUE,
                     !.is_guest = TRUE, !.entitlements = {"rhel"}, !.date = "unparsable"],
     [Nothing EXCEPT !.uuid = "u1", !.macs = <<"AA", "bb">>, !.cpu = 8, !.redhat = FALSE,
                     !.evidence.fuse = {"systemctl_files"}],
     [Nothing EXCEPT !.macs = <<"bb">>, !.chassis = "vm", !.evidence.jws = {"has_cert"}],
     [Nothing EXCEPT !.type = "satellite", !.subman = "id1", !.macs = <<"cc">>, !.cpu = 2, !.redhat = TRUE,
                     !.is_virtualized = FALSE, !.entitlements = {"ocp"}, !.date = "parsable",
                     !.evidence.fuse = {"camel", "cxf", "activemq"}],
     [Nothing EXCEPT !.type = "satellite", !.macs = <<"aa", "cc">>, !.redhat = FALSE,
                     !.virt_who = TRUE],
     [Nothing EXCEPT !.type = "vcenter", !.uuid = "u1", !.macs = <<"cc">>, !.cpu = 1, !.redhat = TRUE],
     [Nothing EXCEPT !.type = "vcenter", !.uuid = "u2", !.macs = <<"aa">>, !.cpu = 3, !.redhat = FALSE],
     [Nothing EXCEPT !.type = "openshift", !.cpu = 16],
     [Nothing EXCEPT !.type = "openshift", !.cluster = TRUE],
     [Nothing EXCEPT !.type = "ansible"]}

EapEvidence ==
    UNION {{e \in [fs -> UNION {EapOutcomes[f] : f \in fs}] : \A f \in fs : e[f] \in EapOutcomes[f]} :
           fs \in {fs \in SUBSET ToSet(EapFacts) : Cardinality(fs) <= 3}}

MCReports ==
    BoundedSeq(Catalogue, 3)
    \union {<<[Nothing EXCEPT !.redhat = TRUE, !.evidence.eap = e]>> : e \in EapEvidence}

=============================================================================
