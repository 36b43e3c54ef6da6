---------------------------- MODULE OpenShiftScan ---------------------------
(***************************************************************************)
(* The inspect task of an openshift source.  The nodes are systems, and the  *)
(* cluster is one more: its result is stored last, and is FAILED when any of  *)
(* its extra facts could not be collected.                                  *)
(***************************************************************************)
EXTENDS SourceScan

CONSTANT ExtraFacts   \* workloads, operators, rhacm_metrics and the metrics, in order

VARIABLES nodes,      \* the nodes listed and not stored yet
          extras,     \* extra facts still to be collected
          collected,  \* those that were
          errors      \* cluster.errors

ocpVars == <<nodes, extras, collected, errors>>

OcpInit ==
    /\ nodes = <<>>
    /\ extras = ExtraFacts
    /\ collected = {}
    /\ errors = {}

(* get_ocp_client, outside of any handler: the vault's ScanFailureError is a  *)
(* FAILED task, a refused login is an exception.                            *)
OcpClientFails ==
    /\ pc \in {"start", "cluster"}
    /\ Finish("failed") \/ Raise
    /\ stats' = IF pc = "start" THEN Restarted(1) ELSE stats
    /\ UNCHANGED <<source_type, rowVars, serverVars, ocpVars>>

OcpConnect ==
    /\ pc = "start"
    /\ \E result \in Statuses : SaveConnection(Restarted(1), result, "cluster")
    /\ UNCHANGED <<source_type, serverVars, ocpVars>>

(* The essential facts: an OCPError here is not expected. *)
OcpListFails ==
    /\ pc \in {"cluster", "nodes"}
    /\ Raise
    /\ UNCHANGED <<source_type, stats, rowVars, serverVars, ocpVars>>

OcpCluster ==
    /\ pc = "cluster"
    /\ Goto("nodes")
    /\ UNCHANGED <<source_type, stats, rowVars, serverVars, ocpVars>>

OcpNodesKeepingStats ==
    /\ pc = "nodes"
    /\ nodes' = listing
    /\ stats' = [stats EXCEPT !.count = Len(listing) + 1]
    /\ Goto("node")
    /\ UNCHANGED <<source_type, rowVars, serverVars, extras, collected, errors>>

(* _init_stats forgets the connection: the counters start again. *)
OcpNodes ==
    /\ pc = "nodes"
    /\ nodes' = listing
    /\ stats' = Restarted(Len(listing) + 1)
    /\ Goto("node")
    /\ UNCHANGED <<source_type, rowVars, serverVars, extras, collected, errors>>

OcpSaveNode ==
    /\ pc = "node"
    /\ nodes # <<>>
    /\ SaveResult(Head(nodes), "success", {"node"})
    /\ nodes' = Tail(nodes)
    /\ UNCHANGED <<source_type, pc, status, jobFailed, serverVars, extras, collected, errors>>

(* _extra_cluster_facts: an OCPError is kept with the cluster, and the next    *)
(* fact is collected; workloads may be switched off.                        *)
OcpExtraFact ==
    /\ pc = "node"
    /\ nodes = <<>>
    /\ extras # <<>>
    /\ \/ /\ collected' = collected \union {Head(extras)}
          /\ UNCHANGED <<errors, pc, status, jobFailed>>
          /\ extras' = Tail(extras)
       \/ /\ errors' = errors \union {Head(extras)}
          /\ UNCHANGED <<collected, pc, status, jobFailed>>
          /\ extras' = Tail(extras)
       \/ /\ Head(extras) = "workloads"
          /\ UNCHANGED <<collected, errors, pc, status, jobFailed>>
          /\ extras' = Tail(extras)
       \/ Raise /\ UNCHANGED <<collected, errors, extras>>
    /\ UNCHANGED <<source_type, stats, rowVars, serverVars, nodes>>

OcpSaveCluster ==
    /\ pc = "node"
    /\ nodes = <<>>
    /\ extras = <<>>
    /\ SaveResult(Self, IF errors = {} THEN "success" ELSE "failed",
                  collected \union {"cluster"})
    /\ Finish(IF stats'.scanned > 0 THEN "completed" ELSE "failed")
    /\ UNCHANGED <<source_type, serverVars, ocpVars>>

OcpNext ==
    \/ OcpClientFails
    \/ OcpConnect
    \/ OcpListFails
    \/ OcpCluster
    \/ OcpNodes
    \/ OcpSaveNode
    \/ OcpExtraFact
    \/ OcpSaveCluster

=============================================================================
