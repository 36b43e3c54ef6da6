----------------------------- MODULE VcenterScan ----------------------------
(***************************************************************************)
(* The inspect task of a vcenter source.  It connects to list the names of   *)
(* the virtual machines, connects again to retrieve the properties of the   *)
(* whole inventory page by page, and then builds its dictionaries from the   *)
(* root down: folders and datacenters, clusters, hosts, virtual machines.    *)
(***************************************************************************)
EXTENDS SourceScan

CONSTANTS Inventory, \* folders, datacenters, clusters and hosts
          Kind,      \* the vim type of a member of Inventory
          Parent,    \* its parent in the inventory, or Root
          Root,
          RunsOn     \* the host of a virtual machine

VARIABLES objects    \* what the property collector has returned so far

vcVars == <<objects>>

VcInit == objects = <<>>

(* An invalid login, or a name that does not resolve, is expected while       *)
(* connecting; nothing else is.                                            *)
VcConnectFails ==
    /\ pc = "start"
    /\ Finish("failed") \/ Raise
    /\ UNCHANGED <<source_type, stats, rowVars, serverVars, vcVars>>

(* _store_connect_data: every machine is counted as scanned already here. *)
VcConnect ==
    /\ pc = "start"
    /\ conns' = Rows(listing, "success")
    /\ stats' = [stats EXCEPT !.scanned = @ + Len(listing)]
    /\ Goto("login")
    /\ UNCHANGED <<source_type, results, serverVars, vcVars>>

(* inspect connects again, and expects an invalid login only. *)
VcInspectFails ==
    /\ pc \in {"login", "retrieve"}
    /\ (pc = "login" /\ Finish("failed")) \/ Raise
    /\ UNCHANGED <<source_type, stats, rowVars, serverVars, vcVars>>

VcInspect ==
    /\ pc = "login"
    /\ Goto("retrieve")
    /\ UNCHANGED <<source_type, stats, rowVars, serverVars, vcVars>>

(* _filter_set and _property_set: folders, datacenters, clusters, hosts and    *)
(* virtual machines are traversed from the root folder.                     *)
FilterSet == Inventory \union ToSet(listing)

Unretrieved == FilterSet \ ToSet(objects)

(* The collector returns the objects in any order, a page at a time. *)
VcRetrieve ==
    /\ pc = "retrieve"
    /\ \E o \in Unretrieved : objects' = Append(objects, o)
    /\ UNCHANGED <<scanVars>>

VcRetrieved ==
    /\ pc = "retrieve"
    /\ Unretrieved = {}
    /\ Goto("machines")
    /\ UNCHANGED <<source_type, stats, rowVars, serverVars, vcVars>>

(* parse_cluster_props: up from the cluster to the first datacenter whose     *)
(* chain of parents is in parents_dict.                                     *)
DatacenterOf[o \in Inventory \union {Root}] ==
    IF o = Root THEN Root
    ELSE IF Kind[o] = "datacenter" THEN o ELSE DatacenterOf[Parent[o]]

(* A virtual machine runs on a host of a cluster (or a compute resource of its  *)
(* own), which is somewhere below a datacenter.                             *)
ASSUME InventoryAssumption ==
    \A vm \in Systems :
        {RunsOn[vm], Parent[RunsOn[vm]], DatacenterOf[Parent[RunsOn[vm]]]} \subseteq Inventory \ {Root}

(* parse_host_props: the host's own facts, and those of its cluster where      *)
(* cluster_dict has it.                                                     *)
HostProps(host, known) ==
    LET cluster == Parent[host]
    IN  {host} \union IF cluster \in known THEN {cluster, DatacenterOf[cluster]} \ {Root} ELSE {}

(* parse_vm_props: a machine gets the facts of its host where host_dict has it. *)
Placement(vm, known) == IF RunsOn[vm] \in known THEN HostProps(RunsOn[vm], known) ELSE {}

Machines == Only(objects, Systems)

VcMachineInOnePass ==
    /\ pc = "machines"
    /\ Len(results) < Len(Machines)
    /\ LET vm == Machines[Len(results) + 1]
           before == {objects[i] : i \in 1 .. SelectInSeq(objects, LAMBDA o : o = vm)}
       IN  SaveResult(vm, "success", Placement(vm, before))
    /\ UNCHANGED <<source_type, pc, status, jobFailed, serverVars, vcVars>>

(* parse_vm_props stores the machine and counts it a second time. *)
VcMachine ==
    /\ pc = "machines"
    /\ Len(results) < Len(Machines)
    /\ LET vm == Machines[Len(results) + 1]
       IN  SaveResult(vm, "success", Placement(vm, ToSet(objects)))
    /\ UNCHANGED <<source_type, pc, status, jobFailed, serverVars, vcVars>>

VcDone ==
    /\ pc = "machines"
    /\ Len(results) = Len(Machines)
    /\ Finish("completed")
    /\ UNCHANGED <<source_type, stats, rowVars, serverVars, vcVars>>

VcNext ==
    \/ VcConnectFails
    \/ VcConnect
    \/ VcInspectFails
    \/ VcInspect
    \/ VcRetrieve
    \/ VcRetrieved
    \/ VcMachine
    \/ VcDone

=============================================================================
