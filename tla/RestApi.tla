------------------------------- MODULE RestApi ------------------------------
(***************************************************************************)
(* The rows the REST API writes, and what else writes them.  No two of     *)
(* these rows are written by the same step, so that a behaviour is about   *)
(* one of them, which resource names.                                      *)
(***************************************************************************)
EXTENDS CredentialForms, SourceForms, ScanOptions, HashiCorpVault, ReportCache, ReportRow

VARIABLE resource

Resources == {"credential", "source", "scan", "vault", "deployments", "report"}

formVars == <<credentialVars, sourceVars, scan>>
storeVars == <<vaultVars, cacheVars, reportVars>>
vars == <<resource, formVars, storeVars>>

Init ==
    /\ resource \in Resources
    /\ CredentialInit /\ SourceInit /\ ScanOptionsInit /\ VaultInit /\ CacheInit /\ ReportInit
    /\ resource # "credential" => cred_type = "network"
    /\ resource # "source" => source_type_ = "network"

Next ==
    /\ UNCHANGED resource
    /\ \/ resource = "credential" /\ CredentialNext /\ UNCHANGED <<sourceVars, scan, storeVars>>
       \/ resource = "source" /\ SourceNext /\ UNCHANGED <<credentialVars, scan, storeVars>>
       \/ resource = "scan" /\ ScanOptionsNext /\ UNCHANGED <<credentialVars, sourceVars, storeVars>>
       \/ resource = "vault" /\ VaultNext /\ UNCHANGED <<formVars, cacheVars, reportVars>>
       \/ resource = "deployments" /\ CacheNext /\ UNCHANGED <<formVars, vaultVars, reportVars>>
       \/ resource = "report" /\ ReportNext /\ UNCHANGED <<formVars, vaultVars, cacheVars>>

\* The fairness of the workers (CacheFairness), where they are at work.
Fairness ==
    /\ WF_cacheVars(resource = "deployments" /\ Runner)
    /\ \A w \in Workers : WF_cacheVars(resource = "deployments" /\ Goes(w))
    /\ \A t \in Tasks :
           SF_cacheVars(resource = "deployments" /\ \E w \in Workers : TakeMessage(w, t))

Spec == Init /\ [][Next]_vars /\ Fairness
=============================================================================
