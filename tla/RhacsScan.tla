------------------------------ MODULE RhacsScan -----------------------------
(***************************************************************************)
(* The inspect task of an rhacs source: one connection check and two         *)
(* metrics, which together are one system.                                 *)
(***************************************************************************)
EXTENDS SourceScan

VARIABLES metrics,      \* the facts collected so far
          metricFailed  \* inspection_status is FAILED

acsVars == <<metrics, metricFailed>>

AcsInit == metrics = {} /\ metricFailed = FALSE

AcsConnect ==
    /\ pc = "start"
    /\ \E result \in Statuses : SaveConnection(Restarted(1), result, "secured_units_current")
    /\ UNCHANGED <<source_type, serverVars, acsVars>>

(* A RequestException fails the fact, and the next one is tried; anything     *)
(* else leaves the runner.                                                 *)
AcsMetric(name, next) ==
    /\ pc = name
    /\ \/ metrics' = metrics \union {name} /\ UNCHANGED metricFailed /\ Goto(next)
       \/ metricFailed' = TRUE /\ UNCHANGED metrics /\ Goto(next)
       \/ Raise /\ UNCHANGED acsVars
    /\ UNCHANGED <<source_type, stats, rowVars, serverVars>>

AcsSave ==
    /\ pc = "save"
    /\ SaveResult(Self, IF metricFailed THEN "failed" ELSE "success", metrics)
    /\ Finish(IF stats'.scanned > 0 THEN "completed" ELSE "failed")
    /\ UNCHANGED <<source_type, serverVars, acsVars>>

AcsNext ==
    \/ AcsConnect
    \/ AcsMetric("secured_units_current", "secured_units_max")
    \/ AcsMetric("secured_units_max", "save")
    \/ AcsSave

=============================================================================
