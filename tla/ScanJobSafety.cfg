SPECIFICATION Spec
CONSTANTS
    FP = FP
    FIN = FIN
    Starter = Starter
    NULL = NULL
    s1 = s1
    s2 = s2
    c1 = c1
    c2 = c2
    ScanType = "inspect"
    MaxScanned = 1
    ControlTimeouts = TRUE
    Crashes = TRUE
    Sources = {s1, s2}
    Cancelers = {c1}
INVARIANT CompletedHasReport
INVARIANT CompletedTasksSettled
PROPERTY FinishedOnlyCanceled
PROPERTY AgreementIsStable
CHECK_DEADLOCK FALSE
