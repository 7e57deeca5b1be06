\* Two overlapping calls over two checks whose probes may hang for ever.
CONSTANTS
    Evals = {e1, e2}
    Checks = {c1, c2}
SPECIFICATION FairSpec
CHECK_DEADLOCK FALSE
INVARIANTS OneProbeInFlight ReportIsEarned
PROPERTIES BusyIsTrue EvaluateReturns GuardComesFree
