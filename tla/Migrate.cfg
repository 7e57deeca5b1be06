\* Three deploys of releases that diverged, in turn or overlapping.
CONSTANTS
    j1 = j1
    j2 = j2
    j3 = j3
    Jobs = {j1, j2, j3}
    Versions = {1, 2, 3}
    Release <- Branches
    None = None
SPECIFICATION Spec
CHECK_DEADLOCK FALSE
INVARIANTS ResultMatchesTable RecordedIsApplied ReportIsTrue
PROPERTY AppliedInOrder
