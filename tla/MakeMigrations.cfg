\* Two edits by two modules' developers, with failed writes, on both dialects.
CONSTANTS
    Modules = {1, 2}
    Declarations <- AllSchemas
    Dialects = {"postgres", "sqlite"}
    Clocks = {2}
    Top = 99
    MaxEdits = 2
    MaxEntries = 4
    MaxFaults = 1
SPECIFICATION Spec
CHECK_DEADLOCK FALSE
INVARIANTS ChainBuilds DownRestores ReplayIsCurrent
PROPERTIES VersionsAscend ManifestsKeepEntries
