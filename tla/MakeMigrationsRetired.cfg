\* A module leaves main after it generated migrations.
CONSTANTS
    Modules = {1, 2}
    Declarations <- FewSchemas
    Dialects = {"postgres"}
    Clocks = {2}
    Top = 99
    MaxEdits = 3
    MaxEntries = 4
    MaxFaults = 0
SPECIFICATION RetireSpec
CHECK_DEADLOCK FALSE
PROPERTY HandWrittenStays
