SPECIFICATION FilesSpec
CONSTANTS
    Requests = {q1, q2}
    Source = Source
    Output = Output
    Base = Base
    Foreign = {x1}
    Missing = Missing
    NoRequest = NoRequest
    MaxPlans = 2
    MaxCaptures = 2
    MaxEdits = 1
    MaxForeign = 2
    MaxFaults = 3
    Procs = {1, 2}
    Calls <- Lines
    MaxCliFaults = 1
    Tasks = {p, q}
    Histories <- Mixes
SYMMETRY Interchangeable
CHECK_DEADLOCK FALSE
INVARIANT OneContentPerRequest
INVARIANT ReportedFileSurvives
INVARIANT ResultCanBeRecorded
PROPERTY NoNewerDataLost
INVARIANT CommandsKeepTheirWord
INVARIANT LegacyHistoryStands
