CONSTANTS
    Exports = {e1}
    Restores = {r1}
    Automated = {e1}
    Tasks = {t1, t2}
    NoJob = NoJob
    MaxRows = 1
    MaxSends = 2
    MaxTries = 2
    MaxCrashes = 1
SPECIFICATION FairSpec
INVARIANTS
    TypeOK
    OneExecution
    CompleteHasArtifact
PROPERTIES
    PublishesOnlyUncancelled
    KeepsPromise
    RunsAndCancelsEnd
CHECK_DEADLOCK FALSE
