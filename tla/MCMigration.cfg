CONSTANTS
    old = old
    new = new
    stray = stray
    Instances = {old, new, stray}
    Release <- RollingRelease
    Broken = {3}
    WrongCatalog = {stray}
    Existing = {0, 2}
    NoOne = NoOne
    Orphan = Orphan
    MaxFaults = 2
SPECIFICATION FairSpec
INVARIANTS
    LockExcludes
    VersionTableIsTruthful
    VersionReadIsCurrent
    SuccessMeansUpToDate
PROPERTIES
    ImplementsLog
    CallReturns
    Converges
