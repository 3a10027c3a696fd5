\* The short-query parameter files are written from a table filled by
\* CREATE TABLE AS and INSERT of the same query.
CONSTANTS
    k1 = k1
    k2 = k2
    q1 = q1
    q2 = q2
    q13b = q13b
    qPerson = qPerson
    eDir = eDir
    eFile = eFile
    NoArg = NoArg
    Stray = Stray
    P4H = P4H
    Curated = Curated
    StrayFiles = {}
    MaxReruns = 0
    Keys <- MCKeys
    Variants <- MCVariants
    AuxVariants <- MCAuxVariants
    ShortVariants <- MCShortVariants
    FactorEntries <- MCFactorEntries
    FactorDirs <- MCFactorDirs
    RequiredViews <- MCRequiredViews
    Ranges <- MCRanges
    Windows <- MCWindows
    MultiRowPerKey = FALSE
    NullKeys = {}
    FactorDirArgs <- MCCoreArgs
    ScratchFactors <- MCScratchFactors
    DefaultFactorDir <- MCDefaultArg
    ShortArgs <- MCShortArgs
SPECIFICATION Spec
INVARIANTS
    ShortExportOnce
