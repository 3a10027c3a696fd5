\* start_date >= end_date: the bucket loop never runs and export_parameters
\* reads tables that were never created.
CONSTANTS
    k1 = k1
    k2 = k2
    q1 = q1
    q2 = q2
    q13b = q13b
    qPerson = qPerson
    eDir = eDir
    eFile = eFile
    NoArg = NoArg
    Stray = Stray
    P4H = P4H
    Curated = Curated
    StrayFiles = {}
    MaxReruns = 0
    Keys <- MCKeys
    Variants <- MCVariants
    AuxVariants <- MCAuxVariants
    ShortVariants <- MCShortVariants
    FactorEntries <- MCFactorEntries
    FactorDirs <- MCFactorDirs
    RequiredViews <- MCRequiredViews
    Ranges <- MCAllRanges
    Windows <- MCWindows
    MultiRowPerKey = FALSE
    NullKeys = {}
    FactorDirArgs <- MCCoreArgs
    ScratchFactors <- MCScratchFactors
    DefaultFactorDir <- MCDefaultArg
    ShortArgs <- MCShortArgs
SPECIFICATION Spec
INVARIANTS
    ExportFindsTables
