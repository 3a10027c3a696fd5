\* People-4-hops curation and cleanup with factor_tables_dir scratch/factors/*,
\* PathCuration leaving other files next to curated_paths.parquet, and main()
\* killed and run again, or run again after it finished.
CONSTANTS
    k1 = k1
    k2 = k2
    q1 = q1
    q2 = q2
    q13b = q13b
    qPerson = qPerson
    eDir = eDir
    eFile = eFile
    NoArg = NoArg
    Stray = Stray
    P4H = P4H
    Curated = Curated
    StrayFiles <- MCStrayFiles
    MaxReruns = 2
    Keys <- MCKeys
    Variants <- MCOneVariant
    AuxVariants <- MCAuxVariants
    ShortVariants <- MCShortVariants
    FactorEntries <- MCFactorEntries
    FactorDirs <- MCFactorDirs
    RequiredViews <- MCRequiredViews
    Ranges <- MCOneRange
    Windows <- MCDaily
    MultiRowPerKey = FALSE
    NullKeys = {}
    FactorDirArgs <- MCScratchArgs
    ScratchFactors <- MCScratchFactors
    DefaultFactorDir <- MCDefaultArg
    ShortArgs <- MCShortArgs
SPECIFICATION FairSpec
INVARIANTS
    CuratedPathsLoaded
PROPERTIES
    RunCompletes
