\* factor_tables_dir given as the default factors/, as the help text's example
\* /data/out-sf1, or as factors/* outside scratch; PathCuration may leave other
\* files next to curated_paths.parquet.
CONSTANTS
    k1 = k1
    k2 = k2
    q1 = q1
    q2 = q2
    q13b = q13b
    qPerson = qPerson
    eDir = eDir
    eFile = eFile
    NoArg = NoArg
    Stray = Stray
    P4H = P4H
    Curated = Curated
    StrayFiles <- MCStrayFiles
    MaxReruns = 0
    Keys <- MCKeys
    Variants <- MCVariants
    AuxVariants <- MCAuxVariants
    ShortVariants <- MCShortVariants
    FactorEntries <- MCFactorEntries
    FactorDirs <- MCFactorDirs
    RequiredViews <- MCRequiredViews
    Ranges <- MCOneRange
    Windows <- MCDaily
    MultiRowPerKey = FALSE
    NullKeys = {}
    FactorDirArgs <- MCWrongArgs
    ScratchFactors <- MCScratchFactors
    DefaultFactorDir <- MCDefaultArg
    ShortArgs <- MCShortArgs
SPECIFICATION Spec
INVARIANTS
    CuratedPathsLoaded
