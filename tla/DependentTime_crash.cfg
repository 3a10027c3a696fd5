\* Runs killed between any two statements, up to twice, and rerun on the
\* snb.duckdb the script left, from a fresh copy of the inputs or from the
\* files as the crash left them.
CONSTANTS
    Person = Person
    Post = Post
    Comment = Comment
    Forum = Forum
    i1 = i1
    e1 = e1
    e2 = e2
    m1 = m1
    m2 = m2
    fPersonInsert = fPersonInsert
    fForumMember = fForumMember
    Null = Null
    Absent = Absent
    DefaultDep = DefaultDep
    Entities <- MCEntities
    Mapping <- MCMapping
    Ids <- MCIds
    Dates <- MCDates
    EventIds <- MCOneEventId
    MatchVals <- MCMatchVals
    Files <- MCFiles
    PersonInsert = fPersonInsert
    EntityDirSets <- MCEntityDirSets
    MaxEvents = 1
    MatchIsKey = TRUE
    MaxCrashes = 2
SPECIFICATION Spec
INVARIANTS
    NoSilentLoss
