\* Runs killed once and rerun, with the snb.duckdb the script connects to
\* (line 33) left in place.
CONSTANTS
    Person = Person
    Post = Post
    Comment = Comment
    Forum = Forum
    i1 = i1
    e1 = e1
    e2 = e2
    m1 = m1
    m2 = m2
    fPersonInsert = fPersonInsert
    fForumMember = fForumMember
    Null = Null
    Absent = Absent
    DefaultDep = DefaultDep
    Entities <- MCEntities
    Mapping <- MCMapping
    Ids <- MCIds
    Dates <- MCDates
    EventIds <- MCOneEventId
    MatchVals <- MCMatchVals
    Files <- MCFiles
    PersonInsert = fPersonInsert
    EntityDirSets <- MCEntityDirSets
    MaxEvents = 1
    MatchIsKey = TRUE
    MaxCrashes = 1
SPECIFICATION FairSpec
PROPERTIES
    Completes
