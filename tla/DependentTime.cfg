\* Loading, dependency-time UPDATE and rewrite of a Person_Insert and a
\* Forum_hasMember_Person_Insert file of up to two events each, whose
\* matchColumns identify the event.
CONSTANTS
    Person = Person
    Post = Post
    Comment = Comment
    Forum = Forum
    i1 = i1
    e1 = e1
    e2 = e2
    m1 = m1
    m2 = m2
    fPersonInsert = fPersonInsert
    fForumMember = fForumMember
    Null = Null
    Absent = Absent
    DefaultDep = DefaultDep
    Entities <- MCEntities
    Mapping <- MCMapping
    Ids <- MCIds
    Dates <- MCDates
    EventIds <- MCEventIds
    MatchVals <- MCMatchVals
    Files <- MCFiles
    PersonInsert = fPersonInsert
    EntityDirSets <- MCEntityDirSets
    MaxEvents = 2
    MatchIsKey = TRUE
    MaxCrashes = 0
SPECIFICATION Spec
INVARIANTS
    TypeOK
    DependencyIsMaxOfOwnParents
