-------------------------- MODULE MC_DependentTime --------------------------
(* Instantiation of DependentTime for TLC. *)
EXTENDS DependentTime

CONSTANTS Person, Post, Comment, Forum, i1, e1, e2, m1, m2,
          fPersonInsert, fForumMember

MCEntities == <<Person, Post, Comment, Forum>>
\* A Forum_hasMember_Person event: its PersonId and ForumId columns.
MCMapping == <<Person, Forum>>
MCIds == {i1}
MCDates == {1, 2}
MCEventIds == {e1, e2}
\* One event identity, for the runs with crashes.
MCOneEventId == {e1}
MCMatchVals == {m1, m2}
MCFiles == <<fPersonInsert, fForumMember>>
\* All entity directories present, or Forum missing.
MCEntityDirSets == {Range(MCEntities), Range(MCEntities) \ {Forum}}
=============================================================================
