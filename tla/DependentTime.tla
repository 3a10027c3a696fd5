---------------------------- MODULE DependentTime ----------------------------
(***************************************************************************)
(* DependentTimeAppender of src/scripts/add_dependent_time_interactive.py: *)
(* create_views binds the initial-snapshot entity directories as views,    *)
(* create_and_load_temp_tables loads every update-event file into its      *)
(* table and, except for Person_Insert, runs update_dependent_time: one    *)
(* UPDATE ... FROM that sets dependentDate to the GREATEST of the dates of *)
(* the parent rows LEFT JOINed to the event, correlating target and        *)
(* subquery rows on the matchColumns; the file is then deleted, rewritten  *)
(* from the table, and the table dropped.                                  *)
(*                                                                         *)
(* The dependent_entity_map and schema_columns of constants_dependent.py   *)
(* are not in the repository's source: one dependent event type is         *)
(* modelled, whose parents are the entity types of the sequence Mapping    *)
(* (entity, eventColumns and entityColumns zipped), with one date column.  *)
(* An event is its id, its matchColumns value m and the id it references   *)
(* through each eventColumn (Null for a NULL foreign key).  A snapshot     *)
(* view holds at most one row per id.                                      *)
(***************************************************************************)
EXTENDS Naturals, Sequences, FiniteSets, FiniteSetsExt, TLC

CONSTANTS
    Entities,        \* the entity list of create_views, as a sequence
    Mapping,         \* the parent entity of each eventColumn, as a sequence
    Ids,             \* parent ids
    Dates,           \* creation dates (numbers)
    EventIds,        \* identities of update events
    MatchVals,       \* values of the matchColumns of an event
    Files,           \* the update-event files, in glob order
    PersonInsert,    \* the Person_Insert file, which gets no dependent time
    EntityDirSets,   \* which entity directories may exist on disk
    MaxEvents,       \* largest number of events in one file
    MatchIsKey,      \* do the matchColumns identify an event within its file?
    Null,            \* SQL NULL
    Absent,          \* a deleted file
    DefaultDep,      \* the dependentDate a freshly loaded row holds
    MaxCrashes       \* how many times a run may be killed

ASSUME Range(Mapping) \subseteq Range(Entities)
ASSUME PersonInsert \in Range(Files)
ASSUME MatchIsKey \in BOOLEAN

NoFailure   == "none"
MissingDir  == "missingEntityDir"   \* ValueError of line 47
ViewExists  == "viewExists"         \* CREATE VIEW of line 48 on an existing view

Event == [id: EventIds, m: MatchVals, ref: [1..Len(Mapping) -> Ids \cup {Null}]]
Row == [ev: Event, dep: Dates \cup {Null, DefaultDep}]
Snapshot == [Range(Mapping) -> [Ids -> Dates \cup {Absent}]]

(* The contents a file of update events may start with. *)
EventFiles ==
    {E \in SUBSET Event :
        /\ Cardinality(E) <= MaxEvents
        /\ \A a, b \in E : a.id = b.id => a = b
        /\ MatchIsKey => \A a, b \in E : a.m = b.m => a = b}

VARIABLES
    phase,      \* "views", "files", "done", "failed" or "crashed"
    paths,      \* the files glob.glob found (line 63), in order
    fi,         \* index in paths of the file being processed
    step,       \* the statement of the file's iteration that runs next
    snapshot,   \* initial snapshot: entity -> id -> date (the parquet data)
    entityDirs, \* the entity directories that exist
    views,      \* the views created by create_views
    tables,     \* event tables: file -> set of rows
    disk,       \* update-event files: file -> set of rows, or Absent
    failure,    \* why the run raised, if it did
    inputs,     \* history: the events each file held at the start
    crashes     \* how many times the run was killed

vars == <<phase, paths, fi, step, snapshot, entityDirs, views, tables, disk,
          failure, inputs, crashes>>

DependentFiles == Range(Files) \ {PersonInsert}

-----------------------------------------------------------------------------
(* update_dependent_time, lines 102-135 *)

(* t<i>.<dateColumn> of LEFT JOIN <entity>_View AS t<i>                   *)
(* ON t.<eventColumn> = t<i>.<entityColumn>: NULL when nothing matches.    *)
JoinedDate(e, i) ==
    IF e.ref[i] = Null \/ snapshot[Mapping[i]][e.ref[i]] = Absent
      THEN Null
      ELSE snapshot[Mapping[i]][e.ref[i]]

(* GREATEST(t1.<dateColumn>, ...) skips NULLs; it is NULL only if all are. *)
Greatest(e) ==
    LET found == {JoinedDate(e, i) : i \in 1..Len(Mapping)} \ {Null}
    IN  IF found = {} THEN Null ELSE Max(found)

(* The subquery: one row <<m_match, dependencyTime>> per row of the table. *)
SubqueryRows(T) == {[m |-> r.ev.m, dependencyTime |-> Greatest(r.ev)] : r \in T}

(* Mutant: the WHERE on the match columns dropped. *)
DependencyTimeChoicesUnmatched(T, r) ==
    {s.dependencyTime : s \in SubqueryRows(T)}

(* UPDATE <table> SET dependentDate = dependencyTime FROM (...) WHERE     *)
(* m = m_match: a target row joined to several subquery rows takes the    *)
(* value of any one of them.                                              *)
DependencyTimeChoices(T, r) ==
    {s.dependencyTime : s \in {u \in SubqueryRows(T) : u.m = r.ev.m}}

UpdatedTables(T) ==
    {{[ev |-> r.ev, dep |-> c[r]] : r \in T} :
        c \in {g \in [T -> Dates \cup {Null}] :
                  \A r \in T : g[r] \in DependencyTimeChoices(T, r)}}

-----------------------------------------------------------------------------

Init ==
    /\ phase = "views"
    /\ paths = <<>>
    /\ fi = 1
    /\ step = "load"
    /\ snapshot \in Snapshot
    /\ entityDirs \in EntityDirSets
    /\ views = {}
    /\ tables = <<>>
    /\ inputs \in [Range(Files) -> EventFiles]
    /\ disk = [f \in Range(Files) |-> {[ev |-> e, dep |-> Null] : e \in inputs[f]}]
    /\ failure = NoFailure
    /\ crashes = 0

(* create_views, lines 36-48: the schema script creates the event tables, *)
(* then one view per entity, in order, until a directory is missing or a  *)
(* view of that name is already in snb.duckdb.  On success the loop of    *)
(* create_and_load_temp_tables globs the files that exist (line 63).      *)
(* Mutant: CREATE OR REPLACE VIEW, so an existing view no longer raises. *)
ViewBlocksReplacing(e) == e \notin entityDirs

(* Lines 45-48: the entity's directory is missing, or CREATE VIEW meets a *)
(* view of that name.                                                      *)
ViewBlocks(e) == e \notin entityDirs \/ e \in views

CreateViews ==
    /\ phase = "views"
    /\ LET stop  == {i \in 1..Len(Entities) : ViewBlocks(Entities[i])}
           bound == IF stop = {} THEN Len(Entities) ELSE Min(stop) - 1
       IN  /\ views' = views \cup {Entities[i] : i \in 1..bound}
           /\ tables' = [f \in Range(Files) |-> {}]
           /\ IF stop = {}
                THEN /\ paths' = SelectSeq(Files, LAMBDA f : disk[f] # Absent)
                     /\ phase' = IF paths' = <<>> THEN "done" ELSE "files"
                     /\ failure' = failure
                ELSE /\ paths' = paths
                     /\ phase' = "failed"
                     /\ failure' = IF Entities[Min(stop)] \notin entityDirs
                                     THEN MissingDir ELSE ViewExists
    /\ UNCHANGED <<fi, step, snapshot, entityDirs, disk, inputs, crashes>>

(* Line 82: INSERT INTO <table> SELECT <schema columns> FROM read_parquet; *)
(* the file's dependentDate column, if any, is not selected.               *)
LoadTable ==
    /\ phase = "files"
    /\ step = "load"
    /\ LET f == paths[fi] IN
         /\ tables' = [tables EXCEPT ![f] =
                         @ \cup {[ev |-> r.ev, dep |-> DefaultDep] : r \in disk[f]}]
         /\ step' = IF f = PersonInsert THEN "unlink" ELSE "update"
    /\ UNCHANGED <<phase, fi, snapshot, entityDirs, views, disk, failure, inputs, paths, crashes>>

(* Lines 129-135: the UPDATE of update_dependent_time. *)
UpdateDependentTime ==
    /\ phase = "files"
    /\ step = "update"
    /\ LET f == paths[fi] IN
         \E T \in UpdatedTables(tables[f]) : tables' = [tables EXCEPT ![f] = T]
    /\ step' = "unlink"
    /\ UNCHANGED <<phase, fi, snapshot, entityDirs, views, disk, failure, inputs, paths, crashes>>

(* Lines 85 and 138: Path(input_file_path).unlink() *)
UnlinkInput ==
    /\ phase = "files"
    /\ step = "unlink"
    /\ disk' = [disk EXCEPT ![paths[fi]] = Absent]
    /\ step' = "copy"
    /\ UNCHANGED <<phase, fi, snapshot, entityDirs, views, tables, failure, inputs, paths, crashes>>

(* Lines 87 and 140: COPY <table> TO <the same path> (FORMAT PARQUET) *)
CopyTable ==
    /\ phase = "files"
    /\ step = "copy"
    /\ disk' = [disk EXCEPT ![paths[fi]] = tables[paths[fi]]]
    /\ step' = "drop"
    /\ UNCHANGED <<phase, fi, snapshot, entityDirs, views, tables, failure, inputs, paths, crashes>>

(* Mutant: the end of the file list tested one position late. *)
LastFileLate == fi > Len(paths)

(* The for loops of lines 62-63 are at their last file. *)
LastFile == fi = Len(paths)

(* Lines 88 and 141: DROP TABLE <table>, then the next file of the loop. *)
DropTable ==
    /\ phase = "files"
    /\ step = "drop"
    /\ tables' = [f \in DOMAIN tables \ {paths[fi]} |-> tables[f]]
    /\ IF LastFile
         THEN phase' = "done" /\ fi' = fi
         ELSE phase' = phase /\ fi' = fi + 1
    /\ step' = "load"
    /\ UNCHANGED <<paths, snapshot, entityDirs, views, disk, failure, inputs, crashes>>

(* The process is killed between two statements.  DuckDB commits every     *)
(* statement, so the views and tables of snb.duckdb survive it; the files  *)
(* are as the last statement left them.                                    *)
Crash ==
    /\ phase \in {"views", "files"}
    /\ crashes < MaxCrashes
    /\ phase' = "crashed"
    /\ crashes' = crashes + 1
    /\ UNCHANGED <<paths, fi, step, snapshot, entityDirs, views, tables, disk,
                   failure, inputs>>

(* Spec 7: after a crash, operators re-run from a fresh copy of inputs.    *)
FreshCopy == [f \in Range(Files) |-> {[ev |-> e, dep |-> Null] : e \in inputs[f]}]

(* The script is run again: a new DependentTimeAppender connects to the    *)
(* snb.duckdb the killed run left (line 33), and create_views starts over. *)
(* The operator may or may not have restored the input files first.       *)
Restart ==
    /\ phase = "crashed"
    /\ disk' = FreshCopy \/ UNCHANGED disk
    /\ phase' = "views"
    /\ paths' = <<>>
    /\ fi' = 1
    /\ step' = "load"
    /\ UNCHANGED <<snapshot, entityDirs, views, tables, failure, inputs, crashes>>

Terminated ==
    /\ phase \in {"done", "failed"}
    /\ UNCHANGED vars

(* The statements of one run, and the operator's rerun. *)
Progress ==
    \/ CreateViews
    \/ LoadTable
    \/ UpdateDependentTime
    \/ UnlinkInput
    \/ CopyTable
    \/ DropTable
    \/ Restart

Next == Progress \/ Crash \/ Terminated

Spec == Init /\ [][Next]_vars

(* The script runs sequentially: a statement that can run eventually does; *)
(* a crash is never forced.                                                *)
FairSpec == Spec /\ WF_vars(Progress)

-----------------------------------------------------------------------------
(* Properties *)

TypeOK ==
    /\ phase \in {"views", "files", "done", "failed", "crashed"}
    /\ paths \in Seq(Range(Files))
    /\ fi \in 1..Len(Files)
    /\ step \in {"load", "update", "unlink", "copy", "drop"}
    /\ views \subseteq Range(Entities)
    /\ DOMAIN tables \subseteq Range(Files)
    /\ \A f \in DOMAIN tables : tables[f] \subseteq Row
    /\ \A f \in Range(Files) : disk[f] = Absent \/ disk[f] \subseteq Row
    /\ failure \in {NoFailure, MissingDir, ViewExists}
    /\ crashes \in 0..MaxCrashes

(* The file's iteration of the loop of create_and_load_temp_tables has    *)
(* rewritten it.                                                           *)
Processed(f) ==
    \E i \in 1..Len(paths) :
        /\ paths[i] = f
        /\ \/ phase = "done"
           \/ phase = "files" /\ (i < fi \/ (i = fi /\ step = "drop"))

(* The dependency time the spec defines for an event (4.3): the latest    *)
(* creation date among the snapshot rows its foreign keys reference, NULL *)
(* when none of them is in the snapshot.                                  *)
ParentDates(e) ==
    {snapshot[Mapping[i]][e.ref[i]] : i \in {j \in 1..Len(Mapping) : e.ref[j] # Null}}
        \ {Absent}

SpecDependencyTime(e) ==
    IF ParentDates(e) = {} THEN Null
    ELSE CHOOSE d \in ParentDates(e) : \A x \in ParentDates(e) : x <= d

(* Dependency time (spec 8.4, 8.5): every row of a rewritten dependent    *)
(* event file carries the dependency time of its own parents; the UPDATE  *)
(* ... FROM never gives a row the value computed for another event of the *)
(* same file.                                                              *)
DependencyIsMaxOfOwnParents ==
    \A f \in DependentFiles :
        Processed(f) => \A r \in disk[f] : r.dep = SpecDependencyTime(r.ev)

(* Docstring of update_dependent_time (line 99): "throw valueError when a *)
(* value is not found": no rewritten dependent file holds a NULL          *)
(* dependency time.                                                        *)
NoNullDependency ==
    \A f \in DependentFiles :
        Processed(f) => \A r \in disk[f] : r.dep # Null

(* Spec 5 and 7: a crash between the unlink of line 138 and the COPY of  *)
(* line 140 loses the file, and the operator is to rerun from a fresh     *)
(* copy of the inputs, which nothing checks.  The script never ends        *)
(* normally with an event lost: a run that reaches its end, after any      *)
(* crashes and reruns with or without the fresh copy, leaves every         *)
(* update-event file on disk with the events it held at the start.  It    *)
(* holds because a rerun after create_views meets its own views in         *)
(* snb.duckdb and raises.                                                   *)
NoSilentLoss ==
    phase = "done" =>
        \A f \in Range(Files) :
            /\ disk[f] # Absent
            /\ {r.ev : r \in disk[f]} = inputs[f]

(* Spec 7: runs are idempotent because the working database is reset at   *)
(* the start; a run whose snapshot directories exist therefore completes,  *)
(* however often it is killed and rerun from a fresh copy of the inputs.  *)
Completes == <>(phase = "done" \/ failure = MissingDir)

=============================================================================
