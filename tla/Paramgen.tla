------------------------------ MODULE Paramgen ------------------------------
(***************************************************************************)
(* The parameter generator of src/paramgen/paramgen.py, from its command   *)
(* line on: main() places the curated 4-hop paths and cleans up their      *)
(* directory, loads the factor tables as views, creates the auxiliary     *)
(* tables Q_13b and Q_14b,                                                 *)
(* runs every interactive extraction query once per time bucket           *)
(* (generate_parameters), then per query variant deletes the rows whose    *)
(* useUntil is not the latest for their key, groups away duplicates and    *)
(* copies the result to a parquet file (export_parameters), and optionally *)
(* exports the short-query parameter tables (generate_short_parameters).   *)
(*                                                                         *)
(* A DuckDB table is a bag of rows.  A row is abstracted to its logical    *)
(* key (a model value standing for all key columns of the variant) and its *)
(* validity interval; dates are day numbers.  The SQL templates under      *)
(* paramgen-queries/ are not in the repository's source: an extraction is  *)
(* any set of rows whose useUntil is the bucket's date_limit and whose     *)
(* useFrom is a bucket boundary (the contract of spec section 4.1).        *)
(***************************************************************************)
EXTENDS Naturals, Sequences, FiniteSets, Bags, FiniteSetsExt, TLC

CONSTANTS
    Keys,            \* logical keys of parameter rows
    Variants,        \* sequence: the interactive variants of lines 115 and 129
    AuxVariants,     \* sequence: the variants created once in main (13b, 14b)
    ShortVariants,   \* sequence: the short-query variants (personId, messageId)
    FactorEntries,   \* what the factor-table glob of line 81 can return
    FactorDirs,      \* the entries among them that are directories
    RequiredViews,   \* the views the extraction templates read
    Ranges,          \* possible <<start_date, end_date>> arguments, as days
    Windows,         \* possible --time_bucket_size_in_days arguments
    MultiRowPerKey,  \* may one extraction return two rows for one key?
    NullKeys,        \* keys with a NULL in one of their key columns
    FactorDirArgs,   \* possible --factor_tables_dir arguments (paths)
    DefaultFactorDir,\* its default, factors/ (line 200)
    ScratchFactors,  \* the path scratch/factors
    ShortArgs,       \* possible --generate_short_query_parameters arguments
    NoArg,           \* an option not given on the command line
    P4H,             \* the people4Hops entry of a factor directory
    Curated,         \* the file curated_paths.parquet
    StrayFiles,      \* other files PathCuration may leave in people4Hops
    MaxReruns        \* how often main() may be started again

ASSUME FactorDirs \subseteq FactorEntries /\ RequiredViews \subseteq FactorDirs
ASSUME Ranges \subseteq Nat \X Nat /\ Windows \subseteq Int \cup {NoArg}
ASSUME MultiRowPerKey \in BOOLEAN /\ NullKeys \subseteq Keys
(* A path is a sequence of characters; an argument ending in * ends in /*. *)
ASSUME \A p \in (FactorDirArgs \ {NoArg}) \cup {ScratchFactors, DefaultFactorDir} :
         p \in Seq(STRING) /\ Len(p) > 0 /\ (p[Len(p)] = "*" => p[Len(p) - 1] = "/")

\* Failure reasons: the exception that ends main()
NoFailure    == "none"
NoFactors    == "noFactorTables"   \* ValueError of line 83
MissingView  == "missingView"      \* a template reads a view that was not created
MissingTable == "missingTable"     \* DELETE FROM Q_x on a table never created
TableExists  == "tableExists"      \* CREATE TABLE Q_x of a table in the database

VARIABLES
    phase,        \* which part of main() runs
    idx,          \* position in the variant list of the running for loop
    dateStart,    \* date_start
    endDate,      \* end_date
    windowTime,   \* window_time
    genShort,     \* generate_short_query_parameters
    views,        \* views created from the factor-table directories
    dateLimit,    \* date_limit of generate_parameters
    createTables, \* create_tables of generate_parameters
    raw,          \* tables Q_<variant>: variant -> bag of rows
    filtered,     \* tables Q_<variant>_filtered: variant -> bag of rows
    files,        \* written parquet files: variant -> bag of rows
    failure,      \* why main() raised, if it did
    extracted,    \* history: variant -> every row its extraction ever returned
    buckets,      \* history: the date_limit of every loop iteration, in order
    factorArg,    \* the factor_tables_dir argument
    shortArg,     \* the generate_short_query_parameters argument
    p4hFiles,     \* the files in <relative_factor_path>/people4Hops
    reruns        \* how often main() was started again

vars == <<phase, idx, dateStart, endDate, windowTime, genShort, views,
          dateLimit, createTables, raw, filtered, files, failure,
          extracted, buckets, factorArg, shortArg, p4hFiles, reruns>>

\* Left alone by every statement after the path curation of main().
mainVars == <<factorArg, shortArg, p4hFiles, reruns>>

AllVariants == Range(Variants) \cup Range(AuxVariants) \cup Range(ShortVariants)
Dates == {r[1] : r \in Ranges} \cup {r[2] : r \in Ranges}

-----------------------------------------------------------------------------
(* Extraction: what one run of a template returns for date_limit d. *)

Candidates(d) == [key: Keys, useFrom: {dateStart, d}, useUntil: {d}]

OneRowPerKey(R) == \A r, s \in R : r.key = s.key => r = s

Extractions(d) ==
    IF MultiRowPerKey THEN SUBSET Candidates(d)
                      ELSE {R \in SUBSET Candidates(d) : OneRowPerKey(R)}

(* Why a call of generate_parameter_for_query_type raises: its template  *)
(* reads a view that was not created, or CREATE TABLE finds Q_x in the    *)
(* working database already.                                              *)
QueryError(q, create) ==
    CASE ~(RequiredViews \subseteq views) -> MissingView
      [] create /\ q \in DOMAIN raw       -> TableExists
      [] OTHER                            -> NoFailure

Fail(reason) ==
    /\ phase' = "failed"
    /\ failure' = reason
    /\ UNCHANGED <<idx, dateStart, endDate, windowTime, genShort, views,
                   dateLimit, createTables, raw, filtered, files,
                   extracted, buckets, mainVars>>

(* CREATE TABLE Q_x AS <query> followed by INSERT INTO Q_x <query>: both  *)
(* statements run the same deterministic query on the same views.         *)
CreateAndInsert(R) == SetToBag(R) (+) SetToBag(R)

(* generate_parameter_for_query_type(cursor, d, date_start, create, q),   *)
(* with R the rows its query returns.                                    *)
GenerateParameterForQueryType(q, create, R) ==
    /\ QueryError(q, create) = NoFailure
    /\ \/ /\ create
          /\ raw' = raw @@ (q :> CreateAndInsert(R))
       \/ /\ ~create
          /\ q \in DOMAIN raw
          /\ raw' = [raw EXCEPT ![q] = @ (+) SetToBag(R)]
    /\ extracted' = [extracted EXCEPT ![q] = @ \cup R]

-----------------------------------------------------------------------------
(* The command line, lines 187-233.  argparse converts an option given   *)
(* with type=bool by Python's bool(): every non-empty string is true.      *)
PyBool(a) == IF a = NoArg THEN FALSE ELSE a # ""

(* Lines 188-223: an option that is not given takes its default=; type=str *)
(* and type=int keep the value given, so any integer is a bucket width.    *)
Option(given, default) == IF given = NoArg THEN default ELSE given

(* main(), lines 151-159: a fresh working database and the dates. *)
Init ==
    /\ phase = "curate"
    /\ idx = 0
    /\ \E r \in Ranges : dateStart = r[1] /\ endDate = r[2]
    /\ \E w \in Windows : windowTime = Option(w, 1)
    /\ \E f \in FactorDirArgs : factorArg = Option(f, DefaultFactorDir)
    /\ shortArg \in ShortArgs
    /\ genShort = PyBool(shortArg)
    /\ p4hFiles = {}
    /\ reruns = 0
    /\ views = {}
    /\ dateLimit = dateStart
    /\ createTables = TRUE
    /\ raw = <<>>
    /\ filtered = <<>>
    /\ files = <<>>
    /\ failure = NoFailure
    /\ extracted = [q \in AllVariants |-> {}]
    /\ buckets = <<>>

(* Mutant: the slice written [:-1]. *)
RelativeOffByOne(p) == SubSeq(p, 1, Len(p) - 1)

(* relative_factor_path = factor_tables_dir[:-2], line 160. *)
Relative(p) == SubSeq(p, 1, Len(p) - 2)

(* Lines 75-79: the glob pattern gets a trailing / and *; glob lists the  *)
(* directory the pattern ends in.                                          *)
GlobDir(p) ==
    CASE p[Len(p)] = "*" -> SubSeq(p, 1, Len(p) - 2)
      [] p[Len(p)] = "/" -> SubSeq(p, 1, Len(p) - 1)
      [] OTHER           -> p

(* Lines 168-172: every file but curated_paths.parquet is removed from    *)
(* scratch/factors/people4Hops, whatever directory the paths went to.      *)
Cleanup(written) ==
    IF Relative(factorArg) = ScratchFactors THEN written \cap {Curated} ELSE written

(* Lines 160-172: people4Hops is created under relative_factor_path,       *)
(* PathCuration (not in the source) writes curated_paths.parquet there,    *)
(* possibly with other files, next to what earlier runs left there, and   *)
(* the cleanup runs.                                                       *)
CuratePaths ==
    /\ phase = "curate"
    /\ \E out \in SUBSET StrayFiles : p4hFiles' = Cleanup(p4hFiles \cup {Curated} \cup out)
    /\ phase' = "views"
    /\ UNCHANGED <<idx, dateStart, endDate, windowTime, genShort, views,
                   dateLimit, createTables, raw, filtered, files, failure,
                   extracted, buckets, factorArg, shortArg, reruns>>

(* The entries of the globbed directory: factor tables, and people4Hops   *)
(* when relative_factor_path is that directory.                            *)
GlobbedEntries(directories) ==
    directories \cup (IF Relative(factorArg) = GlobDir(factorArg) THEN {P4H} ELSE {})

(* Mutant: the path_dir.is_dir() test of line 87 dropped. *)
FactorViewsNoDirCheck(directories) == directories

(* Lines 85-95: a view per globbed entry that is a directory. *)
FactorViews(directories) == directories \cap (FactorDirs \cup {P4H})

CreateViewsOfFactorTables ==
    /\ phase = "views"
    /\ \E found \in SUBSET FactorEntries :
       LET directories == GlobbedEntries(found) IN
         \/ /\ directories = {}
            /\ Fail(NoFactors)
         \/ /\ directories # {}
            /\ views' = FactorViews(directories)
            /\ phase' = "aux"
            /\ idx' = 1
            /\ UNCHANGED <<dateStart, endDate, windowTime, genShort, dateLimit,
                           createTables, raw, filtered, files, failure,
                           extracted, buckets, mainVars>>

(* Lines 175-176: the auxiliary variants, created at date_start. *)
GenerateAuxParameter ==
    /\ phase = "aux"
    /\ LET q == AuxVariants[idx] IN
       \/ /\ QueryError(q, TRUE) # NoFailure
          /\ Fail(QueryError(q, TRUE))
       \/ \E R \in Extractions(dateStart) :
            /\ GenerateParameterForQueryType(q, TRUE, R)
            /\ IF idx = Len(AuxVariants)
                 THEN phase' = "loop" /\ idx' = 0
                 ELSE phase' = phase /\ idx' = idx + 1
            /\ UNCHANGED <<dateStart, endDate, windowTime, genShort, views,
                           dateLimit, createTables, filtered, files, failure,
                           buckets, mainVars>>

-----------------------------------------------------------------------------
(* generate_parameters, lines 112-119. *)

(* Mutant: the while condition written as date_limit <= end_date. *)
LoopConditionInclusive == dateLimit <= endDate

LoopCondition == dateLimit < endDate

LoopTest ==
    /\ phase = "loop"
    /\ idx = 0
    /\ IF LoopCondition
         THEN /\ idx' = 1
              /\ buckets' = Append(buckets, dateLimit)
              /\ UNCHANGED phase
         ELSE /\ phase' = "export"
              /\ idx' = 1
              /\ UNCHANGED buckets
    /\ UNCHANGED <<dateStart, endDate, windowTime, genShort, views, dateLimit,
                   createTables, raw, filtered, files, failure, extracted, mainVars>>

GenerateBucketParameter ==
    /\ phase = "loop"
    /\ idx \in 1..Len(Variants)
    /\ \E R \in Extractions(dateLimit) :
         /\ GenerateParameterForQueryType(Variants[idx], createTables, R)
         /\ idx' = idx + 1
         /\ UNCHANGED <<phase, dateStart, endDate, windowTime, genShort, views,
                        dateLimit, createTables, filtered, files, failure,
                        buckets, mainVars>>

EndBucket ==
    /\ phase = "loop"
    /\ idx = Len(Variants) + 1
    /\ createTables' = FALSE
    /\ dateLimit' = dateLimit + windowTime
    /\ idx' = 0
    /\ UNCHANGED <<phase, dateStart, endDate, windowTime, genShort, views,
                   raw, filtered, files, failure, extracted, buckets, mainVars>>

-----------------------------------------------------------------------------
(* export_parameters, lines 128-135. *)

(* remove_lower_times_dict: DELETE FROM Q_x t1 WHERE t1.useUntil <        *)
(* (SELECT max(t2.useUntil) FROM Q_x t2 WHERE t2.<key> = t1.<key>)        *)
(* t2.<key> = t1.<key> is not true when a key column is NULL. *)
KeyEquals(a, b) == a = b /\ a \notin NullKeys

(* The useUntil values the subquery aggregates; max() of none is NULL.    *)
SubqueryUseUntils(B, k) == {r.useUntil : r \in {s \in DOMAIN B : KeyEquals(s.key, k)}}

(* The WHERE deletes a row only when it is true; against NULL it is not. *)
Deleted(B, s) ==
    /\ SubqueryUseUntils(B, s.key) # {}
    /\ s.useUntil < Max(SubqueryUseUntils(B, s.key))

RemoveLowerTimes(B) == [r \in {s \in DOMAIN B : ~Deleted(B, s)} |-> B[r]]

(* remove_duplicates: CREATE TABLE Q_x_filtered AS SELECT <key>, useFrom,  *)
(* useUntil FROM Q_x GROUP BY <key>, useFrom, useUntil                     *)
(* Mutant: the Q_x table exported without the GROUP BY. *)
RemoveDuplicatesSkipped(B) == B

RemoveDuplicates(B) == SetToBag(BagToSet(B))

ExportVariant ==
    /\ phase = "export"
    /\ LET q == Variants[idx] IN
       \/ /\ q \notin DOMAIN raw
          /\ Fail(MissingTable)
       \/ /\ q \in DOMAIN raw
          /\ LET kept == RemoveLowerTimes(raw[q]) IN
               /\ raw' = [raw EXCEPT ![q] = kept]
               /\ filtered' = filtered @@ (q :> RemoveDuplicates(kept))
               /\ files' = (q :> RemoveDuplicates(kept)) @@ files
          /\ IF idx = Len(Variants)
               THEN /\ phase' = IF genShort THEN "short" ELSE "done"
                    /\ idx' = 1
               ELSE phase' = phase /\ idx' = idx + 1
          /\ UNCHANGED <<dateStart, endDate, windowTime, genShort, views,
                         dateLimit, createTables, failure, extracted, buckets, mainVars>>

(* generate_short_parameters, lines 144-148, then the end of main(). *)
GenerateShortParameter ==
    /\ phase = "short"
    /\ LET q == ShortVariants[idx] IN
       \E R \in Extractions(dateStart) :
         /\ GenerateParameterForQueryType(q, TRUE, R)
         /\ files' = (q :> raw'[q]) @@ files
         /\ IF idx = Len(ShortVariants)
              THEN phase' = "done" /\ idx' = idx
              ELSE phase' = phase /\ idx' = idx + 1
         /\ UNCHANGED <<dateStart, endDate, windowTime, genShort, views,
                        dateLimit, createTables, filtered, failure, buckets, mainVars>>

-----------------------------------------------------------------------------
(* Crash and rerun.  The process may be killed between two statements:    *)
(* the working database keeps every table and view created so far, and    *)
(* the files written stay on disk.  The operator then runs the same        *)
(* command again, as also after a finished run.                           *)

Crash ==
    /\ phase \in {"curate", "views", "aux", "loop", "export", "short"}
    /\ reruns < MaxReruns
    /\ phase' = "crashed"
    /\ UNCHANGED <<idx, dateStart, endDate, windowTime, genShort, views,
                   dateLimit, createTables, raw, filtered, files, failure,
                   extracted, buckets, mainVars>>

(* Mutant: the unlink of the working database dropped. *)
WorkingDbKept == UNCHANGED <<raw, filtered, views>>

(* Lines 152-154: scratch/paramgen.duckdb is unlinked and connected anew. *)
WorkingDbReset == raw' = <<>> /\ filtered' = <<>> /\ views' = {}

(* main() started again with the same arguments, lines 151-159: only the  *)
(* parameter files and the people4Hops directory remain of the last run.  *)
Restart ==
    /\ \/ phase = "crashed"
       \/ phase = "done" /\ reruns < MaxReruns
    /\ reruns' = reruns + 1
    /\ WorkingDbReset
    /\ phase' = "curate"
    /\ idx' = 0
    /\ dateLimit' = dateStart
    /\ createTables' = TRUE
    /\ extracted' = [q \in AllVariants |-> {}]
    /\ buckets' = <<>>
    /\ UNCHANGED <<dateStart, endDate, windowTime, genShort, files, failure,
                   factorArg, shortArg, p4hFiles>>

(* main() has returned or raised. *)
Terminated ==
    /\ phase \in {"done", "failed"}
    /\ UNCHANGED vars

(* The statements of one run of main(), and the operator's rerun. *)
Run ==
    \/ CuratePaths
    \/ CreateViewsOfFactorTables
    \/ GenerateAuxParameter
    \/ LoopTest
    \/ GenerateBucketParameter
    \/ EndBucket
    \/ ExportVariant
    \/ GenerateShortParameter
    \/ Restart

Next == Run \/ Crash \/ Terminated

Spec == Init /\ [][Next]_vars

(* main() runs its statements one after the other: one that can run       *)
(* eventually does, and a killed run is started again; a crash is never   *)
(* forced.                                                                 *)
FairSpec == Spec /\ WF_vars(Run)

-----------------------------------------------------------------------------
(* Properties *)

Row == [key: Keys, useFrom: Dates, useUntil: Dates]

TypeOK ==
    /\ phase \in {"curate", "views", "aux", "loop", "export", "short", "done", "failed",
                 "crashed"}
    /\ views \subseteq FactorDirs \cup {P4H}
    /\ p4hFiles \subseteq {Curated} \cup StrayFiles
    /\ createTables \in BOOLEAN
    /\ DOMAIN raw \subseteq AllVariants
    /\ \A q \in DOMAIN raw : IsABag(raw[q]) /\ BagToSet(raw[q]) \subseteq Row
    /\ DOMAIN files \subseteq AllVariants
    /\ \A q \in DOMAIN files : IsABag(files[q])
    /\ failure \in {NoFailure, NoFactors, MissingView, MissingTable, TableExists}
    /\ reruns \in 0..MaxReruns
    /\ extracted \in [AllVariants -> SUBSET Row]

(* Bucket coverage (spec 8.1): once the while loop of generate_parameters *)
(* has exited, it ran its body exactly at date_start, date_start +        *)
(* window_time, ... for every such date before end_date, i.e. for         *)
(* ceil((end_date - date_start) / window_time) buckets.                   *)
NumBuckets ==
    IF dateStart < endDate
      THEN (endDate - dateStart + windowTime - 1) \div windowTime
      ELSE 0

BucketCoverage ==
    phase \in {"export", "short", "done"} =>
        buckets = [k \in 1..NumBuckets |-> dateStart + (k - 1) * windowTime]

(* The interactive variants as the abstract parameter store: the rows    *)
(* their extractions returned are what was gathered, their parquet files  *)
(* what was exported.                                                      *)
PS == INSTANCE ParamStore WITH
        Variants <- Range(Variants),
        gathered <- [q \in Range(Variants) |-> extracted[q]],
        exported <- [q \in Range(Variants) \cap DOMAIN files |-> files[q]]

(* Keep-latest (spec 3 and 8.2), as a refinement: main() implements the    *)
(* parameter store.  Every interactive parameter file is written once,     *)
(* after the last extraction of its variant, and holds exactly once each   *)
(* the rows ever extracted for the variant whose useUntil is the latest    *)
(* extracted for their key; this is what the DELETE of                     *)
(* remove_lower_times_dict and the GROUP BY of remove_duplicates must      *)
(* achieve from a table in which the first bucket was inserted twice.      *)
ParamStoreRefined == PS!Spec

(* Finalized relation (spec 3): every interactive parameter file holds    *)
(* exactly one row per logical key.                                       *)
ExportedOneRowPerKey ==
    \A q \in Range(Variants) \cap DOMAIN files : OneRowPerKey(BagToSet(files[q]))

(* Creation pass (spec 4.1 and 8.1): the relation of every variant is     *)
(* created before export_parameters reads it, even when the bucket        *)
(* sequence is empty.                                                     *)
ExportFindsTables == failure # MissingTable

(* Accumulation (spec 4.1 step 3): the first extraction creates the       *)
(* relation and later ones are appended, so a short-query parameter file, *)
(* written from a table filled by a single extraction, holds each row     *)
(* that extraction returned once.                                         *)
ShortExportOnce ==
    \A q \in Range(ShortVariants) \cap DOMAIN files :
        files[q] = SetToBag(extracted[q])

(* Configuration (spec 4.1 and 7): a bucket width that is not positive is *)
(* rejected, so the bucket loop runs at most end_date - date_start times.  *)
LoopBounded == Len(buckets) <= endDate - dateStart

(* Spec 1: the 4-hop paths PathCuration produces are one of the input    *)
(* factor tables.  Once create_views_of_factor_tables has run, a         *)
(* people4Hops view exists, and the files it reads are exactly            *)
(* curated_paths.parquet: main() writes it under factor_tables_dir[:-2]    *)
(* (line 162) and cleans scratch/factors/people4Hops (line 168).          *)
CuratedPathsLoaded ==
    phase \notin {"curate", "views", "crashed"} /\ failure # NoFactors =>
        P4H \in views /\ p4hFiles = {Curated}

(* Spec 5 and 6: the working database is deleted at the start of a run    *)
(* (line 153), so every run of main() that starts, also one started again *)
(* after a crash or after a finished run, whose database line 185 does not *)
(* remove, finishes, unless its arguments or inputs are wrong.            *)
RunCompletes ==
    phase = "curate" ~> (phase = "done" \/ failure \in {NoFactors, MissingView, MissingTable})

=============================================================================
