# TLA+ models of the LDBC SNB Interactive parameter and update-stream preparation

This directory holds TLA+ models of the two programs under `src/`:

- `src/paramgen/paramgen.py` is the parameter generator. For every time bucket
  it runs one extraction query per query variant. It accumulates the rows in
  per-variant DuckDB tables. Then it keeps, per logical key, the rows with the
  latest `useUntil`, and writes one parquet file per variant.
- `src/scripts/add_dependent_time_interactive.py` is the update-stream
  augmenter (`DependentTimeAppender`). It loads every update-event parquet
  file into a table. It sets `dependentDate` to the latest creation date of
  the event's parent entities in the initial snapshot. Then it writes the
  table back over the input file.

Both programs are single-threaded batch jobs that drive one embedded DuckDB
instance, one statement at a time. The hard behaviour is therefore not
interleaving. It is what a sequence of SQL statements does to a table. That
covers boundaries of the bucket loop, rows stored twice, deduplication, and
joins that correlate the wrong rows. It also covers files deleted before
they are rewritten and a database that is not reset between runs.

## Inventory

| Component | Source | State | Operations |
|---|---|---|---|
| Factor-table view materializer | `paramgen.py` 67-95 | DuckDB views | glob the factor directory; `ValueError` if empty; `DROP VIEW IF EXISTS` + `CREATE VIEW` per directory |
| Windowed parameter accumulator | `paramgen.py` 45-64, 98-119, 175-176 | `date_limit`, `create_tables`, tables `Q_<variant>` | per bucket and variant: substitute dates into the template, `CREATE TABLE AS` (first bucket only) then `INSERT` |
| Latest-validity deduplicator and exporter | `paramgen.py` 9-43, 122-135 | tables `Q_<variant>`, `Q_<variant>_filtered`, parquet files | `DELETE` rows below the key's max `useUntil`; `GROUP BY` key and interval; `COPY` to file |
| Short-query parameters | `paramgen.py` 137-148 | tables `Q_personId`, `Q_messageId`, files | one creating extraction at `date_start`, `COPY` without deduplication |
| Working-database lifecycle | `paramgen.py` 153-154, 185; `add_dependent_time_interactive.py` 33 | database files | paramgen unlinks `scratch/paramgen.duckdb` at start and unlinks a different path at the end; the appender opens a persistent `snb.duckdb` and never resets it |
| Snapshot view binding | `add_dependent_time_interactive.py` 36-48 | event tables (schema script), `<Entity>_View` | run the schema script; `ValueError` if an entity directory is missing; `CREATE VIEW` (no `IF NOT EXISTS`) |
| Update-event loader and rewriter | `add_dependent_time_interactive.py` 58-91, 137-141 | event tables, event files on disk | per file: `INSERT` the file into its table; Person_Insert skips the update; then unlink the file, `COPY` the table to the same path, `DROP TABLE` |
| Dependency-time resolver | `add_dependent_time_interactive.py` 94-135 | event table | one `UPDATE ... FROM (SELECT match columns, GREATEST(t1.date, ...) FROM t LEFT JOIN ...) WHERE m = m_match` |
| People-4-hops path curation | `paramgen.py` 160-172 (`path_selection` is not in `src/`) | `<factor_tables_dir[:-2]>/people4Hops` | create the directory, let PathCuration write `curated_paths.parquet`, remove every other file from `scratch/factors/people4Hops` |
| Command line | `paramgen.py` 187-233 | — | argparse: dates, `int` width, `bool` flag, the factor directory string; `default=` for options not given |

How they interact: the accumulator and the resolver both run queries
against views bound by a materializer. The accumulator's tables are the
deduplicator's input, and the deduplicator's output is the exporter's. The
short-query generator reuses the accumulator's `generate_parameter_for_query_type`
with `create_tables=True`. The resolver runs in the loader's per-file loop,
between loading a file and rewriting it. No two components run at the same
time. They communicate only through DuckDB tables and the files on disk.

What makes each part correct (the properties the models state):

- accumulator: the loop visits exactly `date_start + k*window_time` for every
  such date before `end_date` (spec 8.1); the first extraction is stored
  once (spec 4.1); an empty range still creates the tables (spec 4.1); a
  non-positive width is rejected (spec 4.1, 7);
- deduplicator: each file holds, once each, exactly the extracted rows whose
  `useUntil` is the latest of their key (spec 3, 8.2). Each key has one
  row (spec 3), NULL key columns included;
- path curation: the curated 4-hop paths, and only they, are loaded as a
  factor table (spec 1);
- command line: the short-query flag does what it says (spec 6);
- working databases: every run of `main()` completes, also one started again
  after a crash or after a finished run (spec 5, 6);
- resolver: each rewritten row carries the maximum date of its own parents
  (spec 8.4). It never gets a value computed for another event (spec 8.5).
  A missing parent raises an error (docstring of `update_dependent_time`);
- loader/rewriter: the script never ends normally with an event file lost,
  even when the operator reruns it without restoring the inputs (spec 5, 7).
  Every run, rerun after crashes included, eventually completes, because
  the working database is reset (spec 7).

## Modules

### `Paramgen.tla` (with `MC_Paramgen.tla`)

It models `main()` of `paramgen.py` from `create_views_of_factor_tables` to the
end. The variable `phase` says which part of `main()` runs. `idx` is the
position in the running `for` loop over variants.

- A DuckDB table is a bag (`Bags`) of rows. A row is
  `[key, useFrom, useUntil]`: `key` is a model value that stands for all key
  columns of `remove_lower_times_dict`, and dates are day numbers. `raw`,
  `filtered` and `files` map a variant to the bag of its table `Q_x`, of
  `Q_x_filtered`, and of its parquet file.
- The SQL templates `paramgen-queries/pg-*.sql` are not in `src/`.
  `Extractions(d)` is every set of rows whose `useUntil` is the bucket's
  `date_limit` and whose `useFrom` is a bucket boundary (`date_start` or
  `d`). This is the contract of spec 4.1. `MultiRowPerKey` says whether one
  extraction may return a key twice. An extraction is chosen once per call of
  `generate_parameter_for_query_type`. Both statements of that call (the
  `CREATE TABLE AS` and the `INSERT`) see the same rows, because they run the
  same deterministic query on unchanged views.
- The actions are `CreateViewsOfFactorTables`, `GenerateAuxParameter` (lines
  175-176), `LoopTest`, `GenerateBucketParameter` and `EndBucket` (the
  `while` loop of `generate_parameters`), `ExportVariant` (one iteration of
  `export_parameters`: `DELETE`, `CREATE ... GROUP BY`, `COPY`),
  `GenerateShortParameter`, and `Terminated` (stuttering once `main()` has
  returned or raised). A raised exception is `phase = "failed"`, with its
  reason in `failure`.
- History variables: `extracted` holds every row each variant's extraction
  returned, and `buckets` holds the `date_limit` of every loop iteration.
- `CuratePaths` is lines 160-172 of `main()`. It runs before the views
  are created.
  - A path is a sequence of characters. The first element stands for every
    character but the last of the directory name, so `factors/` is
    `<<"factor", "s", "/">>`. This keeps the `[:-2]` slice of line 160
    (`Relative`) and the suffix handling of lines 75-79 (`GlobDir`) exact.
  - `people4Hops` is an entry of the globbed directory only when
    `Relative(arg) = GlobDir(arg)` (`GlobbedEntries`).
  - `Cleanup` removes the other files only when the directory written to is
    the hard-coded `scratch/factors`.
  - PathCuration is not in the source. It writes `curated_paths.parquet` and
    possibly files of `StrayFiles`.
- The command line: `Init` picks `factorArg` from `FactorDirArgs` and
  `shortArg` from `ShortArgs`. An option that is not given (`NoArg`) takes
  its `default=` (`Option`): `DefaultFactorDir` (`factors/`) for the factor
  directory and 1 for the bucket width. `genShort` is `PyBool(shortArg)`:
  argparse's `type=bool` is Python's `bool()` of the string. The dates are
  always given: the default range of 34 days is too long for TLC.
- Crash and rerun. `Crash` kills `main()` between two statements:
  - `scratch/paramgen.duckdb` keeps its tables and views;
  - the parameter files and `people4Hops` stay on disk.

  `Restart` starts `main()` again with the same arguments, after a crash or
  after a finished run. `WorkingDbReset` is the unlink and connect of lines
  152-154. `CuratePaths` adds to what the directory already holds, and a
  `COPY` overwrites its file. A `CREATE TABLE` of a table that exists
  raises (`QueryError`). `MaxReruns` bounds the reruns.
- The `DELETE` follows SQL's NULL rules. `KeyEquals` is false for a key of
  `NullKeys`. The subquery's `max()` over no rows is NULL, and `Deleted`
  holds only when the comparison is true.
- Small operators carry the conditions a bug is most likely in:
  `FactorViews` (the `is_dir` filter), `LoopCondition` (the `while` test),
  `Relative` (the slice), `Deleted` and `RemoveLowerTimes` (the `DELETE`),
  and
  `RemoveDuplicates` (the `GROUP BY`).

### `ParamStore.tla`: the abstract parameter store

It states what the generator promises for the interactive variants (spec
4.1, 4.2), with no buckets, tables or SQL. `gathered` maps a variant to
the rows gathered so far, and `exported` maps each exported variant to its
file. `Gather(q, R)` adds a batch of rows that are valid until one date.
`Export(q)` writes, once, one copy of each gathered row whose `useUntil` is
the latest of its key (`Latest`). A variant takes no batch after its export,
and an export never changes.

`Paramgen` instantiates it as `PS`:

- `gathered` is `extracted`, restricted to the interactive variants;
- `exported` is `files`, restricted to the interactive variants.

`ParamStoreRefined == PS!Spec` is checked as a temporal property. Every step
of `main()` must then be a `Gather`, an `Export` or a stutter of the
abstract store. The auxiliary and short-query variants change nothing
there. The `DELETE`/`GROUP BY` pair, applied to a table whose first bucket
was inserted twice, must produce exactly `Latest` of what was extracted.

### `DependentTime.tla` (with `MC_DependentTime.tla`)

It models `create_views` and `create_and_load_temp_tables` of
`DependentTimeAppender`, with `update_dependent_time` inside.

- `constants_dependent.py` (`dependent_entity_map`, `schema_columns`) and
  `schema_dependentTime.sql` are not in `src/`. One dependent event type is
  modelled: its parents are the entities of the sequence `Mapping` (for
  example `<<Person, Forum>>` for a Forum_hasMember_Person event). An event is
  its id, its matchColumns value `m`, and the parent id of each eventColumn
  (`Null` for a NULL foreign key). The snapshot maps each parent entity and id
  to a creation date or `Absent`.
- The UPDATE is modelled by what the SQL does. `JoinedDate` is the LEFT JOIN
  (NULL when no snapshot row matches). `Greatest` is DuckDB's `GREATEST`,
  which skips NULLs. `SubqueryRows` is the subquery.
  `DependencyTimeChoices` gives the values a target row may take: those of
  the subquery rows that agree with it on the matchColumns. When there are
  several, `UPDATE ... FROM` takes any one of them, so the model chooses
  nondeterministically (`UpdatedTables`).
- Each statement of a file's loop iteration is its own action: `LoadTable`
  (line 82), `UpdateDependentTime`, `UnlinkInput`, `CopyTable` and
  `DropTable`. DuckDB commits each statement, so a crash can come between
  any two of them.
- `CreateViews` binds the views in order. It stops at the first entity whose
  directory is missing (`ValueError`, line 47) or whose view already exists
  in `snb.duckdb` (`CREATE VIEW` raises, line 48). On success it globs the
  files that exist into `paths` (line 63). The loop runs over `paths`.
- Crash and rerun. `Crash` kills the process between two statements, at most
  `MaxCrashes` times. The views and tables in `snb.duckdb` survive, and the
  files stay as the last statement left them. `Restart` is the operator
  running the script again:
  - Spec 7 says the operator starts from a fresh copy of the inputs
    (`FreshCopy`). Nothing checks that, so the rerun may also start from the
    files as the crash left them.
  - `snb.duckdb` is kept, as the script never removes it (line 33).
  - A new `DependentTimeAppender` runs `create_views` from the start.
    `ViewBlocks` is the test of lines 45-48 that stops it.

## Runs

| Run | cfg | Expect | Shows |
|---|---|---|---|
| `paramgen_core` | `Paramgen.cfg` | pass | `TypeOK` and `BucketCoverage` hold, and `ParamStoreRefined` (main() implements `ParamStore`) holds, for every start/end pair over days 0..2 (empty and reversed included), widths 1 and 2, two interactive variants, two keys, with and without short parameters, with factor directories that are empty, hold no directory, or are complete, and with `factor_tables_dir` `scratch/factors/*` or the default `factors/`. About 160,000 states. |
| `paramgen_curation` | `Paramgen_curation.cfg` | pass | `CuratedPathsLoaded` holds with `factor_tables_dir` `scratch/factors/*` when PathCuration leaves another file next to the curated one: the cleanup removes it, and `people4Hops` becomes a view of exactly the curated file. `RunCompletes` holds under `FairSpec` when `main()` may be killed and started again, or started again after it finished, up to twice: line 153 removes the tables a killed run left. Range 0..2, daily buckets, one interactive variant. About 151,000 states. |
| `paramgen_curation_paths` | `Paramgen_curation_paths.cfg` | violation | `CuratedPathsLoaded`: with the default `factors/` (or the help text's `/data/out-sf1`), `[:-2]` names another directory, and no `people4Hops` view is created. With `factors/*` outside `scratch`, the cleanup looks in `scratch/factors`, and the view also reads PathCuration's other files. Each argument gives one of the two counterexamples. |
| `paramgen_empty_range` | `Paramgen_empty_range.cfg` | violation | `ExportFindsTables`: with `start_date >= end_date` no table is created, and `export_parameters` raises on `DELETE FROM Q_1`. |
| `paramgen_zero_window` | `Paramgen_zero_window.cfg` | violation | `LoopBounded`: width 0 passes argparse and the loop never ends. |
| `paramgen_short_dup` | `Paramgen_short_dup.cfg` | violation | `ShortExportOnce`: `CREATE TABLE AS` followed by `INSERT` of the same query stores every short-query row twice, and it is copied to the file that way. |
| `paramgen_multirow` | `Paramgen_multirow.cfg` | violation | `ExportedOneRowPerKey`: if a template returns a key with two `useFrom` values, both rows survive deduplication. A key with a NULL key column likewise keeps its row from every bucket. |
| `dependent_time_core` | `DependentTime.cfg` | pass | `TypeOK`, `DependencyIsMaxOfOwnParents` hold when the matchColumns identify the event. The model has files of up to two events, two parent entities, one parent id, dates 1..2 or absent, and the Forum directory present or missing. About 281,000 states. |
| `dependent_time_crash` | `DependentTime_crash.cfg` | pass | `NoSilentLoss` holds when the run may be killed up to twice between any two statements (between the unlink and the copy included), and is rerun on the `snb.duckdb` it left, with or without a fresh copy of the inputs. A run that ends normally has every event file with its events. This holds because every rerun after `create_views` raises at its first `CREATE VIEW`, which is finding 7. So the fix spec 7 calls for (resetting the database) would need the fresh copy to be enforced too. The run uses one event per file, since it is about files and not about the UPDATE. About 74,000 states. |
| `dependent_time_shared_match` | `DependentTime_shared_match.cfg` | violation | `DependencyIsMaxOfOwnParents`: two events that agree on their matchColumns can swap dependency times. |
| `dependent_time_null` | `DependentTime_null_dep.cfg` | violation | `NoNullDependency`: an event with no parent in the snapshot is written with a NULL dependency time, and no error is raised. |
| `dependent_time_rerun` | `DependentTime_rerun.cfg` | violation | `Completes`: rerun after a crash with the `snb.duckdb` the script left behind, `CREATE VIEW Person_View` raises and the run never completes. |

Why the bounds are enough:

- Three days with widths 1 and 2 give loops of zero, one and two buckets, and
  a range that is not a multiple of the width (0..1 with width 2). Two
  buckets are enough for a key to be seen twice, so the `DELETE` has
  something to remove.
- Two variants exercise `create_tables` being reset only after the whole
  first bucket.
- Two keys let the `DELETE`'s per-key maximum differ between keys.
- The curation runs use one range of two daily buckets. The rerun run has
  one interactive variant, because the files of one run multiply the states
  of the next. Two reruns let a rerun itself be killed. The paths are
  settled before the first bucket, so more dates add nothing. Two buckets
  give a NULL key two versions.
- The factor-directory arguments are:
  - `scratch/factors/*`, the normal use;
  - `factors/`, the default;
  - `/data/out-sf1`, the help example;
  - `factors/*`, a directory outside scratch.

  Together they cover every suffix form of lines 75-79 and both outcomes of
  the cleanup's hard-coded path.
- In the resolver, two events with two parent references each, over
  present, absent and NULL parents, cover every case of the LEFT JOIN /
  `GREATEST` combination and of the match correlation.
- Two crashes let a rerun itself be killed, including after it has already
  rewritten a file. Two files, one of them Person_Insert, cover both loop
  branches, so a crash can fall between any two statements of either.
  Running the crash model with two events per file gives the same verdicts
  in about 2.5 minutes (1.3 million states). The faster bound is kept for the
  mutant runs.

Fairness: `Completes` (in `dependent_time_rerun`) is checked under
`FairSpec`, which is weak fairness of `Progress`. `Progress` is every statement of the script plus the operator's
`Restart`. The script is a sequential program with no waits, so a statement
that can run eventually runs. Spec 7 makes the operator rerun after a crash.
`Crash` has no fairness, so crashes are never forced. `Paramgen`'s
`RunCompletes` is checked under its own `FairSpec`, weak fairness of `Run`.
`Run` is the statements of `main()` plus `Restart`. `main()` is sequential
like the appender. Forcing a rerun after a finished run only makes the
rerun case happen. A non-positive width is a separate question
(`LoopBounded`), since the loop then has no last iteration to be fair to.

Every passing property has a mutant in `PROJECT.json`. A mutant is a
plausible bug that TLC must catch under the run's cfg:

- the loop condition written `<=`;
- the `GROUP BY` skipped;
- the `is_dir` filter dropped;
- the match-column `WHERE` dropped;
- the end of the file list tested one position late;
- the slice of line 160 written `[:-1]`;
- `CREATE OR REPLACE VIEW` in `create_views`, so that a rerun no longer
  raises on its own views;
- the unlink of `scratch/paramgen.duckdb` (line 153) dropped.

## Findings

1. `paramgen.py:113`: an empty or reversed date range creates no table, and
   export then crashes. The spec says one creating pass always happens.
2. `paramgen.py:119,220`: a bucket width of 0 or less loops forever. The
   spec says it is a configuration error.
3. `paramgen.py:63-64`: the first extraction of every table is stored twice.
   For the short-query parameter files this reaches the output.
4. `paramgen.py:28`: uniqueness per key depends on the templates never
   returning a key twice in one bucket.
5. `add_dependent_time_interactive.py:124`: the UPDATE is correlated only on
   the matchColumns.
6. `add_dependent_time_interactive.py:99,130`: a missing parent gives a NULL
   dependency time, not the ValueError the docstring promises.
7. `add_dependent_time_interactive.py:33,48`: `snb.duckdb` is never reset.
   After a crash (or a finished run) its views persist, and the rerun fails
   at the first `CREATE VIEW`. Spec 7 says reruns are idempotent because the
   working database is reset. `paramgen.py` does reset its database (line
   152) and uses `DROP VIEW IF EXISTS` (line 89); the appender does neither.

8. `paramgen.py:160`: `factor_tables_dir[:-2]` assumes the argument ends
   in `/*`. The default `factors/` and the documented example
   `/data/out-sf1` send the curated 4-hop paths to another directory, so
   they are never loaded as a factor table.
9. `paramgen.py:168`: the cleanup is hard-coded to `scratch/factors`. For
   any other factor directory, stray files in `people4Hops` reach its view.
10. `paramgen.py:10`: the `DELETE` never removes older rows of a key with a
    NULL key column, because `=` is not true for NULL. Whether a template
    can return one is not in the source.

Not modelled as a run, observed while modelling:

- The module docstring of `add_dependent_time_interactive.py` (lines 9-10)
  says the output goes to new folders `inserts_dep` and `deletes_dep`. The
  code rewrites each input file in place (lines 137-140), which is what the
  model does.
- `main()` unlinks `paramgen.snb.db`, not the working database. This is
  harmless only because the next run unlinks `scratch/paramgen.duckdb`
  first; `RunCompletes` checks a rerun after a finished run.
- `paramgen.py:227`: `type=bool` makes `--generate_short_query_parameters
  False` enable the short-query parameters, since `bool("False")` is true.
  The model keeps this conversion (`PyBool`), but no run checks it. One call
  of the argument parser shows it.
- `default_dependent_time` (line 34) is stored and never used. The default
  `dependentDate` of Person_Insert rows comes from the schema script.

## Not modelled, and why

- The content of the SQL templates and of `constants_dependent.py` is not in
  `src/`. They are replaced by the contracts described above.
- The string handling is left out: the path suffixes (lines 75-79, 27-28),
  `remove_suffix`, and the SQL text building. The model keeps what it
  produces: table names per file, and the join and match structure.
- PathCuration itself: `path_selection` is not in `src/`. Only its output
  (the curated file, possibly with others) is modelled.
- The conversion of dates to epoch milliseconds (`paramgen.py:56`). Which
  filters use the epoch form is in the templates, which are not in `src/`.
  So no property can say which bucket boundary is shifted.
- A crash inside `CuratePaths` (lines 160-172) and inside one export
  iteration. Each is one step. A rerun redoes both from the start, and the
  cleanup and the `COPY` overwrite what a half-done step left.
- A `CREATE TABLE Q_x_filtered` of a table that exists. After a crash it
  could only be reached past the `CREATE TABLE Q_13b` that raises first.
- An empty `matchColumns` list (`add_dependent_time_interactive.py:126`):
  `dependent_entity_map` is not in `src/`.

## Plan

Done so far:

1. `Paramgen`: the bucket loop, deduplication and export, with the
   boundary, duplication and uniqueness questions.
2. `DependentTime`: the resolver's UPDATE and the per-file pipeline.
3. Violation runs for the disagreements found.
4. `DependentTime` crash and rerun, with completion under weak fairness
   (`dependent_time_crash`, `dependent_time_rerun`).
5. The abstract `ParamStore` and the refinement `ParamStoreRefined`.
6. The command line, the people4Hops curation and cleanup, and SQL NULL
   keys in the `DELETE`.
7. A `paramgen.py` crash and rerun (`RunCompletes`), and argparse defaults.

Next:

8. The resolver with several matched rows per parent id (a non-unique
   snapshot id), where `UPDATE ... FROM` may pick a non-maximal combination.
9. `Paramgen` with a bucket extracting for several variants, in a composed
   run with `DependentTime` over shared dates. This depends on the
   templates, which are not in `src/`.
