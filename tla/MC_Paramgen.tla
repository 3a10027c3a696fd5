---------------------------- MODULE MC_Paramgen ----------------------------
(* Instantiation of Paramgen for TLC. *)
EXTENDS Paramgen

CONSTANTS k1, k2, q1, q2, q13b, qPerson, eDir, eFile, Stray

MCKeys == {k1, k2}
MCVariants == <<q1, q2>>
MCAuxVariants == <<q13b>>
MCShortVariants == <<qPerson>>
MCFactorEntries == {eDir, eFile}
MCFactorDirs == {eDir}
MCRequiredViews == {eDir}

\* Every start/end pair over three days, empty and reversed ranges included.
MCAllRanges == (0..2) \X (0..2)
\* Non-empty ranges only.
MCRanges == {r \in MCAllRanges : r[1] < r[2]}
\* Width 1 as the default of line 214, and 2.
MCWindows == {NoArg, 2}

\* Paths as character sequences; the first element stands for all but the
\* last character of the directory name.
MCScratchFactors == <<"scratch/factor", "s">>
\* scratch/factors/*, as the generator is run in the scratch directory.
MCScratchArg == <<"scratch/factor", "s", "/", "*">>
\* factors/, the default of line 200.
MCDefaultArg == <<"factor", "s", "/">>
\* /data/out-sf1, the example of the help text of line 198.
MCHelpArg == <<"/data/out-sf", "1">>
\* factors/*, a factor directory outside scratch.
MCOtherArg == <<"factor", "s", "/", "*">>
\* scratch/factors/*, or the option left out (its default).
MCCoreArgs == {MCScratchArg, NoArg}
MCWrongArgs == {NoArg, MCHelpArg, MCOtherArg}
MCScratchArgs == {MCScratchArg}
\* One range of two days, in daily buckets.
MCOneRange == {<<0, 2>>}
MCDaily == {1}
MCStrayFiles == {Stray}

\* The option absent, or given as True.
MCShortArgs == {NoArg, "True"}
\* ... or given as False.
MCAllShortArgs == {NoArg, "True", "False"}
MCZeroWindow == {0}
\* One interactive variant, for the run about files and restarts.
MCOneVariant == <<q1>>
=============================================================================
