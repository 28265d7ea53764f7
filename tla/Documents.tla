------------------------------- MODULE Documents -------------------------------
(***************************************************************************)
(* What the harness computes in one go from whole documents, outputs and   *)
(* outcomes: the audits, the log monitor and the portfolio.  The harness   *)
(* is asked one question of the sets below, and its answer is judged.      *)
(***************************************************************************)
EXTENDS RaidSafetyMatrix, LogMonitor, Portfolio

CONSTANTS
  Directories,   \* [mods, files]: a manifest's mods and a directory of jars
  Interops,      \* [manifest, targets, pins, audited, later]: a run of interop()
                 \* whose directory is another one after its audit
  Matrices,      \* [matrix, catalog, mods, targets]
  Outputs,       \* sequences of chunks of a server's output
  Portfolios     \* [targets, javas]: the targets of a catalog and what they meet

\* Validated when they are loaded.
ASSUME DocumentsAssumption ==
  /\ \A i \in Interops : ValidMods(i.manifest.mods)
  /\ \A m \in Matrices : ValidMatrix(m.matrix) /\ ValidTargets(m.targets)
  /\ \A p \in Portfolios : ValidCatalog(p.targets, p.javas)
  /\ Outputs \subseteq Seq(Seq(Symbols))

VARIABLES
  input,   \* the question asked
  asked    \* whether it was

vars == <<input, asked>>

Question(kind, set) == input \in [kind : {kind}, of : set]

SomeQuestion ==
  \/ Question("directory", Directories)
  \/ Question("interop", Interops)
  \/ Question("matrix", Matrices)
  \/ Question("log", Outputs)
  \/ Question("portfolio", Portfolios)

Init == SomeQuestion /\ asked = FALSE

Next == ~asked /\ asked' = TRUE /\ UNCHANGED input

Spec == Init /\ [][Next]_vars

-----------------------------------------------------------------------------
\* AuditAgreesWithResolution of ProductionManifest.
DirectoriesResolve ==
  input.kind = "directory" => AuditAgreesWithResolution(input.of.mods, input.of.files)

\* LaunchedAsTested of ProductionManifest: the audit saw one directory, the
\* resolution another.
InteropIsTested ==
  input.kind = "interop" =>
    LET i == input.of
    IN  LaunchedAsTested(i.manifest, i.targets,
                         Interop(i.manifest, i.targets, i.pins, i.audited, i.later))

\* VerdictsAreBacked of RaidSafetyMatrix.
MatrixIsBacked ==
  input.kind = "matrix" =>
    VerdictsAreBacked(input.of.matrix, input.of.catalog, input.of.mods, input.of.targets)

\* ChunkingDoesNotMatter of LogMonitor.
LinesAreWhole == input.kind = "log" => ChunkingDoesNotMatter(input.of)

\* ExitZeroIsEarned and ReportIsComplete of Portfolio.
PortfolioIsJust ==
  input.kind = "portfolio" =>
    /\ ExitZeroIsEarned(input.of.targets, input.of.javas)
    /\ ReportIsComplete(input.of.targets, input.of.javas)
===============================================================================
