-------------------------- MODULE ProductionManifest --------------------------
(***************************************************************************)
(* The production manifest of src/production-manifest.ts and the commands  *)
(* of src/cli.ts that rest on it: its audit against the harness pins, the  *)
(* portfolio and a directory of jars, and the jars an interop run starts.  *)
(*                                                                         *)
(* A mod's `locator` is the set of file names, in lower case, that its     *)
(* file or filePattern matches, empty when it has neither, and `tokens`    *)
(* are the versions that are whole tokens of it.  Mods form a set: their   *)
(* ids differ, and findings are compared as a set.                         *)
(***************************************************************************)
EXTENDS Naturals

None == "none"

\* validateProductionManifest(): what the audits rely on.
ValidMods(mods) ==
  /\ mods # {}
  /\ \A m, n \in mods : m # n => m.id # n.id /\ m.modId # n.modId

Enabled(mods)      == {m \in mods : m.enabled}
Matching(m, files) == {f \in files : f.lower \in m.locator}

Finding(severity, code, about) == [severity |-> severity, code |-> code, about |-> about]
NoErrors(findings)             == \A f \in findings : f.severity # "error"

\* Findings of one severity and code, for each of a set.
Each(severity, code, about) == {Finding(severity, code, a) : a \in about}
Ids(mods)                   == {m.id : m \in mods}

\* Mutant of Claims: one claim hides the others.
OneClaim(mods, files, name) ==
  LET claims == {c \in mods \X files : c[2] \in Matching(c[1], files) /\ c[2].lower = name}
  IN  {c \in claims : c = CHOOSE d \in claims : TRUE}

\* claims: the manifest entries and files behind a name in lower case.
Claims(mods, files, name) ==
  {c \in mods \X files : c[2] \in Matching(c[1], files) /\ c[2].lower = name}

AuditModsDirectory(mods, files) ==
  LET none(m) == Matching(m, files) = {}
      many(m) == \E f, g \in Matching(m, files) : f # g
  IN  UNION {
        Each("error", "MISSING_PRODUCTION_JAR", Ids({m \in Enabled(mods) : none(m)})),
        Each("error", "AMBIGUOUS_PRODUCTION_JAR", Ids({m \in Enabled(mods) : many(m)})),
        Each("error", "DISABLED_MOD_PRESENT", Ids({m \in mods \ Enabled(mods) : ~none(m)})),
        Each("error", "ARTIFACT_MATCH_COLLISION",
             {f.lower : f \in {g \in files : \E c, d \in Claims(mods, files, g.lower) : c # d}}),
        Each("error", "UNDECLARED_PRODUCTION_JAR",
             {f.name : f \in {g \in files : Claims(mods, files, g.lower) = {}}}) }

\* The harness pins against the manifest.  `enabled.find()` takes the one mod
\* that has the id.
AuditPins(manifest, pins) ==
  LET api == {m \in Enabled(manifest.mods) : m.modId = "fabric-api"}
  IN  UNION {
        IF manifest.minecraft = pins.minecraft THEN {}
        ELSE {Finding("error", "MINECRAFT_VERSION_DRIFT", None)},
        IF manifest.loader = pins.loader THEN {}
        ELSE {Finding("error", "FABRIC_LOADER_DRIFT", None)},
        IF api = {} THEN {Finding("error", "MISSING_FABRIC_API", None)} ELSE {},
        Each("error", "FABRIC_API_DRIFT", Ids({m \in api : m.version # pins.fabricApi})) }

\* One enabled mod against the portfolio.  The checks of a first-party mod end
\* with the first of them that leaves no target to look at.
AuditMod(m, targets, strict) ==
  LET own    == m.owner = "first-party"
      target == {t \in targets : t.id = m.target}
      tested == {t \in target : t.testedVersion # None}
      when(condition, severity, code) ==
        IF condition THEN {Finding(severity, code, m.id)} ELSE {}
  IN  UNION {
        when(m.version = None, IF own \/ strict THEN "error" ELSE "warning", "UNPINNED_VERSION"),
        when(m.locator = {}, "error", "MISSING_ARTIFACT_LOCATOR"),
        when(m.locator # {} /\ m.version # None /\ m.version \notin m.tokens,
             "error", "UNBOUND_ARTIFACT_VERSION"),
        when(own /\ m.repository = None, "error", "MISSING_REPOSITORY"),
        when(own /\ m.target = None, "error", "UNCATALOGUED_FIRST_PARTY"),
        when(own /\ m.target # None /\ target = {}, "error", "UNKNOWN_PORTFOLIO_TARGET"),
        when(own /\ target # tested, "error", "UNPINNED_TEST_VERSION"),
        when(own /\ \E t \in tested : t.testedVersion \notin t.tokens,
             "error", "TESTED_ARTIFACT_VERSION_MISMATCH"),
        when(own /\ m.version # None /\ \E t \in tested : t.testedVersion # m.version,
             "error", "VERSION_DRIFT") }

\* auditProductionManifest(); `directory` holds the set of jars, if one is given.
AuditProductionManifest(manifest, targets, pins, strict, directory) ==
  UNION ({AuditPins(manifest, pins)}
           \union {AuditMod(m, targets, strict) : m \in Enabled(manifest.mods)}
           \union {AuditModsDirectory(manifest.mods, files) : files \in directory})

\* resolveProductionArtifacts(): a jar for each enabled mod, or a HarnessError.
Mismatched(mods, files) ==
  \E m \in Enabled(mods) :
    Matching(m, files) = {} \/ \E f, g \in Matching(m, files) : f # g

Collides(mods, files) ==
  \E m, n \in Enabled(mods) : m # n /\
    \E f \in Matching(m, files), g \in Matching(n, files) : f.lower = g.lower

Resolves(mods, files) == ~Mismatched(mods, files) /\ ~Collides(mods, files)

ResolveProductionArtifacts(mods, files) ==
  {[mod |-> m.id, jar |-> CHOOSE f \in files : f \in Matching(m, files)] : m \in Enabled(mods)}

\* modInventoryAssertions() of buildFullManifestCompatibilityScenario(): what
\* the server must report, before and after its restart.
ModInventoryAssertions(mods) ==
  {[modId |-> m.modId, version |-> m.version] : m \in mods}

\* Mutant of InteropAudit: pins of third parties are not asked for.
InteropAuditLenient(manifest, targets, pins, files) ==
  NoErrors(AuditProductionManifest(manifest, targets, pins, FALSE, {files}))

\* interop() always asks for third-party pins.
InteropAudit(manifest, targets, pins, files) ==
  NoErrors(AuditProductionManifest(manifest, targets, pins, TRUE, {files}))

\* interop(): the directory is read twice, by the audit and to resolve.
Interop(manifest, targets, pins, atAudit, atResolve) ==
  IF ~InteropAudit(manifest, targets, pins, atAudit) THEN [error |-> "PRODUCTION_MANIFEST_DRIFT"]
  ELSE IF Mismatched(manifest.mods, atResolve) THEN [error |-> "PRODUCTION_ARTIFACT_MISMATCH"]
  ELSE IF Collides(manifest.mods, atResolve) THEN [error |-> "PRODUCTION_ARTIFACT_COLLISION"]
  ELSE [error     |-> None,
        artifacts |-> ResolveProductionArtifacts(manifest.mods, atResolve),
        inventory |-> ModInventoryAssertions(Enabled(manifest.mods))]

-----------------------------------------------------------------------------
\* A directory that passes the audit resolves, to all of its jars and to one
\* for each enabled mod: the audit (auditModsDirectory) and the resolution
\* (resolveProductionArtifacts) are written apart and must agree.
AuditAgreesWithResolution(mods, files) ==
  NoErrors(AuditModsDirectory(mods, files)) =>
    LET artifacts == ResolveProductionArtifacts(mods, files)
    IN  /\ Resolves(mods, files)
        /\ {a.jar : a \in artifacts} = files
        /\ \A a, b \in artifacts : a.jar.lower = b.jar.lower => a.mod = b.mod

\* Whatever became of the directory after its audit, what interop() launches
\* is one jar for each enabled mod, of its own name, and every first-party one
\* names the version that the portfolio tests and the server must report.
LaunchedAsTested(manifest, targets, result) ==
  result.error = None =>
    /\ {a.mod : a \in result.artifacts} = Ids(Enabled(manifest.mods))
    /\ \A a, b \in result.artifacts : a.jar.lower = b.jar.lower => a = b
    /\ \A m \in Enabled(manifest.mods) :
         /\ \A a \in result.artifacts : a.mod = m.id => a.jar.lower \in m.locator
         /\ m.version \in m.tokens
         /\ [modId |-> m.modId, version |-> m.version] \in result.inventory
         /\ m.owner = "first-party" =>
              \E t \in targets : /\ t.id = m.target
                                 /\ t.testedVersion = m.version /\ m.version \in t.tokens
===============================================================================
