--------------------------- MODULE RaidSafetyMatrix ---------------------------
(***************************************************************************)
(* The raid-safety matrix of src/raid-safety-matrix.ts and its audit       *)
(* against the scenarios, the production manifest and the portfolio.       *)
(*                                                                         *)
(* A scenario's `slots` say what becomes of the artifact of each slot it   *)
(* declares, a target's `artifacts` the base name, in lower case, that it  *)
(* supplies for a slot.  Mods are those of ProductionManifest.             *)
(***************************************************************************)
EXTENDS ProductionManifest

\* validateEntries() and validateScenarioReferences() of one entry.
ValidEntry(e, required) ==
  /\ e.group \in {"foundations", "acceptance"} /\ e.status \in {"executable", "blocked"}
  /\ e.artifacts # {} /\ e.artifacts \subseteq required
  /\ e.group = "foundations" => e.status = "executable"
  /\ e.status = "executable" <=> e.scenarios # {}
  /\ \A r \in e.scenarios : DOMAIN r.bindings # {} /\ DOMAIN r.bindings \subseteq e.artifacts
  /\ \A r, s \in e.scenarios : r.id = s.id => r = s

ValidMatrix(matrix) ==
  /\ matrix.required # {} /\ matrix.entries # {}
  /\ \A e \in matrix.entries : ValidEntry(e, matrix.required)
  /\ \A e, d \in matrix.entries : e.id = d.id => e = d

\* validatePortfolioManifest(): no two targets list one scenario.
ValidTargets(targets) ==
  \A t, u \in targets : t # u => t.id # u.id /\ t.scenarios \intersect u.scenarios = {}

\* An artifact that the matrix requires of production.
AuditRequired(artifact, mods, targets) ==
  LET mod    == {m \in mods : m.id = artifact}
      target == {t \in targets : \E m \in mod : t.id = m.target}
      when(condition, code) ==
        IF condition THEN {Finding("blocker", code, artifact)} ELSE {}
  IN  UNION {
        when(mod = {}, "MISSING_PRODUCTION_ARTIFACT"),
        when(\E m \in mod : ~m.enabled, "DISABLED_PRODUCTION_ARTIFACT"),
        when(\E m \in mod : m.target = None, "MISSING_PORTFOLIO_TARGET"),
        when(target = {} /\ \E m \in mod : m.target # None, "UNKNOWN_PORTFOLIO_TARGET"),
        when(\E m \in mod, t \in target : m.version = None \/ m.version # t.testedVersion,
             "VERSION_DRIFT") }

\* One artifact bound to a slot of a scenario; `target` holds the target that
\* lists the scenario, if there is one.
AuditBinding(e, scenario, target, artifact, slot, mods) ==
  LET supplied == {t.artifacts[slot] : t \in {u \in target : slot \in DOMAIN u.artifacts}}
      about(severity, code) == {Finding(severity, code, e.id)}
  IN  IF slot \notin DOMAIN scenario.slots THEN about("error", "UNKNOWN_SCENARIO_ARTIFACT")
      ELSE IF scenario.slots[slot] # "required"
        THEN about("error", "NON_REQUIRED_SCENARIO_ARTIFACT")
      ELSE IF target # {} /\ supplied = {} THEN about("blocker", "PORTFOLIO_ARTIFACT_MISSING")
      ELSE IF \E m \in mods, name \in supplied : m.id = artifact /\ name \notin m.locator
        THEN about("blocker", "PORTFOLIO_ARTIFACT_LOCATOR_MISMATCH")
      ELSE {}

\* Mutant of TargetsOf: any target will do.
AnyTarget(id, targets) == targets

\* targetsByScenario
TargetsOf(id, targets) == {t \in targets : id \in t.scenarios}

\* A scenario that an executable entry refers to.
AuditReference(e, r, catalog, mods, targets) ==
  LET target == TargetsOf(r.id, targets)
  IN  IF r.id \notin DOMAIN catalog THEN {Finding("error", "UNKNOWN_SCENARIO", e.id)}
      ELSE (IF target = {} THEN {Finding("error", "UNCATALOGUED_SCENARIO", e.id)} ELSE {})
             \union UNION {AuditBinding(e, catalog[r.id], target, a, r.bindings[a], mods) :
                             a \in DOMAIN r.bindings}

\* boundArtifacts leaves out the bindings of an unknown scenario.
BoundArtifacts(e, catalog) ==
  UNION {DOMAIN r.bindings : r \in {s \in e.scenarios : s.id \in DOMAIN catalog}}

AuditEntry(e, catalog, mods, targets) ==
  Each("error", "UNBOUND_ENTRY_ARTIFACT", e.artifacts \ BoundArtifacts(e, catalog))
    \union UNION {AuditReference(e, r, catalog, mods, targets) : r \in e.scenarios}

AuditRaidSafetyMatrix(matrix, catalog, mods, targets) ==
  LET findings ==
        UNION ({AuditRequired(a, mods, targets) : a \in matrix.required}
                 \union {AuditEntry(e, catalog, mods, targets) :
                           e \in {d \in matrix.entries : d.status = "executable"}})
      blocked == {e \in matrix.entries : e.group = "acceptance" /\ e.status = "blocked"}
  IN  [valid |-> NoErrors(findings),
       ready |-> blocked = {} /\ findings = {}]

-----------------------------------------------------------------------------
\* An artifact of an entry goes, as a required jar, into a scenario that the
\* entry runs, and the target of that scenario supplies it as `supply` asks.
Backed(e, artifact, catalog, targets, supply(_)) ==
  \E r \in e.scenarios, t \in targets :
    /\ artifact \in DOMAIN r.bindings /\ r.id \in DOMAIN catalog
    /\ LET slot == r.bindings[artifact]
       IN  /\ catalog[r.id].slots[slot] = "required"
           /\ r.id \in t.scenarios
           /\ slot \in DOMAIN t.artifacts => supply(t.artifacts[slot])

\* What the verdicts of the audit promise across four documents.  Valid: each
\* executable entry runs every artifact it names.  Ready: so does each case of
\* the acceptance, with the very jar that production deploys enabled and in
\* the version its own target tests.
VerdictsAreBacked(matrix, catalog, mods, targets) ==
  LET audit == AuditRaidSafetyMatrix(matrix, catalog, mods, targets)
  IN  /\ audit.valid =>
           \A e \in matrix.entries : e.status = "executable" =>
             \A a \in e.artifacts : Backed(e, a, catalog, targets, LAMBDA name : TRUE)
      /\ audit.ready =>
           \A e \in matrix.entries, a \in matrix.required :
             /\ e.status = "executable"
             /\ \E m \in mods, t \in targets :
                  /\ m.id = a /\ m.enabled /\ m.target = t.id /\ m.version = t.testedVersion
                  /\ a \in e.artifacts =>
                       Backed(e, a, catalog, targets, LAMBDA name : name \in m.locator)
===============================================================================
