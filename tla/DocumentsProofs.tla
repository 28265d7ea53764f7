---------------------------- MODULE DocumentsProofs ----------------------------
(***************************************************************************)
(* What the answers of the harness to whole documents are worth, for       *)
(* documents of any size: manifests, directories, matrices, portfolios and *)
(* the output of servers.                                                  *)
(***************************************************************************)
EXTENDS Documents, Integers, FiniteSetTheorems, SequenceTheorems,
        WellFoundedInduction, TLAPS

-----------------------------------------------------------------------------
(* The audit of the production manifest *)

LEMMA EachIsError ==
  ASSUME NEW findings, NEW code, NEW S, Each("error", code, S) \subseteq findings,
         NoErrors(findings)
  PROVE  S = {}
<1> SUFFICES ASSUME NEW s \in S PROVE FALSE
  OBVIOUS
<1>1. Finding("error", code, s) \in findings
  BY DEF Each
<1>2. Finding("error", code, s).severity = "error"
  BY DEF Finding
<1> QED
  BY <1>1, <1>2 DEF NoErrors

\* What is left when auditModsDirectory() finds nothing wrong.
LEMMA CleanDirectory ==
  ASSUME NEW mods, NEW files, NoErrors(AuditModsDirectory(mods, files))
  PROVE  /\ \A m \in Enabled(mods) : \E f \in Matching(m, files) : Matching(m, files) = {f}
         /\ \A m \in mods \ Enabled(mods) : Matching(m, files) = {}
         /\ \A f, g \in files : \A m, n \in mods :
              f \in Matching(m, files) /\ g \in Matching(n, files) /\ f.lower = g.lower
                => m = n /\ f = g
         /\ \A f \in files : \E m \in mods : f \in Matching(m, files)
<1> DEFINE findings == AuditModsDirectory(mods, files)
           none(m) == Matching(m, files) = {}
           many(m) == \E f, g \in Matching(m, files) : f # g
<1>1. Ids({m \in Enabled(mods) : none(m)}) = {}
  BY EachIsError DEF AuditModsDirectory
<1>2. Ids({m \in Enabled(mods) : many(m)}) = {}
  BY EachIsError DEF AuditModsDirectory
<1>3. Ids({m \in mods \ Enabled(mods) : ~none(m)}) = {}
  BY EachIsError DEF AuditModsDirectory
<1>4. {f.lower : f \in {g \in files : \E c, d \in Claims(mods, files, g.lower) : c # d}} = {}
  BY EachIsError DEF AuditModsDirectory
<1>5. {f.name : f \in {g \in files : Claims(mods, files, g.lower) = {}}} = {}
  BY EachIsError DEF AuditModsDirectory
<1>6. \A m \in Enabled(mods) : \E f \in Matching(m, files) : Matching(m, files) = {f}
  <2> SUFFICES ASSUME NEW m \in Enabled(mods)
               PROVE  \E f \in Matching(m, files) : Matching(m, files) = {f}
    OBVIOUS
  <2>1. ~none(m)
    BY <1>1 DEF Ids
  <2>2. ~many(m)
    BY <1>2 DEF Ids
  <2> QED
    BY <2>1, <2>2
<1>7. \A m \in mods \ Enabled(mods) : Matching(m, files) = {}
  BY <1>3 DEF Ids
<1>8. ASSUME NEW f \in files, NEW g \in files, NEW m \in mods, NEW n \in mods,
             f \in Matching(m, files), g \in Matching(n, files), f.lower = g.lower
      PROVE  m = n /\ f = g
  <2>1. <<m, f>> \in Claims(mods, files, f.lower) /\ <<n, g>> \in Claims(mods, files, f.lower)
    BY <1>8 DEF Claims
  <2>2. <<m, f>> = <<n, g>>
    BY <1>4, <2>1
  <2> QED
    BY <2>2
<1>9. ASSUME NEW f \in files PROVE \E m \in mods : f \in Matching(m, files)
  <2>1. PICK c \in Claims(mods, files, f.lower) : TRUE
    BY <1>5
  <2>2. PICK m \in mods, g \in files : g \in Matching(m, files) /\ g.lower = f.lower
    BY <2>1 DEF Claims
  <2> QED
    BY <2>2 DEF Matching
<1> QED
  BY <1>6, <1>7, <1>8, <1>9

\* AuditAgreesWithResolution: a directory that auditModsDirectory() accepts is
\* resolved by resolveProductionArtifacts(), completely and one to one.
THEOREM AuditedDirectoryResolves ==
  \A mods, files : AuditAgreesWithResolution(mods, files)
<1> SUFFICES ASSUME NEW mods, NEW files, NoErrors(AuditModsDirectory(mods, files))
             PROVE  LET artifacts == ResolveProductionArtifacts(mods, files)
                    IN  /\ Resolves(mods, files)
                        /\ {a.jar : a \in artifacts} = files
                        /\ \A a, b \in artifacts : a.jar.lower = b.jar.lower => a.mod = b.mod
  BY DEF AuditAgreesWithResolution
<1> DEFINE artifacts == ResolveProductionArtifacts(mods, files)
           jar(m) == CHOOSE f \in files : f \in Matching(m, files)
<1>1. \A m \in Enabled(mods) : Matching(m, files) = {jar(m)} /\ jar(m) \in files
  BY CleanDirectory DEF Matching
<1>2. Enabled(mods) \subseteq mods
  BY DEF Enabled
<1>3. Resolves(mods, files)
  BY <1>1, <1>2, CleanDirectory DEF Resolves, Mismatched, Collides
<1>4. \A a \in artifacts : \E m \in Enabled(mods) : a.mod = m.id /\ a.jar = jar(m)
  BY DEF ResolveProductionArtifacts
<1>5. ASSUME NEW f \in files PROVE f \in {a.jar : a \in artifacts}
  <2>1. PICK m \in Enabled(mods) : f \in Matching(m, files)
    BY CleanDirectory
  <2>2. [mod |-> m.id, jar |-> jar(m)] \in artifacts /\ f = jar(m)
    BY <1>1, <2>1 DEF ResolveProductionArtifacts
  <2> QED
    BY <2>2
<1>6. {a.jar : a \in artifacts} = files
  BY <1>1, <1>4, <1>5
<1>7. \A a, b \in artifacts : a.jar.lower = b.jar.lower => a.mod = b.mod
  BY <1>1, <1>2, <1>4, CleanDirectory
<1> QED
  BY <1>3, <1>6, <1>7

LEMMA CheckIsError ==
  ASSUME NEW findings, NEW code, NEW about, NEW condition \in BOOLEAN,
         (IF condition THEN {Finding("error", code, about)} ELSE {}) \subseteq findings,
         NoErrors(findings)
  PROVE  ~condition
<1>1. Finding("error", code, about).severity = "error"
  BY DEF Finding
<1> QED
  BY <1>1 DEF NoErrors

\* What is left when the checks of an enabled mod find nothing wrong.
LEMMA CleanMod ==
  ASSUME NEW m, NEW targets, NoErrors(AuditMod(m, targets, TRUE))
  PROVE  /\ m.version \in m.tokens
         /\ m.owner = "first-party" =>
              \E t \in targets : /\ t.id = m.target
                                 /\ t.testedVersion = m.version /\ m.version \in t.tokens
<1> DEFINE own    == m.owner = "first-party"
           target == {t \in targets : t.id = m.target}
           tested == {t \in target : t.testedVersion # None}
<1>1. ~(m.version = None)
  BY CheckIsError DEF AuditMod
<1>2. ~(m.locator = {})
  BY CheckIsError DEF AuditMod
<1>3. ~(m.locator # {} /\ m.version # None /\ m.version \notin m.tokens)
  BY CheckIsError DEF AuditMod
<1>4. ~(own /\ m.target = None)
  BY CheckIsError DEF AuditMod
<1>5. ~(own /\ m.target # None /\ target = {})
  BY CheckIsError DEF AuditMod
<1>6. ~(own /\ target # tested)
  BY CheckIsError DEF AuditMod
<1>7. ~(own /\ \E t \in tested : t.testedVersion \notin t.tokens)
  BY CheckIsError DEF AuditMod
<1>8. ~(own /\ m.version # None /\ \E t \in tested : t.testedVersion # m.version)
  BY CheckIsError DEF AuditMod
<1> QED
  BY <1>1, <1>2, <1>3, <1>4, <1>5, <1>6, <1>7, <1>8

\* LaunchedAsTested: whatever interop() launches is what the portfolio tests,
\* for manifests with one entry per id, also when the directory of jars is
\* another one when it is resolved than it was when it was audited.
THEOREM InteropLaunchesTested ==
  \A manifest, targets, pins, atAudit, atResolve :
    ValidMods(manifest.mods) =>
      LaunchedAsTested(manifest, targets, Interop(manifest, targets, pins, atAudit, atResolve))
<1> SUFFICES ASSUME NEW manifest, NEW targets, NEW pins, NEW atAudit, NEW atResolve,
                    ValidMods(manifest.mods)
             PROVE  LaunchedAsTested(manifest, targets,
                                     Interop(manifest, targets, pins, atAudit, atResolve))
  OBVIOUS
<1> SUFFICES ASSUME Interop(manifest, targets, pins, atAudit, atResolve).error = None
             PROVE  LaunchedAsTested(manifest, targets,
                                     Interop(manifest, targets, pins, atAudit, atResolve))
  BY DEF LaunchedAsTested
<1> DEFINE mods      == manifest.mods
           artifacts == ResolveProductionArtifacts(mods, atResolve)
           inventory == ModInventoryAssertions(Enabled(mods))
           jar(m)    == CHOOSE f \in atResolve : f \in Matching(m, atResolve)
           result    == Interop(manifest, targets, pins, atAudit, atResolve)
<1>1. /\ InteropAudit(manifest, targets, pins, atAudit)
      /\ ~Mismatched(mods, atResolve) /\ ~Collides(mods, atResolve)
      /\ result = [error |-> None, artifacts |-> artifacts, inventory |-> inventory]
  BY DEF Interop, None
<1>2. result.artifacts = artifacts /\ result.inventory = inventory
  BY <1>1
<1>3. ASSUME NEW m \in Enabled(mods) PROVE NoErrors(AuditMod(m, targets, TRUE))
  BY <1>1 DEF InteropAudit, AuditProductionManifest, NoErrors
<1>4. ASSUME NEW m \in Enabled(mods)
      PROVE  jar(m) \in Matching(m, atResolve) /\ jar(m).lower \in m.locator
  <2>1. Matching(m, atResolve) # {}
    BY <1>1 DEF Mismatched
  <2>2. \E f \in atResolve : f \in Matching(m, atResolve)
    BY <2>1 DEF Matching
  <2> QED
    BY <2>2 DEF Matching
<1>5. \A a \in artifacts : \E m \in Enabled(mods) : a = [mod |-> m.id, jar |-> jar(m)]
  BY DEF ResolveProductionArtifacts
<1>6. \A m \in Enabled(mods) : [mod |-> m.id, jar |-> jar(m)] \in artifacts
  BY DEF ResolveProductionArtifacts
<1>7. {a.mod : a \in artifacts} = Ids(Enabled(mods))
  <2>1. ASSUME NEW a \in artifacts PROVE a.mod \in Ids(Enabled(mods))
    BY <1>5 DEF Ids
  <2>2. ASSUME NEW m \in Enabled(mods) PROVE m.id \in {a.mod : a \in artifacts}
    <3> DEFINE made == [mod |-> m.id, jar |-> jar(m)]
    <3>1. made \in artifacts /\ made.mod = m.id
      BY <1>6
    <3> QED
      BY <3>1
  <2> QED
    BY <2>1, <2>2 DEF Ids
<1>8. ASSUME NEW a \in artifacts, NEW b \in artifacts, a.jar.lower = b.jar.lower
      PROVE  a = b
  <2>1. PICK m \in Enabled(mods) : a = [mod |-> m.id, jar |-> jar(m)]
    BY <1>5
  <2>2. PICK n \in Enabled(mods) : b = [mod |-> n.id, jar |-> jar(n)]
    BY <1>5
  <2>3. m = n
    BY <1>1, <1>4, <1>8, <2>1, <2>2 DEF Collides
  <2> QED
    BY <2>1, <2>2, <2>3
<1>9. ASSUME NEW m \in Enabled(mods), NEW a \in artifacts, a.mod = m.id
      PROVE  a.jar.lower \in m.locator
  <2>1. PICK n \in Enabled(mods) : a = [mod |-> n.id, jar |-> jar(n)]
    BY <1>5
  <2>2. n = m
    BY <1>9, <2>1 DEF ValidMods, Enabled
  <2> QED
    BY <1>4, <2>1, <2>2
<1>10. \A m \in Enabled(mods) : [modId |-> m.modId, version |-> m.version] \in inventory
  BY DEF ModInventoryAssertions
<1>11. \A m \in Enabled(mods) :
         /\ m.version \in m.tokens
         /\ m.owner = "first-party" =>
              \E t \in targets : /\ t.id = m.target
                                 /\ t.testedVersion = m.version /\ m.version \in t.tokens
  BY <1>3, CleanMod
<1> HIDE DEF artifacts, inventory, result
<1> QED
  BY <1>2, <1>7, <1>8, <1>9, <1>10, <1>11 DEF LaunchedAsTested, result, mods

-----------------------------------------------------------------------------
(* The audit of the raid-safety matrix *)

\* What is left of an executable entry in which no error is found: each of its
\* artifacts goes into a required slot of a catalogued scenario.
LEMMA CleanEntry ==
  ASSUME NEW e, NEW catalog, NEW mods, NEW targets, NEW a \in e.artifacts,
         NoErrors(AuditEntry(e, catalog, mods, targets))
  PROVE  \E r \in e.scenarios, t \in targets :
           /\ a \in DOMAIN r.bindings /\ r.id \in DOMAIN catalog /\ r.id \in t.scenarios
           /\ r.bindings[a] \in DOMAIN catalog[r.id].slots
           /\ catalog[r.id].slots[r.bindings[a]] = "required"
<1>1. e.artifacts \ BoundArtifacts(e, catalog) = {}
  <2>1. Each("error", "UNBOUND_ENTRY_ARTIFACT", e.artifacts \ BoundArtifacts(e, catalog))
          \subseteq AuditEntry(e, catalog, mods, targets)
    BY DEF AuditEntry
  <2> QED
    BY <2>1, EachIsError
<1>2. PICK r \in e.scenarios : r.id \in DOMAIN catalog /\ a \in DOMAIN r.bindings
  BY <1>1 DEF BoundArtifacts
<1>3. NoErrors(AuditReference(e, r, catalog, mods, targets))
  BY DEF AuditEntry, NoErrors
<1> DEFINE target == TargetsOf(r.id, targets)
           slot   == r.bindings[a]
<1>4. target # {}
  <2>1. Finding("error", "UNCATALOGUED_SCENARIO", e.id).severity = "error"
    BY DEF Finding
  <2> QED
    BY <1>2, <1>3, <2>1 DEF AuditReference, NoErrors
<1>5. NoErrors(AuditBinding(e, catalog[r.id], target, a, slot, mods))
  BY <1>2, <1>3 DEF AuditReference, NoErrors
<1>6. slot \in DOMAIN catalog[r.id].slots /\ catalog[r.id].slots[slot] = "required"
  <2>1. \A code : Finding("error", code, e.id).severity = "error"
    BY DEF Finding
  <2> QED
    BY <1>5, <2>1 DEF AuditBinding, NoErrors
<1> QED
  BY <1>2, <1>4, <1>6 DEF TargetsOf

\* What is left when nothing at all is found about a required artifact.
LEMMA CleanRequired ==
  ASSUME NEW a, NEW mods, NEW targets, AuditRequired(a, mods, targets) = {}
  PROVE  \E m \in mods, t \in targets :
           m.id = a /\ m.enabled /\ m.target = t.id /\ m.version = t.testedVersion
<1> DEFINE mod    == {m \in mods : m.id = a}
           target == {t \in targets : \E m \in mod : t.id = m.target}
<1>1. mod # {}
  BY DEF AuditRequired
<1>2. ~\E m \in mod : ~m.enabled
  BY DEF AuditRequired
<1>3. ~\E m \in mod : m.target = None
  BY DEF AuditRequired
<1>4. ~(target = {} /\ \E m \in mod : m.target # None)
  BY DEF AuditRequired
<1>5. ~\E m \in mod, t \in target : m.version = None \/ m.version # t.testedVersion
  BY DEF AuditRequired
<1> QED
  BY <1>1, <1>2, <1>3, <1>4, <1>5

\* What is left when nothing at all is found in a binding: the target, if it
\* supplies the slot, supplies a file of the artifact's mod.
LEMMA CleanBinding ==
  ASSUME NEW e, NEW scenario, NEW target, NEW a, NEW slot, NEW mods,
         AuditBinding(e, scenario, target, a, slot, mods) = {},
         NEW m \in mods, m.id = a, NEW t \in target, slot \in DOMAIN t.artifacts
  PROVE  t.artifacts[slot] \in m.locator
<1> DEFINE supplied == {u.artifacts[slot] : u \in {v \in target : slot \in DOMAIN v.artifacts}}
<1>1. t.artifacts[slot] \in supplied
  OBVIOUS
<1>2. ~\E n \in mods, name \in supplied : n.id = a /\ name \notin n.locator
  BY <1>1 DEF AuditBinding
<1> QED
  BY <1>1, <1>2

\* VerdictsAreBacked: a valid matrix runs what it names, and a ready one runs
\* it with the jar that production deploys (auditRaidSafetyMatrix()).
THEOREM MatrixVerdictsHold ==
  \A matrix, catalog, mods, targets :
    ValidMatrix(matrix) => VerdictsAreBacked(matrix, catalog, mods, targets)
<1> SUFFICES ASSUME NEW matrix, NEW catalog, NEW mods, NEW targets, ValidMatrix(matrix)
             PROVE  VerdictsAreBacked(matrix, catalog, mods, targets)
  OBVIOUS
<1> DEFINE audit == AuditRaidSafetyMatrix(matrix, catalog, mods, targets)
           executable == {d \in matrix.entries : d.status = "executable"}
           findings == UNION ({AuditRequired(a, mods, targets) : a \in matrix.required}
                        \union {AuditEntry(e, catalog, mods, targets) : e \in executable})
           blocked == {e \in matrix.entries : e.group = "acceptance" /\ e.status = "blocked"}
<1>1. audit.valid = NoErrors(findings) /\ audit.ready = (blocked = {} /\ findings = {})
  BY DEF AuditRaidSafetyMatrix
<1>2. ASSUME NoErrors(findings), NEW e \in executable, NEW a \in e.artifacts
      PROVE  \E r \in e.scenarios, t \in targets :
               /\ a \in DOMAIN r.bindings /\ r.id \in DOMAIN catalog /\ r.id \in t.scenarios
               /\ catalog[r.id].slots[r.bindings[a]] = "required"
  <2>1. NoErrors(AuditEntry(e, catalog, mods, targets))
    <3>1. AuditEntry(e, catalog, mods, targets) \subseteq findings
      OBVIOUS
    <3> HIDE DEF findings
    <3> QED
      BY <1>2, <3>1 DEF NoErrors
  <2> QED
    BY <2>1, CleanEntry
<1>3. ASSUME audit.valid, NEW e \in matrix.entries, e.status = "executable", NEW a \in e.artifacts
      PROVE  Backed(e, a, catalog, targets, LAMBDA name : TRUE)
  BY <1>1, <1>2, <1>3 DEF Backed
<1>4. ASSUME audit.ready, NEW e \in matrix.entries, NEW a \in matrix.required
      PROVE  /\ e.status = "executable"
             /\ \E m \in mods, t \in targets :
                  /\ m.id = a /\ m.enabled /\ m.target = t.id /\ m.version = t.testedVersion
                  /\ a \in e.artifacts =>
                       Backed(e, a, catalog, targets, LAMBDA name : name \in m.locator)
  <2>1. blocked = {} /\ findings = {} /\ NoErrors(findings)
    BY <1>1, <1>4 DEF NoErrors
  <2>2. e.status = "executable"
    BY <2>1 DEF ValidMatrix, ValidEntry
  <2>3. AuditRequired(a, mods, targets) = {}
    BY <2>1
  <2>4. PICK m \in mods, t \in targets :
          m.id = a /\ m.enabled /\ m.target = t.id /\ m.version = t.testedVersion
    BY <2>3, CleanRequired
  <2>5. ASSUME a \in e.artifacts
        PROVE  Backed(e, a, catalog, targets, LAMBDA name : name \in m.locator)
    <3>1. PICK r \in e.scenarios, u \in targets :
            /\ a \in DOMAIN r.bindings /\ r.id \in DOMAIN catalog /\ r.id \in u.scenarios
            /\ catalog[r.id].slots[r.bindings[a]] = "required"
      BY <1>2, <2>1, <2>2, <2>5
    <3>2. AuditEntry(e, catalog, mods, targets) = {}
      <4>1. e \in executable
        BY <2>2
      <4>2. AuditEntry(e, catalog, mods, targets) \subseteq findings
        BY <4>1
      <4> HIDE DEF findings
      <4> QED
        BY <2>1, <4>2
    <3>3. AuditReference(e, r, catalog, mods, targets) = {}
      BY <3>2 DEF AuditEntry
    <3>4. AuditBinding(e, catalog[r.id], TargetsOf(r.id, targets), a, r.bindings[a], mods) = {}
      BY <3>1, <3>3 DEF AuditReference
    <3>5. r.bindings[a] \in DOMAIN u.artifacts => u.artifacts[r.bindings[a]] \in m.locator
      <4>1. u \in TargetsOf(r.id, targets)
        BY <3>1 DEF TargetsOf
      <4> QED
        BY <2>4, <3>4, <4>1, CleanBinding
    <3> QED
      BY <3>1, <3>5 DEF Backed
  <2> QED
    BY <2>2, <2>4, <2>5
<1> QED
  BY <1>3, <1>4 DEF VerdictsAreBacked

-----------------------------------------------------------------------------
(* Loops *)

\* Induction up to N: the least number outside of T would follow one inside.
LEMMA UpTo ==
  ASSUME NEW N \in Nat, NEW T, 0 \in T, \A n \in 1..N : n - 1 \in T => n \in T
  PROVE  0..N \subseteq T
<1> DEFINE R == OpToRel(<, Nat)
           U == (0..N) \ T
<1> SUFFICES ASSUME U # {} PROVE FALSE
  OBVIOUS
<1>1. IsWellFoundedOn(R, Nat)
  BY NatLessThanWellFounded
<1>2. U \subseteq Nat
  OBVIOUS
<1> HIDE DEF R, U
<1>3. PICK n \in U : \A m \in U : <<m, n>> \notin R
  BY <1>1, <1>2, WFMin
<1>4. \A m \in U : ~(m < n)
  BY <1>2, <1>3 DEF R, OpToRel
<1>5. n \in 1..N /\ n - 1 \notin U
  BY <1>4 DEF U
<1> QED
  BY <1>5 DEF U

\* A loop whose n-th turn is step[n] has a state after each turn.
IsLoop(f, N, S, base, step) ==
  /\ f \in [0..N -> S] /\ f[0] = base
  /\ \A n \in 1..N : f[n] = step[n][f[n - 1]]

LEMMA Iterated ==
  ASSUME NEW N \in Nat, NEW S, NEW base \in S, NEW step \in [1..N -> [S -> S]]
  PROVE  \E f : IsLoop(f, N, S, base, step)
<1> DEFINE T == {n \in 0..N : \E f : IsLoop(f, n, S, base, step)}
<1>1. 0 \in T
  <2> DEFINE g == [i \in 0..0 |-> base]
  <2>1. IsLoop(g, 0, S, base, step)
    BY DEF IsLoop
  <2>2. \E f : IsLoop(f, 0, S, base, step)
    BY <2>1
  <2> QED
    BY <2>2
<1>2. ASSUME NEW n \in 1..N, n - 1 \in T PROVE n \in T
  <2>1. PICK h : IsLoop(h, n - 1, S, base, step)
    BY <1>2
  <2> DEFINE g == [i \in 0..n |-> IF i = n THEN step[n][h[n - 1]] ELSE h[i]]
  <2>2. h[n - 1] \in S /\ step[n] \in [S -> S]
    BY <2>1 DEF IsLoop
  <2>3. g \in [0..n -> S] /\ g[0] = base
    BY <2>1, <2>2 DEF IsLoop
  <2>4. ASSUME NEW i \in 1..n PROVE g[i] = step[i][g[i - 1]]
    <3>1. CASE i = n
      <4>1. g[n] = step[n][h[n - 1]] /\ g[n - 1] = h[n - 1]
        BY <1>2
      <4> QED
        BY <3>1, <4>1
    <3>2. CASE i \in 1..(n - 1)
      BY <1>2, <2>1, <3>2 DEF IsLoop
    <3> QED
      BY <1>2, <3>1, <3>2
  <2> HIDE DEF g
  <2>5. IsLoop(g, n, S, base, step)
    BY <2>3, <2>4 DEF IsLoop
  <2> QED
    BY <2>5
<1> HIDE DEF T
<1>3. 0..N \subseteq T
  BY <1>1, <1>2, UpTo, Zenon
<1> QED
  BY <1>3 DEF T

\* What the turns of a loop keep holds after each of them.
LEMMA LoopKeeps ==
  ASSUME NEW N \in Nat, NEW S, NEW f, f[0] \in S, \A n \in 1..N : f[n - 1] \in S => f[n] \in S
  PROVE  \A n \in 0..N : f[n] \in S
<1> DEFINE T == {n \in 0..N : f[n] \in S}
<1>1. 0 \in T
  OBVIOUS
<1>2. \A n \in 1..N : n - 1 \in T => n \in T
  OBVIOUS
<1> HIDE DEF T
<1>3. 0..N \subseteq T
  BY <1>1, <1>2, UpTo, Zenon
<1> QED
  BY <1>3 DEF T

-----------------------------------------------------------------------------
(* The portfolio *)

Build  == [status : {"passed", "failed"}, ran : BOOLEAN]
Result == [builds : Seq(Build), scenarios : Seq({"passed", "failed", "skipped"}),
           status : {"passed", "failed"}]
RunState(javas) ==
  [targets : Seq(Result), homes : [javas -> {"unknown", "ok", "bad"}], aborted : BOOLEAN]
TargetState == [builds : Seq(Build), scenarios : {<<>>}, failed : BOOLEAN]
BuildState(javas) == RunState(javas) \X TargetState

\* One command: the Java that it ran with was inspected, and it succeeded, or
\* the build has failed.
AfterCommand(javas, at, command, next) ==
  /\ next[1].targets = at[1].targets
  /\ \A j \in javas : at[1].homes[j] = "ok" => next[1].homes[j] = "ok"
  /\ \A j \in javas : next[1].homes[j] = "ok" =>
       at[1].homes[j] = "ok" \/ (command.java = j /\ command.inspection)
  /\ \E ran \in BOOLEAN :
       /\ ran <=> command.java = NoJava \/ next[1].homes[command.java] = "ok"
       /\ next[2].failed <=> ~(ran /\ command.succeeds)
       /\ next[2].builds = Append(at[2].builds,
            [status |-> IF next[2].failed THEN "failed" ELSE "passed", ran |-> ran])

LEMMA OneCommand ==
  ASSUME NEW javas, NoJava \notin javas, NEW at \in BuildState(javas),
         NEW command \in Commands(javas), ~at[1].aborted, ~at[2].failed
  PROVE  /\ RunBuild(at, command) \in BuildState(javas)
         /\ AfterCommand(javas, at, command, RunBuild(at, command))
<1>0. PICK next, ran : next = RunBuild(at, command)
                      /\ ran = Ran(Inspected(at[1].homes, command), command)
  OBVIOUS
<1> DEFINE homes  == Inspected(at[1].homes, command)
           status == BuildStatus(homes, command)
           run    == [at[1] EXCEPT !.homes = homes, !.aborted = ~command.logged]
           built  == [at[2] EXCEPT
                        !.builds = Append(@, [status |-> status, ran |-> ran]),
                        !.failed = (status = "failed")]
<1>1. next = <<run, built>>
  BY <1>0 DEF RunBuild
<1>2. /\ at[1] \in RunState(javas) /\ at[2] \in TargetState
      /\ command.java \in javas \union {NoJava} /\ command.inspection \in BOOLEAN
      /\ command.succeeds \in BOOLEAN /\ command.logged \in BOOLEAN
  BY DEF BuildState, Commands
<1>3. /\ homes \in [javas -> {"unknown", "ok", "bad"}]
      /\ \A j \in javas : at[1].homes[j] = "ok" => homes[j] = "ok"
      /\ \A j \in javas : homes[j] = "ok" =>
           at[1].homes[j] = "ok" \/ (command.java = j /\ command.inspection)
  BY <1>2 DEF Inspected, RunState
<1>4. ran \in BOOLEAN /\ (ran <=> command.java = NoJava \/ homes[command.java] = "ok")
  BY <1>0 DEF Ran
<1>5. status = IF ran /\ command.succeeds THEN "passed" ELSE "failed"
  BY <1>0 DEF BuildStatus
<1> HIDE DEF homes, status
<1>6. /\ run \in RunState(javas) /\ run.targets = at[1].targets /\ run.homes = homes
  BY <1>2, <1>3 DEF RunState
<1> DEFINE told == [status |-> status, ran |-> ran]
<1>7. told \in Build
  BY <1>4, <1>5 DEF Build
<1> DEFINE failed == status = "failed"
<1>8. /\ built \in TargetState /\ built.failed = failed
      /\ built.builds = Append(at[2].builds, told)
  <2> DEFINE builds == Append(at[2].builds, told)
  <2>1. at[2] \in TargetState /\ failed \in BOOLEAN
    BY <1>2
  <2>2. builds \in Seq(Build)
    BY <1>7, <2>1 DEF TargetState
  <2>3. built = [at[2] EXCEPT !.builds = builds, !.failed = failed]
    OBVIOUS
  <2> HIDE DEF built, failed, builds
  <2>4. built \in TargetState /\ built.failed = failed /\ built.builds = builds
    BY <2>1, <2>2, <2>3 DEF TargetState
  <2> QED
    BY <2>4 DEF builds
<1>9. /\ built.failed <=> ~(ran /\ command.succeeds)
      /\ status = IF built.failed THEN "failed" ELSE "passed"
  <2>1. failed <=> ~(ran /\ command.succeeds)
    BY <1>4, <1>5
  <2>2. status = IF failed THEN "failed" ELSE "passed"
    BY <1>5
  <2> HIDE DEF built, failed
  <2> QED
    BY <1>8, <2>1, <2>2
<1> HIDE DEF run, built
<1>10. next \in BuildState(javas) /\ next[1] = run /\ next[2] = built
  BY <1>1, <1>6, <1>8 DEF BuildState
<1>11. AfterCommand(javas, at, command, next)
  BY <1>3, <1>4, <1>6, <1>8, <1>9, <1>10 DEF AfterCommand
<1> QED
  BY <1>0, <1>10, <1>11

LEMMA CommandKeepsType ==
  ASSUME NEW javas, NoJava \notin javas, NEW at \in BuildState(javas),
         NEW command \in Commands(javas)
  PROVE  RunBuild(at, command) \in BuildState(javas)
<1>1. CASE at[1].aborted \/ at[2].failed
  BY <1>1 DEF RunBuild
<1>2. CASE ~at[1].aborted /\ ~at[2].failed
  BY <1>2, OneCommand
<1> QED
  BY <1>1, <1>2

LEMMA BuildingRuns ==
  ASSUME NEW javas, NoJava \notin javas, NEW start \in BuildState(javas),
         NEW build \in Seq(Commands(javas)), NEW at, at = Building(start, build)
  PROVE  /\ at[0] = start
         /\ \A b \in 1..Len(build) : at[b] = RunBuild(at[b - 1], build[b])
         /\ \A b \in 0..Len(build) : at[b] \in BuildState(javas)
<1> DEFINE N == Len(build)
           S == BuildState(javas)
           Loop(f) == f = [b \in 0..N |-> IF b = 0 THEN start ELSE RunBuild(f[b - 1], build[b])]
           step == [b \in 1..N |-> [x \in S |-> RunBuild(x, build[b])]]
<1>1. N \in Nat /\ start \in S /\ \A b \in 1..N : build[b] \in Commands(javas)
  OBVIOUS
<1>2. \A x \in S, b \in 1..N : RunBuild(x, build[b]) \in S /\ step[b][x] = RunBuild(x, build[b])
  BY <1>1, CommandKeepsType
<1>3. N \in Nat /\ start \in S /\ step \in [1..N -> [S -> S]]
  BY <1>1, <1>2
<1> HIDE DEF N, S, step
<1>4. PICK f : IsLoop(f, N, S, start, step)
  BY <1>3, Iterated
<1>5. Loop(f)
  <2>1. ASSUME NEW b \in 0..N
        PROVE  f[b] = IF b = 0 THEN start ELSE RunBuild(f[b - 1], build[b])
    <3>1. b # 0 => b \in 1..N /\ b - 1 \in 0..N
      BY <1>1
    <3> QED
      BY <1>2, <1>4, <3>1 DEF IsLoop
  <2> QED
    BY <1>4, <2>1 DEF IsLoop
<1>6. Loop(at)
  BY <1>5, Zenon DEF Building, N
<1>7. at[0] = start /\ \A b \in 1..N : at[b] = RunBuild(at[b - 1], build[b])
  BY <1>1, <1>6
<1> HIDE DEF Loop
<1>8. at[0] \in S /\ \A b \in 1..N : at[b - 1] \in S => at[b] \in S
  BY <1>2, <1>7 DEF S
<1>9. \A b \in 0..N : at[b] \in S
  BY <1>1, <1>8, LoopKeeps, Zenon
<1> QED
  BY <1>7, <1>9 DEF N, S

\* After n commands: all of them ran and succeeded, with the Java each asks
\* for, or the last result tells of a failure, the first one.
Succeeded(result, command, homes) ==
  /\ result.status = "passed" /\ result.ran /\ command.succeeds
  /\ command.java # NoJava => homes[command.java] = "ok"

FailedLast(builds) ==
  /\ builds # <<>> /\ builds[Len(builds)].status = "failed"
  /\ \A b \in 1..(Len(builds) - 1) : builds[b].status = "passed"

Inspects(build, n, j) == \E b \in 1..n : build[b].java = j /\ build[b].inspection

AfterCommands(javas, start, build, n, s) ==
  /\ s[1].targets = start[1].targets
  /\ \A j \in javas : s[1].homes[j] = "ok" => start[1].homes[j] = "ok" \/ Inspects(build, n, j)
  /\ start[1].aborted \/ start[2].failed => s = start
  /\ ~s[1].aborted /\ ~start[2].failed =>
       IF s[2].failed
         THEN FailedLast(s[2].builds)
              /\ \E b \in 1..n : build[b].java # NoJava \/ ~build[b].succeeds
         ELSE /\ Len(s[2].builds) = n
              /\ \A b \in 1..n : Succeeded(s[2].builds[b], build[b], s[1].homes)

LEMMA AllCommands ==
  ASSUME NEW javas, NoJava \notin javas, NEW start \in BuildState(javas),
         NEW build \in Seq(Commands(javas)), NEW at, at = Building(start, build),
         ~start[2].failed => start[2].builds = <<>>
  PROVE  \A n \in 0..Len(build) : AfterCommands(javas, start, build, n, at[n])
<1>1. /\ at[0] = start
      /\ \A b \in 1..Len(build) : at[b] = RunBuild(at[b - 1], build[b])
      /\ \A b \in 0..Len(build) : at[b] \in BuildState(javas)
  BY BuildingRuns
<1>2. Len(build) \in Nat /\ \A b \in 1..Len(build) : build[b] \in Commands(javas)
  OBVIOUS
<1> DEFINE T == {n \in 0..Len(build) : AfterCommands(javas, start, build, n, at[n])}
<1>3. 0 \in T
  BY <1>1, <1>2 DEF AfterCommands
<1>4. ASSUME NEW n \in 1..Len(build), n - 1 \in T PROVE n \in T
  <2> DEFINE s == at[n - 1]
             t == at[n]
             c == build[n]
  <2>1. /\ s \in BuildState(javas) /\ t \in BuildState(javas) /\ t = RunBuild(s, c)
        /\ c \in Commands(javas) /\ AfterCommands(javas, start, build, n - 1, s)
    BY <1>1, <1>2, <1>4
  <2>2. \A j \in javas : Inspects(build, n - 1, j) => Inspects(build, n, j)
    BY <1>2 DEF Inspects
  <2> HIDE DEF s, t, c
  <2>3. ASSUME s[1].aborted \/ s[2].failed
        PROVE  AfterCommands(javas, start, build, n, t)
    <3>1. t = s
      BY <2>1, <2>3 DEF RunBuild
    <3>2. 1..(n - 1) \subseteq 1..n
      BY <1>2
    <3> QED
      BY <2>1, <2>2, <2>3, <3>1, <3>2 DEF AfterCommands
  <2>4. ASSUME ~s[1].aborted, ~s[2].failed
        PROVE  AfterCommands(javas, start, build, n, t)
    <3>0. AfterCommand(javas, s, c, t)
      BY <2>1, <2>4, OneCommand
    <3>1. /\ t[1].targets = s[1].targets
          /\ \A j \in javas : s[1].homes[j] = "ok" => t[1].homes[j] = "ok"
          /\ \A j \in javas : t[1].homes[j] = "ok" =>
               s[1].homes[j] = "ok" \/ (c.java = j /\ c.inspection)
      BY <3>0 DEF AfterCommand
    <3>2. ~start[1].aborted /\ ~start[2].failed
      BY <2>1, <2>4 DEF AfterCommands
    <3>3. /\ s[2].builds \in Seq(Build) /\ Len(s[2].builds) = n - 1
          /\ \A b \in 1..(n - 1) : Succeeded(s[2].builds[b], build[b], s[1].homes)
      BY <2>1, <2>4, <3>2 DEF AfterCommands, BuildState, TargetState
    <3>4. PICK ran \in BOOLEAN :
            /\ ran <=> c.java = NoJava \/ t[1].homes[c.java] = "ok"
            /\ t[2].failed <=> ~(ran /\ c.succeeds)
            /\ t[2].builds = Append(s[2].builds,
                 [status |-> IF t[2].failed THEN "failed" ELSE "passed", ran |-> ran])
      BY <3>0 DEF AfterCommand
    <3>5. /\ Len(t[2].builds) = n
          /\ t[2].builds[n].status = (IF t[2].failed THEN "failed" ELSE "passed")
          /\ t[2].builds[n].ran = ran
          /\ \A b \in 1..(n - 1) : t[2].builds[b] = s[2].builds[b]
      BY <3>3, <3>4
    <3>6. \A j \in javas : t[1].homes[j] = "ok" => start[1].homes[j] = "ok" \/ Inspects(build, n, j)
      <4>1. c.java \in javas /\ c.inspection => Inspects(build, n, c.java)
        BY <1>2 DEF Inspects, c
      <4> QED
        BY <2>1, <2>2, <3>1, <4>1 DEF AfterCommands
    <3>7. CASE t[2].failed
      <4>1. FailedLast(t[2].builds)
        <5>1. t[2].builds[n].status = "failed"
          BY <3>5, <3>7
        <5>2. Len(t[2].builds) # Len(<<>>)
          BY <1>2, <3>5
        <5>3. ASSUME NEW b \in 1..(n - 1) PROVE t[2].builds[b].status = "passed"
          <6>1. Succeeded(s[2].builds[b], build[b], s[1].homes) /\ t[2].builds[b] = s[2].builds[b]
            BY <3>3, <3>5
          <6> QED
            BY <6>1 DEF Succeeded
        <5> QED
          BY <3>5, <5>1, <5>2, <5>3 DEF FailedLast
      <4>2. c.java # NoJava \/ ~c.succeeds
        BY <3>4, <3>7
      <4>3. \E b \in 1..n : build[b].java # NoJava \/ ~build[b].succeeds
        BY <1>2, <4>2 DEF c
      <4> QED
        BY <2>1, <3>1, <3>2, <3>6, <3>7, <4>1, <4>3 DEF AfterCommands
    <3>8. CASE ~t[2].failed
      <4>1. \A b \in 1..(n - 1) : build[b].java \in javas \union {NoJava}
        BY <1>2 DEF Commands
      <4>2. \A b \in 1..(n - 1) : Succeeded(t[2].builds[b], build[b], t[1].homes)
        <5>1. ASSUME NEW b \in 1..(n - 1) PROVE Succeeded(t[2].builds[b], build[b], t[1].homes)
          <6>1. Succeeded(s[2].builds[b], build[b], s[1].homes) /\ t[2].builds[b] = s[2].builds[b]
            BY <3>3, <3>5
          <6> QED
            BY <3>1, <4>1, <6>1 DEF Succeeded
        <5> QED
          BY <5>1
      <4>3. Succeeded(t[2].builds[n], c, t[1].homes)
        BY <3>4, <3>5, <3>8 DEF Succeeded
      <4>4. \A b \in 1..n : Succeeded(t[2].builds[b], build[b], t[1].homes)
        BY <1>2, <4>2, <4>3 DEF c
      <4> QED
        BY <2>1, <3>1, <3>2, <3>5, <3>6, <3>8, <4>4 DEF AfterCommands
    <3> QED
      BY <3>7, <3>8
  <2>5. AfterCommands(javas, start, build, n, t)
    BY <2>3, <2>4
  <2> QED
    BY <1>2, <2>5 DEF t
<1> HIDE DEF T
<1>5. 0..Len(build) \subseteq T
  BY <1>2, <1>3, <1>4, UpTo, Zenon
<1> QED
  BY <1>5 DEF T

\* What the report tells of a target.
Told(result, target, homes) ==
  /\ result \in Result
  /\ DOMAIN result.scenarios = DOMAIN target.scenarios
  /\ \A b \in 1..(Len(result.builds) - 1) : result.builds[b].status = "passed"
  /\ "failed" \in Statuses(result.builds) <=>
       \A s \in DOMAIN result.scenarios : result.scenarios[s] = "skipped"
  /\ (target.found /\ \A b \in DOMAIN target.build :
         target.build[b].java = NoJava /\ target.build[b].succeeds)
       => "skipped" \notin ToSet(result.scenarios)
  /\ result.status = "passed" =>
       /\ target.found
       /\ \A b \in DOMAIN target.build : Succeeded(result.builds[b], target.build[b], homes)
       /\ \A s \in DOMAIN target.scenarios : target.scenarios[s] = "passed"

AfterTarget(javas, run, target, next) ==
  /\ \A j \in javas : next.homes[j] = "ok" =>
       run.homes[j] = "ok" \/ Inspects(target.build, Len(target.build), j)
  /\ run.aborted => next.aborted
  /\ ~next.aborted => \E result :
       next.targets = Append(run.targets, result) /\ Told(result, target, next.homes)

LEMMA OneTarget ==
  ASSUME NEW javas, NoJava \notin javas, NEW run \in RunState(javas),
         NEW target \in Targets(javas), target.scenarios # <<>>
  PROVE  /\ RunTarget(run, target) \in RunState(javas)
         /\ AfterTarget(javas, run, target, RunTarget(run, target))
<1> DEFINE checked == IF target.found THEN EmptyTarget
                      ELSE [EmptyTarget EXCEPT !.failed = TRUE,
                              !.builds = <<[status |-> "failed", ran |-> FALSE]>>]
           start  == <<run, checked>>
           built  == Building(start, target.build)[Len(target.build)]
           tried  == [s \in DOMAIN target.scenarios |->
                        ScenarioStatus(built[2].failed, target.scenarios[s])]
           failed == built[2].failed \/ \E s \in DOMAIN tried : tried[s] # "passed"
           result == [builds |-> built[2].builds, scenarios |-> tried,
                      status |-> IF failed THEN "failed" ELSE "passed"]
<1>1. RunTarget(run, target) =
        IF ~target.writable \/ built[1].aborted THEN [run EXCEPT !.aborted = TRUE]
        ELSE [built[1] EXCEPT !.targets = Append(@, result)]
  BY DEF RunTarget
<1>2. /\ target.build \in Seq(Commands(javas)) /\ Len(target.build) \in Nat
      /\ target.scenarios \in Seq({"passed", "failed", "throws"})
      /\ target.found \in BOOLEAN /\ target.writable \in BOOLEAN
  BY DEF Targets
<1>3. checked \in TargetState /\ (checked.failed <=> ~target.found)
      /\ IF target.found THEN checked.builds = <<>>
         ELSE checked.builds = <<[status |-> "failed", ran |-> FALSE]>>
  <2>1. CASE target.found
    BY <2>1 DEF TargetState, EmptyTarget
  <2>2. CASE ~target.found
    <3>1. checked = [builds |-> <<[status |-> "failed", ran |-> FALSE]>>, scenarios |-> <<>>,
                     failed |-> TRUE]
      BY <2>2 DEF EmptyTarget
    <3>2. <<[status |-> "failed", ran |-> FALSE]>> \in Seq(Build)
      BY DEF Build
    <3> QED
      BY <2>2, <3>1, <3>2 DEF TargetState
  <2> QED
    BY <1>2, <2>1, <2>2
<1> HIDE DEF checked
<1>4. start \in BuildState(javas) /\ start[1] = run /\ start[2] = checked
  BY <1>3 DEF BuildState
<1> HIDE DEF start
<1>5. /\ built \in BuildState(javas)
      /\ AfterCommands(javas, start, target.build, Len(target.build), built)
  <2>1. PICK at : at = Building(start, target.build)
    OBVIOUS
  <2>2. Len(target.build) \in 0..Len(target.build)
    BY <1>2
  <2> QED
    BY <1>2, <1>3, <1>4, <2>1, <2>2, BuildingRuns, AllCommands
<1> HIDE DEF built
<1>6. built[1] \in RunState(javas) /\ built[2] \in TargetState
  BY <1>5 DEF BuildState
<1>7. CASE ~target.writable \/ built[1].aborted
  BY <1>1, <1>7 DEF AfterTarget, RunState
<1>8. CASE target.writable /\ ~built[1].aborted
  <2> DEFINE next == RunTarget(run, target)
  <2>1. result \in Result
    <3>1. \A s \in DOMAIN target.scenarios :
            ScenarioStatus(built[2].failed, target.scenarios[s]) \in {"passed", "failed", "skipped"}
      BY <1>2 DEF ScenarioStatus
    <3>2. tried \in Seq({"passed", "failed", "skipped"})
      BY <1>2, <3>1
    <3>3. built[2].builds \in Seq(Build)
      BY <1>6 DEF TargetState
    <3> HIDE DEF tried, failed
    <3> QED
      BY <3>2, <3>3 DEF Result
  <2>2. /\ next \in RunState(javas) /\ next.homes = built[1].homes
        /\ next.targets = Append(built[1].targets, result) /\ next.aborted = built[1].aborted
    <3>1. built[1].targets \in Seq(Result)
      BY <1>6 DEF RunState
    <3> DEFINE targets == Append(built[1].targets, result)
    <3>2. targets \in Seq(Result)
      BY <2>1, <3>1
    <3>3. next = [built[1] EXCEPT !.targets = targets]
      BY <1>1, <1>8
    <3> HIDE DEF targets, next
    <3>4. /\ next \in RunState(javas) /\ next.homes = built[1].homes
          /\ next.targets = targets /\ next.aborted = built[1].aborted
      BY <1>6, <3>2, <3>3 DEF RunState
    <3> QED
      BY <3>4 DEF targets
  <2>3. /\ built[1].targets = run.targets /\ ~run.aborted
        /\ \A j \in javas : built[1].homes[j] = "ok" =>
             run.homes[j] = "ok" \/ Inspects(target.build, Len(target.build), j)
    BY <1>4, <1>5, <1>8 DEF AfterCommands
  <2>4. Told(result, target, built[1].homes)
    <3> DEFINE bs == built[2].builds
               n  == Len(target.build)
    <3>1. /\ result.builds = bs /\ result.scenarios = tried
          /\ result.status = (IF failed THEN "failed" ELSE "passed")
          /\ bs \in Seq(Build)
      BY <1>6 DEF TargetState
    <3>2. /\ DOMAIN tried = DOMAIN target.scenarios
          /\ \A s \in DOMAIN tried :
               tried[s] = ScenarioStatus(built[2].failed, target.scenarios[s])
      OBVIOUS
    <3>3. /\ 1 \in DOMAIN target.scenarios
          /\ \A s \in DOMAIN target.scenarios : target.scenarios[s] \in {"passed", "failed", "throws"}
      BY <1>2
    <3>4. Statuses(bs) = {bs[i].status : i \in 1..Len(bs)}
      BY <3>1 DEF Statuses
    <3>5. ToSet(tried) = {tried[s] : s \in DOMAIN tried}
      BY DEF ToSet
    <3>6. built[2].failed \in BOOLEAN /\ (failed <=> built[2].failed \/ \E s \in DOMAIN tried : tried[s] # "passed")
      BY <1>6 DEF TargetState
    <3> HIDE DEF result, tried, failed, bs
    <3>7. ASSUME built[2].failed
          PROVE  /\ \A s \in DOMAIN tried : tried[s] = "skipped"
                 /\ result.status = "failed"
      BY <3>1, <3>2, <3>6, <3>7 DEF ScenarioStatus
    <3>8. CASE ~target.found
      <4>1. bs = <<[status |-> "failed", ran |-> FALSE]>> /\ built[2].failed
        BY <1>3, <1>4, <1>5, <3>8 DEF AfterCommands, bs
      <4>2. Len(bs) = 1 /\ bs[1].status = "failed"
        BY <4>1
      <4>3. "failed" \in Statuses(bs)
        BY <3>4, <4>2
      <4> QED
        BY <2>1, <3>1, <3>2, <3>7, <3>8, <4>1, <4>2, <4>3 DEF Told
    <3>9. ASSUME target.found
          PROVE  IF built[2].failed
                   THEN FailedLast(bs) /\ \E b \in 1..n : target.build[b].java # NoJava
                                                         \/ ~target.build[b].succeeds
                   ELSE /\ Len(bs) = n
                        /\ \A b \in 1..n : Succeeded(bs[b], target.build[b], built[1].homes)
      BY <1>3, <1>4, <1>5, <1>8, <3>9 DEF AfterCommands, bs
    <3>10. CASE target.found /\ built[2].failed
      <4>1. /\ FailedLast(bs)
            /\ \E b \in 1..n : target.build[b].java # NoJava \/ ~target.build[b].succeeds
        BY <3>9, <3>10
      <4>2. Len(bs) \in 1..Len(bs) /\ bs[Len(bs)].status = "failed"
        BY <3>1, <4>1 DEF FailedLast
      <4>3. "failed" \in Statuses(bs)
        BY <3>4, <4>2
      <4>4. \A b \in 1..(Len(bs) - 1) : bs[b].status = "passed"
        BY <4>1 DEF FailedLast
      <4>5. DOMAIN target.build = 1..n
        BY <1>2
      <4> QED
        BY <2>1, <3>1, <3>2, <3>7, <3>10, <4>1, <4>3, <4>4, <4>5 DEF Told
    <3>11. CASE target.found /\ ~built[2].failed
      <4>1. /\ Len(bs) = n
            /\ \A b \in 1..n : Succeeded(bs[b], target.build[b], built[1].homes)
        BY <3>9, <3>11
      <4>2. \A b \in 1..n : bs[b].status = "passed"
        BY <4>1 DEF Succeeded
      <4>3. "failed" \notin Statuses(bs)
        BY <3>4, <4>1, <4>2
      <4>4. \A s \in DOMAIN tried : tried[s] # "skipped"
        BY <3>2, <3>3, <3>11 DEF ScenarioStatus
      <4>5. \A b \in 1..(n - 1) : bs[b].status = "passed"
        BY <1>2, <4>2
      <4>6. DOMAIN target.build = 1..n
        BY <1>2
      <4>7. ASSUME result.status = "passed"
            PROVE  \A s \in DOMAIN target.scenarios : target.scenarios[s] = "passed"
        <5>1. \A s \in DOMAIN tried : tried[s] = "passed"
          BY <3>1, <3>6, <4>7
        <5> QED
          BY <3>2, <3>3, <3>11, <5>1 DEF ScenarioStatus
      <4>8. "skipped" \notin ToSet(tried)
        BY <3>5, <4>4
      <4>9. "failed" \in Statuses(bs) <=> \A s \in DOMAIN tried : tried[s] = "skipped"
        BY <3>2, <3>3, <4>3, <4>4
      <4> QED
        BY <2>1, <3>1, <3>2, <3>11, <4>1, <4>5, <4>6, <4>7, <4>8, <4>9 DEF Told
    <3> QED
      BY <3>8, <3>10, <3>11, <1>2, <3>6
  <2> HIDE DEF next, result
  <2> QED
    BY <2>2, <2>3, <2>4 DEF AfterTarget, next
<1> QED
  BY <1>2, <1>7, <1>8

\* After n targets: what was found of each Java is the work of a command that
\* asked for it, and what the report tells of a target was true in its turn.
InspectedBy(targets, n, j) ==
  \E u \in 1..n : Inspects(targets[u].build, Len(targets[u].build), j)

ToldInTurn(javas, targets, t, result) ==
  \E homes : /\ Told(result, targets[t], homes)
             /\ \A j \in javas : homes[j] = "ok" => InspectedBy(targets, t, j)

AfterTargets(javas, targets, n, s) ==
  /\ \A j \in javas : s.homes[j] = "ok" => InspectedBy(targets, n, j)
  /\ ~s.aborted => /\ Len(s.targets) = n
                   /\ \A t \in 1..n : ToldInTurn(javas, targets, t, s.targets[t])

LEMMA RunningRuns ==
  ASSUME NEW targets, NEW javas, ValidCatalog(targets, javas), NEW at, at = Running(targets, javas)
  PROVE  /\ at[0] = EmptyRun(javas)
         /\ \A t \in 1..Len(targets) : at[t] = RunTarget(at[t - 1], targets[t])
         /\ \A t \in 0..Len(targets) : at[t] \in RunState(javas)
<1> DEFINE N == Len(targets)
           S == RunState(javas)
           start == EmptyRun(javas)
           Loop(f) == f = [t \in 0..N |-> IF t = 0 THEN start ELSE RunTarget(f[t - 1], targets[t])]
           step == [t \in 1..N |-> [x \in S |-> RunTarget(x, targets[t])]]
<1>1. /\ N \in Nat
      /\ \A t \in 1..N : targets[t] \in Targets(javas) /\ targets[t].scenarios # <<>>
      /\ NoJava \notin javas
  BY DEF ValidCatalog
<1>2. start \in S
  <2>1. <<>> \in Seq(Result)
    OBVIOUS
  <2> QED
    BY <2>1 DEF EmptyRun, RunState
<1>3. \A x \in S, t \in 1..N : RunTarget(x, targets[t]) \in S /\ step[t][x] = RunTarget(x, targets[t])
  BY <1>1, OneTarget
<1>4. N \in Nat /\ start \in S /\ step \in [1..N -> [S -> S]]
  BY <1>1, <1>2, <1>3
<1> HIDE DEF N, S, step, start
<1>5. PICK f : IsLoop(f, N, S, start, step)
  BY <1>4, Iterated
<1>6. Loop(f)
  <2>1. ASSUME NEW t \in 0..N
        PROVE  f[t] = IF t = 0 THEN start ELSE RunTarget(f[t - 1], targets[t])
    <3>1. t # 0 => t \in 1..N /\ t - 1 \in 0..N
      BY <1>1
    <3> QED
      BY <1>3, <1>5, <3>1 DEF IsLoop
  <2> QED
    BY <1>5, <2>1 DEF IsLoop
<1>7. Loop(at)
  BY <1>6, Zenon DEF Running, N, start
<1>8. at[0] = start /\ \A t \in 1..N : at[t] = RunTarget(at[t - 1], targets[t])
  BY <1>1, <1>7
<1> HIDE DEF Loop
<1>9. at[0] \in S /\ \A t \in 1..N : at[t - 1] \in S => at[t] \in S
  BY <1>2, <1>3, <1>8
<1>10. \A t \in 0..N : at[t] \in S
  BY <1>1, <1>9, LoopKeeps, Zenon
<1> QED
  BY <1>8, <1>10 DEF N, S, start

LEMMA AllTargets ==
  ASSUME NEW targets, NEW javas, ValidCatalog(targets, javas), NEW at, at = Running(targets, javas)
  PROVE  \A n \in 0..Len(targets) : AfterTargets(javas, targets, n, at[n])
<1>1. /\ at[0] = EmptyRun(javas)
      /\ \A t \in 1..Len(targets) : at[t] = RunTarget(at[t - 1], targets[t])
      /\ \A t \in 0..Len(targets) : at[t] \in RunState(javas)
  BY RunningRuns
<1>2. /\ Len(targets) \in Nat /\ NoJava \notin javas
      /\ \A t \in 1..Len(targets) : targets[t] \in Targets(javas) /\ targets[t].scenarios # <<>>
  BY DEF ValidCatalog
<1> DEFINE T == {n \in 0..Len(targets) : AfterTargets(javas, targets, n, at[n])}
<1>3. 0 \in T
  BY <1>1, <1>2 DEF AfterTargets, EmptyRun
<1>4. ASSUME NEW n \in 1..Len(targets), n - 1 \in T PROVE n \in T
  <2> DEFINE s == at[n - 1]
             t == at[n]
             target == targets[n]
  <2>1. /\ s \in RunState(javas) /\ t \in RunState(javas) /\ t = RunTarget(s, target)
        /\ target \in Targets(javas) /\ target.scenarios # <<>>
        /\ AfterTargets(javas, targets, n - 1, s)
    BY <1>1, <1>2, <1>4
  <2>2. \A j \in javas : /\ InspectedBy(targets, n - 1, j) => InspectedBy(targets, n, j)
                         /\ Inspects(target.build, Len(target.build), j) => InspectedBy(targets, n, j)
    BY <1>2 DEF InspectedBy
  <2> HIDE DEF s, t
  <2>3. AfterTarget(javas, s, target, t)
    BY <1>2, <2>1, OneTarget
  <2>4. \A j \in javas : t.homes[j] = "ok" => InspectedBy(targets, n, j)
    BY <2>1, <2>2, <2>3 DEF AfterTarget, AfterTargets
  <2>5. ASSUME ~t.aborted
        PROVE  /\ Len(t.targets) = n
               /\ \A u \in 1..n : ToldInTurn(javas, targets, u, t.targets[u])
    <3>1. ~s.aborted /\ s \in RunState(javas)
      BY <2>1, <2>3, <2>5 DEF AfterTarget
    <3>2. /\ s.targets \in Seq(Result) /\ Len(s.targets) = n - 1
          /\ \A u \in 1..(n - 1) : ToldInTurn(javas, targets, u, s.targets[u])
      BY <2>1, <3>1 DEF AfterTargets, RunState
    <3>3. PICK result : t.targets = Append(s.targets, result) /\ Told(result, target, t.homes)
      BY <2>3, <2>5 DEF AfterTarget
    <3>4. /\ Len(t.targets) = n /\ t.targets[n] = result
          /\ \A u \in 1..(n - 1) : t.targets[u] = s.targets[u]
      BY <1>2, <3>2, <3>3
    <3>5. ToldInTurn(javas, targets, n, result)
      BY <2>4, <3>3 DEF ToldInTurn
    <3>6. \A u \in 1..n : ToldInTurn(javas, targets, u, t.targets[u])
      BY <1>2, <3>2, <3>4, <3>5
    <3> QED
      BY <3>4, <3>6
  <2> QED
    BY <1>2, <2>4, <2>5 DEF AfterTargets, t
<1> HIDE DEF T
<1>5. 0..Len(targets) \subseteq T
  BY <1>2, <1>3, <1>4, UpTo, Zenon
<1> QED
  BY <1>5 DEF T

\* Of any catalog: exit code 0 means that every command of every target ran,
\* with a Java that an inspection found to be the one required, and succeeded,
\* and that every scenario ran and passed; and whatever went wrong, a report
\* that is written tells of every target and scenario (runPortfolio() of
\* src/portfolio.ts).
THEOREM PortfolioIsEarned ==
  ASSUME NEW targets, NEW javas, ValidCatalog(targets, javas)
  PROVE  ExitZeroIsEarned(targets, javas) /\ ReportIsComplete(targets, javas)
<1> DEFINE N == Len(targets)
           run == Running(targets, javas)[N]
           report == RunPortfolio(targets, javas)
<1>1. /\ N \in Nat /\ DOMAIN targets = 1..N
      /\ \A t \in 1..N : targets[t] \in Targets(javas)
  BY DEF ValidCatalog
<1>2. AfterTargets(javas, targets, N, run) /\ run \in RunState(javas)
  <2>1. PICK at : at = Running(targets, javas)
    OBVIOUS
  <2>2. N \in 0..N
    BY <1>1
  <2> QED
    BY <2>1, <2>2, AllTargets, RunningRuns
<1>3. /\ report.aborted = run.aborted /\ report.targets = run.targets
      /\ report.status = IF \A t \in DOMAIN run.targets : run.targets[t].status = "passed"
                           THEN "passed" ELSE "failed"
  BY DEF RunPortfolio
<1> HIDE DEF run, report
<1>4. ASSUME ~report.aborted
      PROVE  /\ Len(report.targets) = N /\ DOMAIN report.targets = 1..N
             /\ \A t \in 1..N : ToldInTurn(javas, targets, t, report.targets[t])
  BY <1>2, <1>3, <1>4 DEF AfterTargets, RunState
<1>5. ExitZeroIsEarned(targets, javas)
  <2> SUFFICES ASSUME ExitCode(report) = 0
               PROVE  /\ Len(report.targets) = Len(targets)
                      /\ \A t \in DOMAIN targets :
                           /\ targets[t].found
                           /\ \A b \in DOMAIN targets[t].build :
                                /\ targets[t].build[b].succeeds /\ report.targets[t].builds[b].ran
                                /\ targets[t].build[b].java # NoJava =>
                                     \E u \in 1..t : \E c \in DOMAIN targets[u].build :
                                       /\ targets[u].build[c].java = targets[t].build[b].java
                                       /\ targets[u].build[c].inspection
                           /\ \A s \in DOMAIN targets[t].scenarios : targets[t].scenarios[s] = "passed"
    BY Zenon DEF ExitZeroIsEarned, report
  <2>1. ~report.aborted /\ \A t \in 1..N : report.targets[t].status = "passed"
    <3>1. ~report.aborted /\ report.status # "failed"
      BY DEF ExitCode
    <3> QED
      BY <1>3, <1>4, <3>1
  <2>2. ASSUME NEW t \in 1..N, NEW b \in DOMAIN targets[t].build
        PROVE  /\ targets[t].build[b].succeeds /\ report.targets[t].builds[b].ran
               /\ targets[t].build[b].java # NoJava =>
                    \E u \in 1..t : \E c \in DOMAIN targets[u].build :
                      /\ targets[u].build[c].java = targets[t].build[b].java
                      /\ targets[u].build[c].inspection
    <3>1. PICK homes : /\ Told(report.targets[t], targets[t], homes)
                       /\ \A j \in javas : homes[j] = "ok" => InspectedBy(targets, t, j)
      BY <1>4, <2>1 DEF ToldInTurn
    <3>2. Succeeded(report.targets[t].builds[b], targets[t].build[b], homes)
      BY <2>1, <3>1 DEF Told
    <3>3. targets[t].build[b].java \in javas \union {NoJava}
      <4>1. targets[t].build \in Seq(Commands(javas))
        BY <1>1 DEF Targets
      <4>2. targets[t].build[b] \in Commands(javas)
        BY <4>1
      <4> QED
        BY <4>2 DEF Commands
    <3>4. ASSUME targets[t].build[b].java # NoJava
          PROVE  \E u \in 1..t : \E c \in DOMAIN targets[u].build :
                   /\ targets[u].build[c].java = targets[t].build[b].java
                   /\ targets[u].build[c].inspection
      <4>1. PICK u \in 1..t : Inspects(targets[u].build, Len(targets[u].build), targets[t].build[b].java)
        BY <3>1, <3>2, <3>3, <3>4 DEF Succeeded, InspectedBy
      <4>2. DOMAIN targets[u].build = 1..Len(targets[u].build)
        <5>1. targets[u] \in Targets(javas)
          BY <1>1
        <5>2. targets[u].build \in Seq(Commands(javas))
          BY <5>1 DEF Targets
        <5> QED
          BY <5>2
      <4> QED
        BY <4>1, <4>2 DEF Inspects
    <3> QED
      BY <3>2, <3>4 DEF Succeeded
  <2>3. ASSUME NEW t \in 1..N
        PROVE  /\ targets[t].found
               /\ \A s \in DOMAIN targets[t].scenarios : targets[t].scenarios[s] = "passed"
    BY <1>4, <2>1 DEF ToldInTurn, Told
  <2> QED
    BY <1>1, <1>4, <2>1, <2>2, <2>3
<1>6. ReportIsComplete(targets, javas)
  <2> SUFFICES ASSUME ~report.aborted, NEW t \in DOMAIN targets
               PROVE  LET result == report.targets[t]
                          last   == Len(result.builds)
                      IN  /\ Len(report.targets) = Len(targets)
                          /\ DOMAIN result.scenarios = DOMAIN targets[t].scenarios
                          /\ \A b \in 1..(last - 1) : result.builds[b].status = "passed"
                          /\ "failed" \in Statuses(result.builds) <=>
                               \A s \in DOMAIN result.scenarios : result.scenarios[s] = "skipped"
                          /\ (targets[t].found /\ \A b \in DOMAIN targets[t].build :
                                targets[t].build[b].java = NoJava /\ targets[t].build[b].succeeds)
                               => "skipped" \notin ToSet(result.scenarios)
    BY Zenon DEF ReportIsComplete, report
  <2> QED
    BY <1>1, <1>4 DEF ToldInTurn, Told
<1> QED
  BY <1>5, <1>6

-----------------------------------------------------------------------------
(* The log monitor *)

LogState == [lines : Seq(Seq(Characters)), findings : Seq(Nat), partial : Seq(Characters)]

\* The findings are the lines that a rule finds, but for a netty frame right
\* after its exception.
IsFound(lines, n) ==
  Contains(lines[n], "E") \/ (lines[n] = <<"F">> /\ (n = 1 \/ lines[n - 1] # <<"S">>))

FindingsAreRight(log) ==
  /\ \A i \in DOMAIN log.findings : log.findings[i] \in 1..Len(log.lines)
  /\ \A n \in 1..Len(log.lines) :
       (\E i \in DOMAIN log.findings : log.findings[i] = n) <=> IsFound(log.lines, n)

LEMMA LineAccepted ==
  ASSUME NEW log \in LogState, NEW line \in Seq(Characters), FindingsAreRight(log),
         NEW next, next = AcceptLine(log, line)
  PROVE  /\ next \in LogState /\ FindingsAreRight(next)
         /\ next.lines = Append(log.lines, line) /\ next.partial = log.partial
<1> DEFINE lines == Append(log.lines, line)
           n == Len(lines)
           findings == IF Reported(lines) THEN Append(log.findings, n) ELSE log.findings
<1>1. log.lines \in Seq(Seq(Characters)) /\ log.findings \in Seq(Nat)
  BY DEF LogState
<1>2. /\ lines \in Seq(Seq(Characters)) /\ n = Len(log.lines) + 1 /\ lines[n] = line
      /\ n \in Nat \ {0} /\ \A m \in 1..(n - 1) : lines[m] = log.lines[m]
  BY <1>1
<1>3. next = [log EXCEPT !.lines = lines, !.findings = findings]
  BY DEF AcceptLine
<1>4. findings \in Seq(Nat)
  BY <1>1, <1>2
<1>5. Reported(lines) <=> IsFound(lines, n)
  <2>1. n > 1 <=> n # 1
    BY <1>2
  <2>2. Last(lines) = lines[n]
    BY DEF Last
  <2> HIDE DEF lines
  <2> QED
    BY <2>1, <2>2 DEF Reported, IsBenignClosedChannelFrame, IsFound
<1>6. \A m \in 1..(n - 1) : IsFound(lines, m) <=> IsFound(log.lines, m)
  <2> SUFFICES ASSUME NEW m \in 1..(n - 1) PROVE IsFound(lines, m) <=> IsFound(log.lines, m)
    OBVIOUS
  <2>1. lines[m] = log.lines[m] /\ (m = 1 \/ lines[m - 1] = log.lines[m - 1])
    BY <1>2
  <2> HIDE DEF lines, n
  <2> QED
    BY <2>1 DEF IsFound
<1> HIDE DEF lines, n
<1>7. /\ \A i \in DOMAIN findings : findings[i] \in 1..n
      /\ \A m \in 1..n : (\E i \in DOMAIN findings : findings[i] = m) <=> IsFound(lines, m)
  <2>1. /\ \A i \in DOMAIN log.findings : log.findings[i] \in 1..(n - 1)
        /\ \A m \in 1..(n - 1) :
             (\E i \in DOMAIN log.findings : log.findings[i] = m) <=> IsFound(lines, m)
    BY <1>2, <1>6 DEF FindingsAreRight
  <2>2. CASE Reported(lines)
    <3>1. findings = Append(log.findings, n)
      BY <2>2
    <3> DEFINE k == Len(log.findings)
    <3>2. /\ DOMAIN findings = 1..(k + 1) /\ DOMAIN log.findings = 1..k
          /\ findings[k + 1] = n /\ k \in Nat
          /\ \A i \in 1..k : findings[i] = log.findings[i]
      BY <1>1, <1>2, <3>1
    <3> HIDE DEF findings, k
    <3>0. /\ \A i : i \in DOMAIN findings <=> i = k + 1 \/ i \in DOMAIN log.findings
          /\ \A i \in DOMAIN log.findings : findings[i] = log.findings[i]
          /\ n \in 1..n /\ 1..(n - 1) \subseteq 1..n /\ n \notin 1..(n - 1)
      BY <1>2, <3>2
    <3>3. \A i \in DOMAIN findings : findings[i] \in 1..n
      BY <2>1, <3>0, <3>2
    <3>4. \A m \in 1..(n - 1) : (\E i \in DOMAIN findings : findings[i] = m)
                                  <=> \E i \in DOMAIN log.findings : log.findings[i] = m
      BY <3>0, <3>2
    <3>5. k + 1 \in DOMAIN findings
      BY <3>2
    <3>6. \A m \in 1..n : m = n \/ m \in 1..(n - 1)
      BY <1>2
    <3>7. (\E i \in DOMAIN findings : findings[i] = n) <=> IsFound(lines, n)
      BY <1>5, <2>2, <3>2, <3>5
    <3> QED
      BY <2>1, <3>3, <3>4, <3>6, <3>7
  <2>3. CASE ~Reported(lines)
    <3>1. findings = log.findings
      BY <2>3
    <3> HIDE DEF findings
    <3>2. \A m \in 1..n : m = n \/ m \in 1..(n - 1)
      BY <1>2
    <3>3. \A i \in DOMAIN findings : findings[i] \in 1..n /\ findings[i] # n
      BY <1>2, <2>1, <3>1
    <3> QED
      BY <1>5, <2>1, <2>3, <3>1, <3>2, <3>3
  <2> QED
    BY <2>2, <2>3
<1> HIDE DEF findings
<1>8. /\ next \in LogState /\ next.lines = lines /\ next.findings = findings
      /\ next.partial = log.partial
  BY <1>2, <1>3, <1>4 DEF LogState
<1>9. FindingsAreRight(next)
  BY <1>7, <1>8 DEF FindingsAreRight, n
<1> QED
  BY <1>8, <1>9 DEF lines

\* The line feeds among the first n symbols, and where the line after them begins.
FeedsTo(text, n) == {j \in Feeds(text) : j <= n}
Begins(text, n, b) ==
  /\ b \in 1..(n + 1)
  /\ \A j \in Feeds(text) : j <= n => j < b
  /\ b = 1 \/ b - 1 \in Feeds(text)

LEMMA LineFrom ==
  ASSUME NEW text \in Seq(Characters), NEW n \in 0..Len(text), NEW b, Begins(text, n, b)
  PROVE  LineOf(text, n + 1) = IF n + 1 \in Feeds(text) THEN Chomp(SubSeq(text, b, n))
                               ELSE SubSeq(text, b, n)
<1> DEFINE P(i) == /\ \A j \in Feeds(text) : j < n + 1 => j < i
                   /\ i = 1 \/ i - 1 \in Feeds(text)
           c == CHOOSE i \in 1..(n + 1) : P(i)
<1>1. n \in Nat /\ \A j \in Feeds(text) : j \in Nat /\ (j < n + 1 <=> j <= n)
  BY DEF Feeds
<1>2. b \in 1..(n + 1) /\ P(b)
  BY <1>1 DEF Begins
<1>3. \A i \in 1..(n + 1) : P(i) => i = b
  <2> SUFFICES ASSUME NEW i \in 1..(n + 1), P(i) PROVE i = b
    OBVIOUS
  <2>1. ~(i < b)
    <3> SUFFICES ASSUME i < b PROVE FALSE
      OBVIOUS
    <3>1. b - 1 \in Feeds(text) /\ b - 1 < n + 1
      BY <1>1, <1>2
    <3> QED
      BY <1>1, <1>2, <3>1
  <2>2. ~(b < i)
    <3> SUFFICES ASSUME b < i PROVE FALSE
      OBVIOUS
    <3>1. i - 1 \in Feeds(text) /\ i - 1 < n + 1
      BY <1>1, <1>2
    <3> QED
      BY <1>1, <1>2, <3>1
  <2> QED
    BY <1>1, <1>2, <2>1, <2>2
<1>4. c = b
  <2> HIDE DEF P
  <2> QED
    BY <1>2, <1>3
<1>5. n + 1 - 1 = n
  BY <1>1
<1>6. LineOf(text, n + 1) = LET piece == SubSeq(text, c, n)
                            IN  IF n + 1 \in Feeds(text) THEN Chomp(piece) ELSE piece
  BY <1>5 DEF LineOf
<1> HIDE DEF c
<1> QED
  BY <1>4, <1>6

LEMMA FeedsCounted ==
  ASSUME NEW text \in Seq(Characters), NEW n \in 0..Len(text)
  PROVE  /\ IsFiniteSet(FeedsTo(text, n)) /\ Cardinality(FeedsTo(text, n)) \in Nat
         /\ \A e \in FeedsTo(text, n) :
              Cardinality(FeedsTo(text, e)) \in 1..Cardinality(FeedsTo(text, n))
         /\ n > 0 => IF text[n] = "lf"
              THEN /\ FeedsTo(text, n) = FeedsTo(text, n - 1) \union {n}
                   /\ Cardinality(FeedsTo(text, n)) = Cardinality(FeedsTo(text, n - 1)) + 1
              ELSE FeedsTo(text, n) = FeedsTo(text, n - 1)
<1>1. Len(text) \in Nat /\ IsFiniteSet(1..Len(text))
  BY FS_Interval
<1>2. \A m : FeedsTo(text, m) \in SUBSET (1..Len(text))
  BY DEF FeedsTo, Feeds
<1>3. \A m : IsFiniteSet(FeedsTo(text, m)) /\ Cardinality(FeedsTo(text, m)) \in Nat
  BY <1>1, <1>2, FS_Subset, FS_CardinalityType
<1>4. ASSUME NEW e \in FeedsTo(text, n)
      PROVE  Cardinality(FeedsTo(text, e)) \in 1..Cardinality(FeedsTo(text, n))
  <2>1. FeedsTo(text, e) \in SUBSET FeedsTo(text, n) /\ FeedsTo(text, e) # {}
    BY <1>1 DEF FeedsTo, Feeds
  <2>2. Cardinality(FeedsTo(text, e)) # 0
    BY <1>3, <2>1, FS_EmptySet
  <2>3. Cardinality(FeedsTo(text, e)) <= Cardinality(FeedsTo(text, n))
    BY <1>3, <2>1, FS_Subset
  <2> QED
    BY <1>3, <2>2, <2>3
<1>5. ASSUME n > 0, text[n] = "lf"
      PROVE  /\ FeedsTo(text, n) = FeedsTo(text, n - 1) \union {n}
             /\ Cardinality(FeedsTo(text, n)) = Cardinality(FeedsTo(text, n - 1)) + 1
  <2>1. FeedsTo(text, n) = FeedsTo(text, n - 1) \union {n} /\ n \notin FeedsTo(text, n - 1)
    BY <1>1, <1>5 DEF FeedsTo, Feeds
  <2> QED
    BY <1>3, <2>1, FS_AddElement
<1>6. n > 0 /\ text[n] # "lf" => FeedsTo(text, n) = FeedsTo(text, n - 1)
  BY <1>1 DEF FeedsTo, Feeds
<1> QED
  BY <1>3, <1>4, <1>5, <1>6

\* A log that tells of the first n symbols of a text: its lines, in order, are
\* those that the line feeds among them end, and the rest is in `partial`.
Tells(text, n, log) ==
  /\ log \in LogState /\ FindingsAreRight(log)
  /\ Len(log.lines) = Cardinality(FeedsTo(text, n))
  /\ \A e \in FeedsTo(text, n) : log.lines[Cardinality(FeedsTo(text, e))] = LineOf(text, e)
  /\ \E b : Begins(text, n, b) /\ log.partial = SubSeq(text, b, n)

LEMMA SymbolAccepted ==
  ASSUME NEW text \in Seq(Characters), NEW n \in 1..Len(text), NEW log, Tells(text, n - 1, log),
         NEW next, next = AcceptSymbol(log, text[n])
  PROVE  Tells(text, n, next)
<1>1. /\ n \in Nat /\ n - 1 \in 0..Len(text) /\ n \in 0..Len(text) /\ n > 0
      /\ text[n] \in Characters /\ n - 1 + 1 = n /\ Len(text) \in Nat
  OBVIOUS
<1>2. /\ log \in LogState /\ FindingsAreRight(log)
      /\ Len(log.lines) = Cardinality(FeedsTo(text, n - 1))
      /\ \A e \in FeedsTo(text, n - 1) : log.lines[Cardinality(FeedsTo(text, e))] = LineOf(text, e)
      /\ log.partial \in Seq(Characters) /\ log.lines \in Seq(Seq(Characters))
  BY DEF Tells, LogState
<1>3. PICK b : Begins(text, n - 1, b) /\ log.partial = SubSeq(text, b, n - 1)
  BY DEF Tells
<1>4. b \in 1..n
  BY <1>1, <1>3 DEF Begins
<1>5. Cardinality(FeedsTo(text, n - 1)) \in Nat
  BY <1>1, FeedsCounted
<1>6. CASE text[n] = "lf"
  <2> DEFINE line == Chomp(log.partial)
             accepted == AcceptLine(log, line)
  <2>1. line \in Seq(Characters)
    BY <1>2 DEF Chomp, Front
  <2>2. next = [accepted EXCEPT !.partial = <<>>]
    BY <1>6 DEF AcceptSymbol
  <2> HIDE DEF line
  <2>3. /\ accepted \in LogState /\ FindingsAreRight(accepted)
        /\ accepted.lines = Append(log.lines, line)
    BY <1>2, <2>1, LineAccepted
  <2> HIDE DEF accepted
  <2>4. /\ next \in LogState /\ next.lines = accepted.lines
        /\ next.findings = accepted.findings /\ next.partial = <<>>
    <3>1. <<>> \in Seq(Characters)
      OBVIOUS
    <3> QED
      BY <2>2, <2>3, <3>1 DEF LogState
  <2>5. FindingsAreRight(next)
    BY <2>3, <2>4 DEF FindingsAreRight
  <2>6. n \in Feeds(text)
    BY <1>6 DEF Feeds
  <2>7. line = LineOf(text, n)
    <3>1. LineOf(text, n - 1 + 1) = Chomp(SubSeq(text, b, n - 1))
      BY <1>1, <1>3, <2>6, LineFrom
    <3> QED
      BY <1>1, <1>3, <3>1 DEF line
  <2>8. /\ FeedsTo(text, n) = FeedsTo(text, n - 1) \union {n}
        /\ Cardinality(FeedsTo(text, n)) = Cardinality(FeedsTo(text, n - 1)) + 1
    BY <1>1, <1>6, FeedsCounted
  <2>9. /\ Len(next.lines) = Cardinality(FeedsTo(text, n))
        /\ next.lines[Cardinality(FeedsTo(text, n))] = line
        /\ \A m \in 1..Len(log.lines) : next.lines[m] = log.lines[m]
    BY <1>2, <1>5, <2>1, <2>3, <2>4, <2>8
  <2>10. ASSUME NEW e \in FeedsTo(text, n)
         PROVE  next.lines[Cardinality(FeedsTo(text, e))] = LineOf(text, e)
    <3>1. CASE e = n
      BY <2>7, <2>9, <3>1
    <3>2. CASE e \in FeedsTo(text, n - 1)
      <4>1. Cardinality(FeedsTo(text, e)) \in 1..Len(log.lines)
        BY <1>1, <1>2, <3>2, FeedsCounted
      <4> QED
        BY <1>2, <2>9, <3>2, <4>1
    <3> QED
      BY <2>8, <3>1, <3>2
  <2>11. Begins(text, n, n + 1) /\ next.partial = SubSeq(text, n + 1, n)
    <3>1. n + 1 - 1 = n /\ \A j \in Feeds(text) : j <= n => j < n + 1
      BY <1>1 DEF Feeds
    <3>2. SubSeq(text, n + 1, n) = <<>>
      BY <1>1, SubSeqEmpty
    <3> QED
      BY <1>1, <2>4, <2>6, <3>1, <3>2 DEF Begins
  <2> QED
    BY <2>4, <2>5, <2>9, <2>10, <2>11 DEF Tells
<1>7. CASE text[n] # "lf"
  <2>1. next = [log EXCEPT !.partial = Append(@, text[n])]
    BY <1>7 DEF AcceptSymbol
  <2>2. Append(log.partial, text[n]) \in Seq(Characters)
    BY <1>1, <1>2
  <2>3. /\ next \in LogState /\ next.lines = log.lines /\ next.findings = log.findings
        /\ next.partial = Append(log.partial, text[n])
    BY <1>2, <2>1, <2>2 DEF LogState
  <2>4. FindingsAreRight(next)
    BY <1>2, <2>3 DEF FindingsAreRight
  <2>5. FeedsTo(text, n) = FeedsTo(text, n - 1)
    BY <1>1, <1>7, FeedsCounted
  <2>6. Begins(text, n, b)
    <3>1. \A j \in Feeds(text) : j <= n => j <= n - 1
      BY <1>1, <1>7 DEF Feeds
    <3> QED
      BY <1>1, <1>3, <1>4, <3>1 DEF Begins
  <2>7. Append(SubSeq(text, b, n - 1), text[n]) = SubSeq(text, b, n)
    <3>1. SubSeq(text, b, n) = SubSeq(text, b, n - 1) \o <<text[n]>>
      <4>1. b \in 1..Len(text) /\ n \in b..Len(text)
        BY <1>1, <1>4
      <4> QED
        BY <4>1, SubSeqRecursiveSecond
    <3>2. SubSeq(text, b, n - 1) \in Seq(Characters)
      BY <1>2, <1>3
    <3> QED
      BY <1>1, <3>1, <3>2, AppendIsConcat
  <2> QED
    BY <1>2, <1>3, <2>3, <2>4, <2>5, <2>6, <2>7 DEF Tells
<1> QED
  BY <1>6, <1>7

\* The loops, over the symbols of a value and over the chunks of an output.
RightLogs == {log \in LogState : FindingsAreRight(log)}

LEMMA SymbolKeepsLog ==
  ASSUME NEW log \in RightLogs, NEW symbol \in Characters
  PROVE  AcceptSymbol(log, symbol) \in RightLogs
<1>1. /\ log \in LogState /\ FindingsAreRight(log)
      /\ log.partial \in Seq(Characters) /\ <<>> \in Seq(Characters)
  BY DEF RightLogs, LogState
<1>2. CASE symbol = "lf"
  <2> DEFINE line == Chomp(log.partial)
             accepted == AcceptLine(log, line)
             next == [accepted EXCEPT !.partial = <<>>]
  <2>1. line \in Seq(Characters)
    BY <1>1 DEF Chomp, Front
  <2>2. AcceptSymbol(log, symbol) = next
    BY <1>2 DEF AcceptSymbol
  <2> HIDE DEF line
  <2>3. accepted \in LogState /\ FindingsAreRight(accepted)
    BY <1>1, <2>1, LineAccepted
  <2> HIDE DEF accepted
  <2>4. next \in LogState /\ next.lines = accepted.lines /\ next.findings = accepted.findings
    BY <1>1, <2>3 DEF LogState
  <2> HIDE DEF next
  <2> QED
    BY <2>2, <2>3, <2>4 DEF RightLogs, FindingsAreRight
<1>3. CASE symbol # "lf"
  <2> DEFINE partial == Append(log.partial, symbol)
             next == [log EXCEPT !.partial = partial]
  <2>1. partial \in Seq(Characters)
    BY <1>1
  <2>2. AcceptSymbol(log, symbol) = next
    BY <1>3 DEF AcceptSymbol
  <2> HIDE DEF partial
  <2>3. next \in LogState /\ next.lines = log.lines /\ next.findings = log.findings
    BY <1>1, <2>1 DEF LogState
  <2> HIDE DEF next
  <2> QED
    BY <1>1, <2>2, <2>3 DEF RightLogs, FindingsAreRight
<1> QED
  BY <1>2, <1>3

LEMMA AcceptingRuns ==
  ASSUME NEW log \in RightLogs, NEW value \in Seq(Characters), NEW at, at = Accepting(log, value)
  PROVE  /\ at[0] = log
         /\ \A i \in 1..Len(value) : at[i] = AcceptSymbol(at[i - 1], value[i])
         /\ \A i \in 0..Len(value) : at[i] \in RightLogs
<1> DEFINE N == Len(value)
           Loop(f) == f = [i \in 0..N |-> IF i = 0 THEN log ELSE AcceptSymbol(f[i - 1], value[i])]
           step == [i \in 1..N |-> [x \in RightLogs |-> AcceptSymbol(x, value[i])]]
<1>1. N \in Nat /\ \A i \in 1..N : value[i] \in Characters
  OBVIOUS
<1>2. \A x \in RightLogs, i \in 1..N :
        AcceptSymbol(x, value[i]) \in RightLogs /\ step[i][x] = AcceptSymbol(x, value[i])
  BY <1>1, SymbolKeepsLog
<1>3. N \in Nat /\ log \in RightLogs /\ step \in [1..N -> [RightLogs -> RightLogs]]
  BY <1>1, <1>2
<1> HIDE DEF N, step
<1>4. PICK f : IsLoop(f, N, RightLogs, log, step)
  BY <1>3, Iterated
<1>5. Loop(f)
  <2>1. ASSUME NEW i \in 0..N
        PROVE  f[i] = IF i = 0 THEN log ELSE AcceptSymbol(f[i - 1], value[i])
    <3>1. i # 0 => i \in 1..N /\ i - 1 \in 0..N
      BY <1>1
    <3> QED
      BY <1>2, <1>4, <3>1 DEF IsLoop
  <2> QED
    BY <1>4, <2>1 DEF IsLoop
<1>6. Loop(at)
  BY <1>5, Zenon DEF Accepting, N
<1>7. at[0] = log /\ \A i \in 1..N : at[i] = AcceptSymbol(at[i - 1], value[i])
  BY <1>1, <1>6
<1> HIDE DEF Loop
<1>8. at[0] \in RightLogs /\ \A i \in 1..N : at[i - 1] \in RightLogs => at[i] \in RightLogs
  BY <1>2, <1>7
<1>9. \A i \in 0..N : at[i] \in RightLogs
  BY <1>1, <1>8, LoopKeeps, Zenon
<1> QED
  BY <1>7, <1>9 DEF N

LEMMA Decoded ==
  ASSUME NEW chunk \in Seq(Symbols)
  PROVE  /\ Decode(chunk) \in Seq(Characters) /\ Len(Decode(chunk)) = Len(chunk)
         /\ \A i \in 1..Len(chunk) :
              /\ Decode(chunk)[i] = IF Stray(chunk, i) THEN "bad" ELSE chunk[i]
              /\ Stray(chunk, i) => chunk[i] \in {"b1", "b2"}
<1>1. /\ Len(chunk) \in Nat /\ "bad" \in Characters
      /\ \A i \in 1..Len(chunk) : chunk[i] \in Characters
  BY DEF Characters
<1>2. \A i \in 1..Len(chunk) : Decode(chunk)[i] \in Characters
  BY <1>1 DEF Decode
<1> QED
  BY <1>1, <1>2 DEF Decode, Stray

LEMMA ChunkKeepsLog ==
  ASSUME NEW log \in RightLogs, NEW chunk \in Seq(Symbols),
         NEW read, read = Decode(chunk)
  PROVE  /\ log.partial \o read \in Seq(Characters)
         /\ [log EXCEPT !.partial = <<>>] \in RightLogs
         /\ Accept(log, chunk) \in RightLogs
<1> DEFINE value == log.partial \o read
           base == [log EXCEPT !.partial = <<>>]
<1>1. log \in LogState /\ log.partial \in Seq(Characters) /\ <<>> \in Seq(Characters)
  BY DEF RightLogs, LogState
<1>2. value \in Seq(Characters)
  BY <1>1, Decoded
<1>3. base \in LogState /\ base.lines = log.lines /\ base.findings = log.findings
  BY <1>1 DEF LogState
<1> HIDE DEF base
<1>4. base \in RightLogs
  BY <1>3 DEF RightLogs, FindingsAreRight
<1>5. Accept(log, chunk) = Accepting(base, value)[Len(value)]
  BY DEF Accept, base
<1> HIDE DEF value
<1>6. Len(value) \in 0..Len(value)
  BY <1>2
<1>7. Accept(log, chunk) \in RightLogs
  <2>1. PICK at : at = Accepting(base, value)
    OBVIOUS
  <2> QED
    BY <1>2, <1>4, <1>5, <1>6, <2>1, AcceptingRuns
<1> QED
  BY <1>2, <1>4, <1>7 DEF value, base

LEMMA MonitoringRuns ==
  ASSUME NEW chunks \in Seq(Seq(Symbols)), NEW at, at = Monitoring(chunks)
  PROVE  /\ at[0] = EmptyLog
         /\ \A c \in 1..Len(chunks) : at[c] = Accept(at[c - 1], chunks[c])
<1> DEFINE N == Len(chunks)
           Loop(f) == f = [c \in 0..N |-> IF c = 0 THEN EmptyLog ELSE Accept(f[c - 1], chunks[c])]
           step == [c \in 1..N |-> [x \in RightLogs |-> Accept(x, chunks[c])]]
<1>1. N \in Nat /\ \A c \in 1..N : chunks[c] \in Seq(Symbols)
  OBVIOUS
<1>2. EmptyLog \in RightLogs
  <2>1. <<>> \in Seq(Seq(Characters)) /\ <<>> \in Seq(Characters) /\ <<>> \in Seq(Nat)
    OBVIOUS
  <2>2. EmptyLog \in LogState
    BY <2>1 DEF EmptyLog, LogState
  <2>3. FindingsAreRight(EmptyLog)
    BY DEF EmptyLog, FindingsAreRight
  <2> QED
    BY <2>2, <2>3 DEF RightLogs
<1>3. \A x \in RightLogs, c \in 1..N :
        Accept(x, chunks[c]) \in RightLogs /\ step[c][x] = Accept(x, chunks[c])
  BY <1>1, ChunkKeepsLog
<1>4. N \in Nat /\ EmptyLog \in RightLogs /\ step \in [1..N -> [RightLogs -> RightLogs]]
  BY <1>1, <1>2, <1>3
<1> HIDE DEF N, step
<1>5. PICK f : IsLoop(f, N, RightLogs, EmptyLog, step)
  BY <1>4, Iterated
<1>6. Loop(f)
  <2>1. ASSUME NEW c \in 0..N
        PROVE  f[c] = IF c = 0 THEN EmptyLog ELSE Accept(f[c - 1], chunks[c])
    <3>1. c # 0 => c \in 1..N /\ c - 1 \in 0..N
      BY <1>1
    <3> QED
      BY <1>3, <1>5, <3>1 DEF IsLoop
  <2> QED
    BY <1>5, <2>1 DEF IsLoop
<1>7. Loop(at)
  BY <1>6, Zenon DEF Monitoring, N
<1> QED
  BY <1>1, <1>7 DEF N

\* u is t after s.
IsJoined(u, s, t) ==
  /\ Len(s) \in Nat /\ Len(t) \in Nat /\ Len(s) <= Len(u)
  /\ Len(u) = Len(s) + Len(t)
  /\ \A i \in 1..Len(u) : u[i] = IF i <= Len(s) THEN s[i] ELSE t[i - Len(s)]
  /\ \A i \in 1..Len(s) : u[i] = s[i]
  /\ \A i \in 1..Len(t) : u[Len(s) + i] = t[i]

LEMMA Joined ==
  ASSUME NEW R, NEW s \in Seq(R), NEW t \in Seq(R)
  PROVE  IsJoined(s \o t, s, t)
BY DEF IsJoined

LEMMA TextRuns ==
  ASSUME NEW R, NEW chunks \in Seq(Seq(R)), NEW at, at = TextAfter(chunks)
  PROVE  /\ at[0] = <<>>
         /\ \A c \in 1..Len(chunks) : at[c] = at[c - 1] \o chunks[c]
         /\ \A c \in 0..Len(chunks) : at[c] \in Seq(R)
<1> DEFINE N == Len(chunks)
           S == Seq(R)
           Loop(f) == f = [c \in 0..N |-> IF c = 0 THEN <<>> ELSE f[c - 1] \o chunks[c]]
           step == [c \in 1..N |-> [x \in S |-> x \o chunks[c]]]
<1>1. N \in Nat /\ <<>> \in S /\ \A c \in 1..N : chunks[c] \in S
  OBVIOUS
<1>2. \A x \in S, c \in 1..N : x \o chunks[c] \in S /\ step[c][x] = x \o chunks[c]
  BY <1>1
<1>3. N \in Nat /\ <<>> \in S /\ step \in [1..N -> [S -> S]]
  BY <1>1, <1>2
<1> HIDE DEF N, S, step
<1>4. PICK f : IsLoop(f, N, S, <<>>, step)
  BY <1>3, Iterated
<1>5. Loop(f)
  <2>1. ASSUME NEW c \in 0..N PROVE f[c] = IF c = 0 THEN <<>> ELSE f[c - 1] \o chunks[c]
    <3>1. c # 0 => c \in 1..N /\ c - 1 \in 0..N
      BY <1>1
    <3> QED
      BY <1>2, <1>4, <3>1 DEF IsLoop
  <2> QED
    BY <1>4, <2>1 DEF IsLoop
<1>6. Loop(at)
  BY <1>5, Zenon DEF TextAfter, N
<1>7. at[0] = <<>> /\ \A c \in 1..N : at[c] = at[c - 1] \o chunks[c]
  BY <1>1, <1>6
<1> HIDE DEF Loop
<1>8. at[0] \in S /\ \A c \in 1..N : at[c - 1] \in S => at[c] \in S
  BY <1>1, <1>2, <1>7
<1>9. \A c \in 0..N : at[c] \in S
  BY <1>1, <1>8, LoopKeeps, Zenon
<1> QED
  BY <1>7, <1>9 DEF N, S

\* accept() goes back to the symbols it kept, and reads on from there.
LEMMA ChunkAccepted ==
  ASSUME NEW text \in Seq(Characters), NEW n \in 0..Len(text), NEW log, Tells(text, n, log),
         NEW chunk \in Seq(Symbols), NEW read, read = Decode(chunk),
         n + Len(read) <= Len(text),
         \A i \in 1..Len(read) : text[n + i] = read[i]
  PROVE  Tells(text, n + Len(read), Accept(log, chunk))
<1> DEFINE value == log.partial \o read
           base == [log EXCEPT !.partial = <<>>]
<1>1. /\ log \in LogState /\ FindingsAreRight(log) /\ log \in RightLogs
      /\ log.partial \in Seq(Characters) /\ <<>> \in Seq(Characters) /\ value \in Seq(Characters)
      /\ Len(text) \in Nat /\ n \in Nat /\ Len(read) \in Nat /\ read \in Seq(Characters)
  <2>0. read \in Seq(Characters)
    BY Decoded
  <2>1. log \in LogState /\ FindingsAreRight(log)
    BY DEF Tells
  <2>2. log \in RightLogs /\ log.partial \in Seq(Characters)
    BY <2>1 DEF LogState, RightLogs
  <2>3. value \in Seq(Characters) /\ <<>> \in Seq(Characters)
    BY <2>0, <2>2
  <2>4. Len(text) \in Nat /\ n \in Nat /\ Len(read) \in Nat
    BY <2>0
  <2> HIDE DEF value
  <2> QED
    BY <2>0, <2>1, <2>2, <2>3, <2>4
<1>2. PICK b : Begins(text, n, b) /\ log.partial = SubSeq(text, b, n)
  BY DEF Tells
<1>3. b \in 1..(n + 1) /\ b \in Nat
  BY <1>1, <1>2 DEF Begins
<1> DEFINE m == b - 1
<1>4. /\ Len(log.partial) = n - m /\ \A i \in 1..(n - m) : log.partial[i] = text[m + i]
      /\ n - m \in Nat
  <2>1. \A i \in b..n : text[i] \in Characters
    BY <1>3
  <2>2. /\ Len(log.partial) = IF b <= n THEN n - b + 1 ELSE 0
        /\ \A i \in 1..(n - b + 1) : log.partial[i] = text[b + i - 1]
    BY <1>1, <1>2, <1>3, <2>1, SubSeqProperties
  <2>3. n - b + 1 = n - m /\ \A i \in 1..(n - m) : b + i - 1 = m + i
    BY <1>1, <1>3
  <2> QED
    BY <1>1, <1>3, <2>2, <2>3
<1>5. /\ Len(value) = n - m + Len(read)
      /\ \A i \in 1..Len(value) : value[i] = text[m + i]
  <2>1. /\ Len(value) = n - m + Len(read)
        /\ \A i \in 1..Len(value) :
             value[i] = IF i <= n - m THEN log.partial[i] ELSE read[i - (n - m)]
    <3>1. /\ log.partial \in Seq(Characters) /\ read \in Seq(Characters)
          /\ Len(log.partial) = n - m /\ value = log.partial \o read
      BY <1>1, <1>4
    <3> HIDE DEF m, value
    <3>2. IsJoined(value, log.partial, read)
      BY <3>1, Joined
    <3> QED
      BY <3>1, <3>2 DEF IsJoined
  <2>2. ASSUME NEW i \in 1..Len(value), ~(i <= n - m)
        PROVE  read[i - (n - m)] = text[m + i]
    <3>1. i - (n - m) \in 1..Len(read) /\ n + (i - (n - m)) = m + i
      BY <1>1, <1>3, <1>4, <2>1, <2>2
    <3> QED
      BY <3>1
  <2> QED
    BY <1>4, <2>1, <2>2
<1>6. /\ base \in RightLogs /\ base \in LogState /\ base.lines = log.lines
      /\ base.findings = log.findings /\ base.partial = <<>> /\ FindingsAreRight(base)
  <2>1. base \in RightLogs
    BY <1>1, ChunkKeepsLog
  <2>2. base.lines = log.lines /\ base.findings = log.findings /\ base.partial = <<>>
    BY <1>1 DEF LogState
  <2> HIDE DEF base
  <2> QED
    BY <2>1, <2>2 DEF RightLogs
<1>7. Accept(log, chunk) = Accepting(base, value)[Len(value)]
  BY DEF Accept
<1> HIDE DEF base, value
<1>8. Tells(text, m, base)
  <2>1. FeedsTo(text, m) = FeedsTo(text, n)
    <3>1. \A j \in Feeds(text) : j \in Nat /\ (j < b <=> j <= m)
      BY <1>3 DEF Feeds
    <3>2. \A j \in Feeds(text) : j <= n <=> j <= m
      BY <1>1, <1>2, <1>3, <3>1 DEF Begins
    <3> QED
      BY <3>2 DEF FeedsTo
  <2>2. Begins(text, m, b)
    BY <1>1, <1>2, <1>3 DEF Begins, Feeds
  <2>3. SubSeq(text, b, m) = <<>>
    BY <1>3, SubSeqEmpty
  <2> HIDE DEF m
  <2> QED
    BY <1>6, <2>1, <2>2, <2>3 DEF Tells
<1>9. PICK at : at = Accepting(base, value)
  OBVIOUS
<1>10. at[0] = base /\ \A i \in 1..Len(value) : at[i] = AcceptSymbol(at[i - 1], value[i])
  BY <1>1, <1>6, <1>9, AcceptingRuns
<1> DEFINE N == Len(value)
           T == {i \in 0..N : Tells(text, m + i, at[i])}
<1>11. N \in Nat /\ m \in Nat /\ m + N = n + Len(read)
  BY <1>1, <1>3, <1>5
<1>12. 0 \in T
  BY <1>8, <1>10, <1>11
<1>13. ASSUME NEW i \in 1..N, i - 1 \in T PROVE i \in T
  <2>1. /\ m + i \in 1..Len(text) /\ m + (i - 1) = (m + i) - 1
        /\ Tells(text, m + (i - 1), at[i - 1])
    BY <1>1, <1>11, <1>13
  <2>2. at[i] = AcceptSymbol(at[i - 1], text[m + i])
    BY <1>5, <1>10
  <2>3. Tells(text, (m + i) - 1, at[i - 1])
    BY <2>1
  <2> HIDE DEF m
  <2>4. Tells(text, m + i, at[i])
    BY <2>1, <2>2, <2>3, SymbolAccepted
  <2> QED
    BY <2>4
<1> HIDE DEF T
<1>14. 0..N \subseteq T
  BY <1>11, <1>12, <1>13, UpTo, Zenon
<1>15. N \in T
  <2>1. N \in Nat
    BY <1>11
  <2> HIDE DEF N
  <2>2. N \in 0..N
    BY <2>1
  <2> QED
    BY <1>14, <2>2
<1> QED
  BY <1>7, <1>9, <1>11, <1>15 DEF T

\* The text of the first chunks begins that of all of them.
Within(s, t) == Len(s) <= Len(t) /\ \A i \in 1..Len(s) : t[i] = s[i]

LEMMA TextGrows ==
  ASSUME NEW R, NEW chunks \in Seq(Seq(R)), NEW at, at = TextAfter(chunks)
  PROVE  \A c \in 0..Len(chunks) : Within(at[c], at[Len(chunks)])
<1> DEFINE N == Len(chunks)
           T == {d \in 0..N : \A c \in 0..d : Within(at[c], at[d])}
<1>0. N \in Nat
  OBVIOUS
<1>1. /\ \A c \in 1..N : at[c] = at[c - 1] \o chunks[c] /\ chunks[c] \in Seq(R)
      /\ \A c \in 0..N : at[c] \in Seq(R)
  <2>1. \A c \in 1..N : chunks[c] \in Seq(R)
    OBVIOUS
  <2>2. /\ \A c \in 1..N : at[c] = at[c - 1] \o chunks[c]
        /\ \A c \in 0..N : at[c] \in Seq(R)
    BY TextRuns
  <2> HIDE DEF N
  <2> QED
    BY <2>1, <2>2
<1> HIDE DEF N
<1>2. \A c \in 0..N : Within(at[c], at[c])
  BY <1>1 DEF Within
<1>3. 0 \in T
  <2>1. 0 \in 0..N /\ \A c \in 0..0 : c = 0
    BY <1>0
  <2> QED
    BY <1>2, <2>1
<1>4. ASSUME NEW d \in 1..N, d - 1 \in T PROVE d \in T
  <2>0. d - 1 \in 0..N /\ d \in 0..N
    BY <1>0
  <2>1. /\ at[d - 1] \in Seq(R) /\ chunks[d] \in Seq(R)
        /\ at[d] = at[d - 1] \o chunks[d] /\ at[d] \in Seq(R)
    BY <1>1, <2>0
  <2>2. Within(at[d - 1], at[d])
    <3>1. IsJoined(at[d], at[d - 1], chunks[d])
      BY <2>1, Joined
    <3> QED
      BY <3>1 DEF IsJoined, Within
  <2>3. ASSUME NEW c \in 0..d PROVE Within(at[c], at[d])
    <3>1. CASE c = d
      BY <1>2, <2>0, <3>1
    <3>2. CASE c # d
      <4>1. c \in 0..(d - 1) /\ c \in 0..N
        BY <1>0, <3>2
      <4>2. Within(at[c], at[d - 1])
        BY <1>4, <4>1
      <4> DEFINE r == at[c]
                 s == at[d - 1]
                 t == at[d]
      <4>3. r \in Seq(R) /\ s \in Seq(R) /\ t \in Seq(R)
        BY <1>1, <2>1, <4>1
      <4>4. /\ Len(r) <= Len(s) /\ \A i \in 1..Len(r) : s[i] = r[i]
            /\ Len(s) <= Len(t) /\ \A i \in 1..Len(s) : t[i] = s[i]
        BY <2>2, <4>2 DEF Within
      <4> HIDE DEF r, s, t
      <4>5. Len(r) \in Nat /\ Len(s) \in Nat /\ Len(t) \in Nat
        BY <4>3
      <4>6. Len(r) <= Len(t) /\ \A i \in 1..Len(r) : i \in 1..Len(s)
        BY <4>4, <4>5
      <4>7. Len(r) <= Len(t) /\ \A i \in 1..Len(r) : t[i] = r[i]
        BY <4>4, <4>6
      <4> QED
        BY <4>7 DEF r, t, Within
    <3> QED
      BY <3>1, <3>2
  <2> QED
    BY <2>0, <2>3
<1> HIDE DEF T
<1>5. 0..N \subseteq T
  BY <1>0, <1>3, <1>4, UpTo, Zenon
<1>6. \A c \in 0..N : Within(at[c], at[N])
  <2>1. N \in T
    BY <1>0, <1>5
  <2> QED
    BY <2>1 DEF T
<1> QED
  BY <1>6 DEF N

\* What accept() reads of each chunk.
Reads(chunks) == [c \in 1..Len(chunks) |-> Decode(chunks[c])]

LEMMA ReadsOf ==
  ASSUME NEW chunks \in Seq(Seq(Symbols)), NEW reads, reads = Reads(chunks)
  PROVE  /\ reads \in Seq(Seq(Characters)) /\ Len(reads) = Len(chunks)
         /\ \A c \in 1..Len(chunks) : reads[c] = Decode(chunks[c]) /\ reads[c] \in Seq(Characters)
<1> DEFINE N == Len(chunks)
<1>1. N \in Nat /\ \A c \in 1..N : chunks[c] \in Seq(Symbols)
  OBVIOUS
<1>2. \A c \in 1..N : Decode(chunks[c]) \in Seq(Characters)
  BY <1>1, Decoded
<1>3. reads = [c \in 1..N |-> Decode(chunks[c])]
  BY DEF Reads
<1> HIDE DEF N
<1>4. reads \in [1..N -> Seq(Characters)]
  BY <1>2, <1>3
<1>5. reads \in Seq(Seq(Characters)) /\ Len(reads) = N
  BY <1>1, <1>4
<1> QED
  BY <1>2, <1>3, <1>5 DEF N

LEMMA AllChunks ==
  ASSUME NEW chunks \in Seq(Seq(Symbols)), NEW reads, reads = Reads(chunks),
         NEW text, text = TextAfter(reads)[Len(chunks)]
  PROVE  text \in Seq(Characters) /\ Tells(text, Len(text), Monitoring(chunks)[Len(chunks)])
<1> DEFINE N == Len(chunks)
<1>1. PICK at, texts : at = Monitoring(chunks) /\ texts = TextAfter(reads)
  OBVIOUS
<1>2. /\ N \in Nat /\ at[0] = EmptyLog /\ texts[0] = <<>>
      /\ \A c \in 1..N : /\ at[c] = Accept(at[c - 1], chunks[c]) /\ chunks[c] \in Seq(Symbols)
                         /\ reads[c] = Decode(chunks[c]) /\ reads[c] \in Seq(Characters)
                         /\ texts[c] = texts[c - 1] \o reads[c]
      /\ \A c \in 0..N : texts[c] \in Seq(Characters)
  <2>1. N \in Nat /\ \A c \in 1..N : chunks[c] \in Seq(Symbols)
    OBVIOUS
  <2>2. at[0] = EmptyLog /\ \A c \in 1..N : at[c] = Accept(at[c - 1], chunks[c])
    BY <1>1, MonitoringRuns
  <2>4. /\ reads \in Seq(Seq(Characters)) /\ Len(reads) = N
        /\ \A c \in 1..N : reads[c] = Decode(chunks[c]) /\ reads[c] \in Seq(Characters)
    BY ReadsOf
  <2>3. /\ texts[0] = <<>> /\ \A c \in 1..N : texts[c] = texts[c - 1] \o reads[c]
        /\ \A c \in 0..N : texts[c] \in Seq(Characters)
    BY <1>1, <2>4, TextRuns
  <2> HIDE DEF N
  <2> QED
    BY <2>1, <2>2, <2>3, <2>4
<1>3. text = texts[N] /\ text \in Seq(Characters) /\ Len(text) \in Nat
  BY <1>1, <1>2
<1>4. \A c \in 0..N : Len(texts[c]) <= Len(text) /\ \A i \in 1..Len(texts[c]) : text[i] = texts[c][i]
  <2>0. reads \in Seq(Seq(Characters)) /\ Len(reads) = N
    BY ReadsOf
  <2>1. \A c \in 0..N : Within(texts[c], texts[N])
    BY <1>1, <2>0, TextGrows
  <2> HIDE DEF N
  <2> QED
    BY <1>3, <2>1 DEF Within
<1> HIDE DEF N
<1> DEFINE T == {c \in 0..N : Tells(text, Len(texts[c]), at[c])}
<1>5. 0 \in T
  <2>1. <<>> \in Seq(Seq(Characters)) /\ <<>> \in Seq(Characters) /\ <<>> \in Seq(Nat) /\ Len(<<>>) = 0
    OBVIOUS
  <2>2. EmptyLog \in LogState /\ FindingsAreRight(EmptyLog)
    BY <2>1 DEF EmptyLog, LogState, FindingsAreRight
  <2>3. FeedsTo(text, 0) = {}
    BY <1>3 DEF FeedsTo, Feeds
  <2>4. Begins(text, 0, 1) /\ SubSeq(text, 1, 0) = <<>>
    BY SubSeqEmpty DEF Begins, Feeds
  <2>5. Tells(text, 0, EmptyLog)
    BY <2>2, <2>3, <2>4, FS_EmptySet DEF Tells, EmptyLog
  <2> QED
    BY <1>2, <2>1, <2>5
<1>6. ASSUME NEW c \in 1..N, c - 1 \in T PROVE c \in T
  <2> DEFINE n == Len(texts[c - 1])
             chunk == chunks[c]
             read == reads[c]
  <2>1. /\ texts[c - 1] \in Seq(Characters) /\ texts[c] \in Seq(Characters)
        /\ chunk \in Seq(Symbols) /\ read = Decode(chunk) /\ read \in Seq(Characters)
        /\ texts[c] = texts[c - 1] \o read /\ at[c] = Accept(at[c - 1], chunk)
        /\ c \in 0..N /\ c - 1 \in 0..N
    <3>1. c \in 0..N /\ c - 1 \in 0..N
      BY <1>2
    <3> QED
      BY <1>2, <3>1
  <2>2. /\ Len(texts[c]) = n + Len(read) /\ n \in Nat /\ Len(read) \in Nat
        /\ \A i \in 1..Len(read) : texts[c][n + i] = read[i]
    <3> HIDE DEF read
    <3>1. IsJoined(texts[c], texts[c - 1], read)
      BY <2>1, Joined
    <3> QED
      BY <3>1 DEF IsJoined
  <2>3. n \in Nat /\ n \in 0..Len(text) /\ n + Len(read) <= Len(text)
    <3>1. Len(texts[c - 1]) <= Len(text) /\ Len(texts[c]) <= Len(text)
      BY <1>4, <2>1
    <3> HIDE DEF read
    <3> QED
      BY <1>3, <2>2, <3>1
  <2>4. \A i \in 1..Len(read) : text[n + i] = read[i]
    <3> SUFFICES ASSUME NEW i \in 1..Len(read) PROVE text[n + i] = read[i]
      OBVIOUS
    <3>1. n + i \in 1..Len(texts[c])
      <4> HIDE DEF n, chunk, read
      <4> QED
        BY <2>2
    <3> QED
      BY <1>4, <2>1, <2>2, <3>1
  <2>5. Tells(text, n, at[c - 1])
    BY <1>6
  <2> HIDE DEF n, chunk, read
  <2>6. Tells(text, n + Len(read), Accept(at[c - 1], chunk))
    BY <1>3, <2>1, <2>3, <2>4, <2>5, ChunkAccepted
  <2> QED
    BY <2>1, <2>2, <2>6
<1> HIDE DEF T
<1>7. 0..N \subseteq T
  BY <1>2, <1>5, <1>6, UpTo, Zenon
<1>8. N \in T
  BY <1>2, <1>7
<1> QED
  BY <1>1, <1>3, <1>8 DEF T, N

\* The lines and the findings are those of the text that was read.
LEMMA TextRead ==
  ASSUME NEW chunks \in Seq(Seq(Symbols))
  PROVE  LET text  == TextAfter(Reads(chunks))[Len(chunks)]
             final == Monitored(chunks)
         IN  /\ text \in Seq(Characters)
             /\ final \in LogState /\ FindingsAreRight(final)
             /\ Len(final.lines) = Cardinality(Ends(text))
             /\ \A end \in Ends(text) : final.lines[LineNumber(text, end)] = LineOf(text, end)
<1> DEFINE text == TextAfter(Reads(chunks))[Len(chunks)]
           log == Monitoring(chunks)[Len(chunks)]
           final == Monitored(chunks)
           n == Len(text)
<1>1. text \in Seq(Characters) /\ Tells(text, n, log)
  BY AllChunks
<1>2. final = Flush(log)
  BY DEF Monitored
<1> HIDE DEF text, log, final
<1>3. /\ log \in LogState /\ FindingsAreRight(log) /\ <<>> \in Seq(Characters)
      /\ log.partial \in Seq(Characters) /\ log.lines \in Seq(Seq(Characters))
      /\ Len(log.lines) = Cardinality(FeedsTo(text, n))
      /\ \A e \in FeedsTo(text, n) : log.lines[Cardinality(FeedsTo(text, e))] = LineOf(text, e)
  <2>1. log \in LogState
    BY <1>1 DEF Tells
  <2>2. log.partial \in Seq(Characters) /\ log.lines \in Seq(Seq(Characters))
    BY <2>1 DEF LogState
  <2>3. <<>> \in Seq(Characters)
    OBVIOUS
  <2> QED
    BY <1>1, <2>2, <2>3 DEF Tells
<1>4. PICK b : Begins(text, n, b) /\ log.partial = SubSeq(text, b, n)
  BY <1>1 DEF Tells
<1>5. n \in Nat /\ n \in 0..Len(text) /\ b \in 1..(n + 1) /\ \A j \in Feeds(text) : j \in 1..n
  BY <1>1, <1>4 DEF Begins, Feeds
<1>6. /\ FeedsTo(text, n) = Feeds(text) /\ IsFiniteSet(Feeds(text)) /\ Cardinality(Feeds(text)) \in Nat
      /\ \A e \in Feeds(text) : Cardinality(FeedsTo(text, e)) \in 1..Cardinality(Feeds(text))
  <2>1. FeedsTo(text, n) = Feeds(text)
    BY <1>5 DEF FeedsTo
  <2> QED
    BY <1>1, <1>5, <2>1, FeedsCounted
<1>7. log.partial = <<>> <=> Ends(text) = Feeds(text)
  <2>1. log.partial = <<>> <=> b = n + 1
    <3>1. Len(log.partial) = IF b <= n THEN n - b + 1 ELSE 0
      <4>1. \A i \in b..n : text[i] \in Characters
        BY <1>1, <1>5
      <4> QED
        BY <1>4, <1>5, <4>1, SubSeqProperties
    <3> QED
      BY <1>3, <1>5, <3>1
  <2>2. b = n + 1 <=> ~(text # <<>> /\ Last(text) # "lf")
    <3>1. text = <<>> <=> n = 0
      BY <1>1
    <3>2. n # 0 => (Last(text) = "lf" <=> n \in Feeds(text))
      BY <1>5 DEF Last, Feeds
    <3>3. b = n + 1 <=> n = 0 \/ n \in Feeds(text)
      BY <1>4, <1>5 DEF Begins
    <3> QED
      BY <3>1, <3>2, <3>3
  <2>3. Ends(text) = Feeds(text) <=> ~(text # <<>> /\ Last(text) # "lf")
    <3>1. n + 1 \notin Feeds(text)
      BY <1>5
    <3> QED
      BY <3>1 DEF Ends, n
  <2> QED
    BY <2>1, <2>2, <2>3
<1>8. /\ final \in LogState /\ FindingsAreRight(final)
      /\ Len(final.lines) = Cardinality(Ends(text))
      /\ \A end \in Ends(text) : final.lines[LineNumber(text, end)] = LineOf(text, end)
  <2>1. CASE log.partial = <<>>
    <3>1. final = [log EXCEPT !.partial = <<>>]
      BY <1>2, <2>1 DEF Flush
    <3>2. final \in LogState /\ final.lines = log.lines /\ final.findings = log.findings
      BY <1>3, <3>1 DEF LogState
    <3>3. FindingsAreRight(final)
      BY <1>3, <3>2 DEF FindingsAreRight
    <3>4. \A end \in Ends(text) : LineNumber(text, end) = Cardinality(FeedsTo(text, end))
      BY <1>7, <2>1 DEF LineNumber, FeedsTo
    <3> QED
      BY <1>3, <1>6, <1>7, <2>1, <3>2, <3>3, <3>4
  <2>2. CASE log.partial # <<>>
    <3> DEFINE accepted == AcceptLine(log, log.partial)
               last == n + 1
    <3>1. final = [accepted EXCEPT !.partial = <<>>]
      BY <1>2, <2>2 DEF Flush
    <3>2. /\ accepted \in LogState /\ FindingsAreRight(accepted)
          /\ accepted.lines = Append(log.lines, log.partial)
      BY <1>3, LineAccepted
    <3> HIDE DEF accepted
    <3>3. final \in LogState /\ final.lines = accepted.lines /\ final.findings = accepted.findings
      BY <1>3, <3>1, <3>2 DEF LogState
    <3>4. FindingsAreRight(final)
      BY <3>2, <3>3 DEF FindingsAreRight
    <3>5. Ends(text) = Feeds(text) \union {last} /\ last \notin Feeds(text)
      <4>1. Ends(text) # Feeds(text)
        BY <1>7, <2>2
      <4> QED
        BY <1>5, <4>1 DEF Ends, n
    <3>6. Cardinality(Ends(text)) = Cardinality(Feeds(text)) + 1
      BY <1>6, <3>5, FS_AddElement
    <3>7. /\ Len(final.lines) = Cardinality(Feeds(text)) + 1
          /\ final.lines[Cardinality(Feeds(text)) + 1] = log.partial
          /\ \A i \in 1..Cardinality(Feeds(text)) : final.lines[i] = log.lines[i]
      BY <1>3, <1>6, <3>2, <3>3
    <3>8. LineOf(text, last) = log.partial
      BY <1>1, <1>4, <1>5, <3>5, LineFrom
    <3>9. LineNumber(text, last) = Cardinality(Ends(text))
      <4>1. {e \in Ends(text) : e <= last} = Ends(text)
        BY <1>5, <3>5
      <4> QED
        BY <4>1 DEF LineNumber
    <3>10. ASSUME NEW end \in Feeds(text)
           PROVE  final.lines[LineNumber(text, end)] = LineOf(text, end)
      <4>1. {e \in Ends(text) : e <= end} = FeedsTo(text, end)
        BY <1>5, <3>5 DEF FeedsTo
      <4>2. LineNumber(text, end) = Cardinality(FeedsTo(text, end))
        BY <4>1 DEF LineNumber
      <4> QED
        BY <1>3, <1>6, <3>7, <4>2
    <3> HIDE DEF last
    <3> QED
      BY <3>3, <3>4, <3>5, <3>6, <3>7, <3>8, <3>9, <3>10
  <2> QED
    BY <2>1, <2>2
<1> QED
  BY <1>1, <1>8, Zenon DEF text, final

\* What was read of each chunk is what it says, but for the characters that
\* the cuts around it divide.
NotDivided(text, n) ==
  n \in 1..(Len(text) - 1) => ~(text[n] = "b1" /\ text[n + 1] = "b2")

LEMMA StrayInText ==
  ASSUME NEW text \in Seq(Symbols), NEW chunk \in Seq(Symbols), NEW n \in Nat,
         n + Len(chunk) <= Len(text), \A i \in 1..Len(chunk) : text[n + i] = chunk[i],
         NotDivided(text, n), NotDivided(text, n + Len(chunk)),
         NEW i \in 1..Len(chunk)
  PROVE  Stray(chunk, i) <=> Stray(text, n + i)
<1>1. /\ Len(text) \in Nat /\ Len(chunk) \in Nat /\ n + i \in 1..Len(text)
      /\ text[n + i] = chunk[i] /\ i \in Nat
  OBVIOUS
<1>2. ASSUME chunk[i] = "b1"
      PROVE  (i = Len(chunk) \/ chunk[i + 1] # "b2") <=> (n + i = Len(text) \/ text[n + i + 1] # "b2")
  <2>1. CASE i = Len(chunk)
    <3>1. n + i = Len(text) \/ n + i \in 1..(Len(text) - 1)
      BY <1>1
    <3> QED
      BY <1>1, <1>2, <2>1, <3>1 DEF NotDivided
  <2>2. CASE i # Len(chunk)
    <3>1. i + 1 \in 1..Len(chunk) /\ n + i # Len(text) /\ n + (i + 1) = n + i + 1
      BY <1>1, <2>2
    <3>2. text[n + i + 1] = chunk[i + 1]
      BY <3>1
    <3> QED
      BY <2>2, <3>1, <3>2
  <2> QED
    BY <2>1, <2>2
<1>3. ASSUME chunk[i] = "b2"
      PROVE  (i = 1 \/ chunk[i - 1] # "b1") <=> (n + i = 1 \/ text[n + i - 1] # "b1")
  <2>1. CASE i = 1
    <3>1. n + i - 1 = n /\ (n + i = 1 \/ (n \in 1..(Len(text) - 1) /\ n + i = n + 1))
      BY <1>1, <2>1
    <3> QED
      BY <1>1, <1>3, <2>1, <3>1 DEF NotDivided
  <2>2. CASE i # 1
    <3>1. i - 1 \in 1..Len(chunk) /\ n + i # 1 /\ n + (i - 1) = n + i - 1
      BY <1>1, <2>2
    <3>2. text[n + i - 1] = chunk[i - 1]
      BY <3>1
    <3> QED
      BY <2>2, <3>1, <3>2
  <2> QED
    BY <2>1, <2>2
<1> QED
  BY <1>1, <1>2, <1>3 DEF Stray

\* What is read of the first n symbols of a text.
ReadTo(read, text, n, whole) ==
  /\ Len(read) = n
  /\ \A i \in 1..n : /\ read[i] = text[i] \/ (read[i] = "bad" /\ text[i] \in {"b1", "b2"})
                     /\ whole => read[i] = IF Stray(text, i) THEN "bad" ELSE text[i]

LEMMA ChunkRead ==
  ASSUME NEW text \in Seq(Symbols), NEW chunk \in Seq(Symbols), NEW n \in Nat,
         n + Len(chunk) <= Len(text), \A i \in 1..Len(chunk) : text[n + i] = chunk[i],
         NEW whole \in BOOLEAN,
         whole => NotDivided(text, n) /\ NotDivided(text, n + Len(chunk)),
         NEW before \in Seq(Characters), ReadTo(before, text, n, whole),
         NEW read, read = before \o Decode(chunk)
  PROVE  ReadTo(read, text, n + Len(chunk), whole)
<1>1. /\ Decode(chunk) \in Seq(Characters) /\ Len(Decode(chunk)) = Len(chunk)
      /\ \A i \in 1..Len(chunk) :
           /\ Decode(chunk)[i] = IF Stray(chunk, i) THEN "bad" ELSE chunk[i]
           /\ Stray(chunk, i) => chunk[i] \in {"b1", "b2"}
  BY Decoded
<1>2. IsJoined(read, before, Decode(chunk))
  BY <1>1, Joined
<1> DEFINE decoded == Decode(chunk)
<1> HIDE DEF decoded
<1>3. /\ Len(before) = n /\ Len(chunk) \in Nat /\ Len(read) = n + Len(chunk)
      /\ \A i \in 1..n : read[i] = before[i]
      /\ \A i \in 1..Len(chunk) : read[n + i] = decoded[i]
  BY <1>1, <1>2 DEF IsJoined, ReadTo, decoded
<1>4. ASSUME NEW i \in 1..Len(chunk)
      PROVE  /\ read[n + i] = text[n + i] \/ (read[n + i] = "bad" /\ text[n + i] \in {"b1", "b2"})
             /\ whole => read[n + i] = IF Stray(text, n + i) THEN "bad" ELSE text[n + i]
  <2>1. /\ read[n + i] = IF Stray(chunk, i) THEN "bad" ELSE chunk[i]
        /\ text[n + i] = chunk[i] /\ (Stray(chunk, i) => chunk[i] \in {"b1", "b2"})
    BY <1>1, <1>3 DEF decoded
  <2>2. whole => (Stray(chunk, i) <=> Stray(text, n + i))
    BY StrayInText
  <2> QED
    BY <2>1, <2>2, Zenon
<1>5. ASSUME NEW j \in 1..(n + Len(chunk))
      PROVE  /\ read[j] = text[j] \/ (read[j] = "bad" /\ text[j] \in {"b1", "b2"})
             /\ whole => read[j] = IF Stray(text, j) THEN "bad" ELSE text[j]
  <2>1. CASE j \in 1..n
    BY <1>3, <2>1 DEF ReadTo
  <2>2. CASE j \notin 1..n
    <3>1. j - n \in 1..Len(chunk) /\ n + (j - n) = j
      BY <1>3, <2>2
    <3> DEFINE i == j - n
    <3> HIDE DEF i
    <3>2. i \in 1..Len(chunk) /\ j = n + i
      BY <3>1 DEF i
    <3> QED
      BY <1>4, <3>2
  <2> QED
    BY <2>1, <2>2
<1> QED
  BY <1>3, <1>5 DEF ReadTo

LEMMA ReadAlike ==
  ASSUME NEW chunks \in Seq(Seq(Symbols))
  PROVE  LET text == TextAfter(chunks)[Len(chunks)]
             read == TextAfter(Reads(chunks))[Len(chunks)]
         IN  /\ text \in Seq(Symbols) /\ read \in Seq(Characters) /\ Alike(read, text)
             /\ CharactersAreWhole(chunks) => read = Decode(text)
<1> DEFINE N == Len(chunks)
           reads == Reads(chunks)
           at == TextAfter(chunks)
           seen == TextAfter(reads)
           text == at[N]
           whole == CharactersAreWhole(chunks) = TRUE
<1>1. /\ reads \in Seq(Seq(Characters)) /\ Len(reads) = N
      /\ \A c \in 1..N : reads[c] = Decode(chunks[c])
  BY ReadsOf
<1>2. N \in Nat /\ \A c \in 1..N : chunks[c] \in Seq(Symbols)
  OBVIOUS
<1>3. /\ at[0] = <<>> /\ \A c \in 1..N : at[c] = at[c - 1] \o chunks[c]
      /\ \A c \in 0..N : at[c] \in Seq(Symbols)
  BY TextRuns
<1> HIDE DEF reads
<1>4. /\ seen[0] = <<>> /\ \A c \in 1..N : seen[c] = seen[c - 1] \o reads[c]
      /\ \A c \in 0..N : seen[c] \in Seq(Characters)
  <2> DEFINE M == Len(reads)
  <2>1. /\ seen[0] = <<>> /\ \A c \in 1..M : seen[c] = seen[c - 1] \o reads[c]
        /\ \A c \in 0..M : seen[c] \in Seq(Characters)
    BY <1>1, TextRuns
  <2> HIDE DEF seen
  <2> QED
    BY <1>1, <2>1
<1>5. \A c \in 0..N : Within(at[c], text)
  BY TextGrows
<1>6. whole => \A c \in 0..N : NotDivided(text, Len(at[c]))
  <2> SUFFICES ASSUME whole, NEW c \in 0..N PROVE NotDivided(text, Len(at[c]))
    OBVIOUS
  <2>1. CASE c = 0
    BY <1>3, <2>1 DEF NotDivided
  <2>2. CASE c # 0
    <3>1. c \in 1..N
      BY <1>2, <2>2
    <3>2. CharactersAreWhole(chunks)
      OBVIOUS
    <3> QED
      BY <3>1, <3>2 DEF CharactersAreWhole, NotDivided
  <2> QED
    BY <2>1, <2>2
<1>7. whole \in BOOLEAN /\ text \in Seq(Symbols) /\ seen[N] \in Seq(Characters)
  <2>1. N \in 0..N
    BY <1>2
  <2> QED
    BY <1>3, <1>4, <2>1
<1>8. CharactersAreWhole(chunks) => whole
  BY DEF CharactersAreWhole
<1> HIDE DEF N, at, seen, text, whole
<1> DEFINE T == {c \in 0..N : ReadTo(seen[c], text, Len(at[c]), whole)}
<1>9. 0 \in T
  BY <1>2, <1>3, <1>4 DEF ReadTo
<1>10. ASSUME NEW c \in 1..N, c - 1 \in T PROVE c \in T
  <2>1. c \in 0..N /\ c - 1 \in 0..N
    BY <1>2
  <2> DEFINE chunk == chunks[c]
             n == Len(at[c - 1])
  <2>2. /\ chunk \in Seq(Symbols) /\ at[c - 1] \in Seq(Symbols) /\ at[c] = at[c - 1] \o chunk
        /\ seen[c - 1] \in Seq(Characters) /\ seen[c] = seen[c - 1] \o Decode(chunk)
        /\ ReadTo(seen[c - 1], text, n, whole)
    BY <1>1, <1>2, <1>3, <1>4, <1>10, <2>1
  <2> HIDE DEF chunk
  <2>3. IsJoined(at[c], at[c - 1], chunk)
    BY <2>2, Joined
  <2> HIDE DEF n
  <2>4. /\ n \in Nat /\ Len(chunk) \in Nat /\ Len(at[c]) = n + Len(chunk)
        /\ \A i \in 1..Len(chunk) : at[c][n + i] = chunk[i]
    BY <2>3 DEF IsJoined, n
  <2>5. n + Len(chunk) <= Len(text) /\ \A i \in 1..Len(chunk) : text[n + i] = chunk[i]
    <3>1. Len(at[c]) <= Len(text) /\ \A i \in 1..Len(at[c]) : text[i] = at[c][i]
      BY <1>5, <2>1 DEF Within
    <3>2. \A i \in 1..Len(chunk) : n + i \in 1..Len(at[c])
      BY <2>4
    <3> QED
      BY <2>4, <3>1, <3>2
  <2>6. whole => NotDivided(text, n) /\ NotDivided(text, n + Len(chunk))
    BY <1>6, <2>1, <2>4 DEF n
  <2>7. ReadTo(seen[c], text, n + Len(chunk), whole)
    BY <1>7, <2>2, <2>4, <2>5, <2>6, ChunkRead
  <2> QED
    BY <2>1, <2>4, <2>7
<1> HIDE DEF T
<1>11. 0..N \subseteq T
  BY <1>2, <1>9, <1>10, UpTo, Zenon
<1>12. ReadTo(seen[N], text, Len(text), whole)
  <2>1. N \in T
    BY <1>2, <1>11
  <2> QED
    BY <2>1 DEF T, text
<1>13. Alike(seen[N], text)
  BY <1>12 DEF ReadTo, Alike
<1>14. ASSUME whole PROVE seen[N] = Decode(text)
  <2>1. /\ Len(seen[N]) = Len(text)
        /\ \A i \in 1..Len(text) : seen[N][i] = IF Stray(text, i) THEN "bad" ELSE text[i]
    BY <1>12, <1>14 DEF ReadTo
  <2>2. /\ Decode(text) \in Seq(Characters) /\ Len(Decode(text)) = Len(text)
        /\ \A i \in 1..Len(text) : Decode(text)[i] = IF Stray(text, i) THEN "bad" ELSE text[i]
    BY <1>7, Decoded
  <2> DEFINE s == seen[N]
             d == Decode(text)
  <2>3. s \in Seq(Characters) /\ d \in Seq(Characters) /\ Len(s) = Len(d)
    BY <1>7, <2>1, <2>2
  <2>4. \A i \in 1..Len(s) : s[i] = d[i]
    BY <2>1, <2>2
  <2> HIDE DEF s, d
  <2>5. s = d
    BY <2>3, <2>4, SeqEqual
  <2> QED
    BY <2>5 DEF s, d
<1> QED
  BY <1>7, <1>8, <1>13, <1>14 DEF N, at, seen, reads, text

\* Alike texts have alike lines.
LEMMA PieceAlike ==
  ASSUME NEW text \in Seq(Characters), NEW read \in Seq(Characters), Alike(read, text),
         NEW n \in 0..Len(text), NEW b \in 1..(n + 1)
  PROVE  /\ SubSeq(text, b, n) \in Seq(Characters) /\ SubSeq(read, b, n) \in Seq(Characters)
         /\ Alike(SubSeq(read, b, n), SubSeq(text, b, n))
<1>1. Len(read) = Len(text) /\ Len(text) \in Nat /\ n \in Nat /\ b \in Nat
  BY DEF Alike
<1>2. (\A i \in b..n : text[i] \in Characters) /\ (\A i \in b..n : read[i] \in Characters)
  BY <1>1
<1> DEFINE k == IF b <= n THEN n - b + 1 ELSE 0
           s == SubSeq(text, b, n)
           r == SubSeq(read, b, n)
<1>3. /\ s \in Seq(Characters) /\ Len(s) = k /\ \A i \in 1..(n - b + 1) : s[i] = text[b + i - 1]
  BY <1>1, <1>2, SubSeqProperties
<1>4. /\ r \in Seq(Characters) /\ Len(r) = k /\ \A i \in 1..(n - b + 1) : r[i] = read[b + i - 1]
  BY <1>1, <1>2, SubSeqProperties
<1>5. k = n - b + 1 /\ \A i \in 1..k : b + i - 1 \in 1..Len(text)
  BY <1>1
<1> HIDE DEF s, r, k
<1>6. Alike(r, s)
  BY <1>3, <1>4, <1>5 DEF Alike
<1> QED
  BY <1>3, <1>4, <1>6 DEF s, r

LEMMA ChompAlike ==
  ASSUME NEW text \in Seq(Characters), NEW read \in Seq(Characters), Alike(read, text)
  PROVE  Alike(Chomp(read), Chomp(text))
<1>1. Len(read) = Len(text) /\ Len(text) \in Nat /\ (read = <<>> <=> text = <<>>)
  BY DEF Alike
<1>2. text # <<>> => (Last(read) = "cr" <=> Last(text) = "cr")
  BY <1>1 DEF Alike, Last
<1>3. ASSUME text # <<>> PROVE Alike(Front(read), Front(text))
  <2>1. Len(text) - 1 \in 0..Len(text) /\ 1 \in 1..(Len(text) - 1 + 1)
    BY <1>1, <1>3
  <2> QED
    BY <1>1, <2>1, PieceAlike DEF Front
<1> QED
  BY <1>1, <1>2, <1>3 DEF Chomp

LEMMA LineBegins ==
  ASSUME NEW text \in Seq(Characters)
  PROVE  \A n \in 0..Len(text) : \E b : Begins(text, n, b)
<1> DEFINE N == Len(text)
           T == {n \in 0..N : \E b : Begins(text, n, b)}
<1>1. N \in Nat
  OBVIOUS
<1>2. 0 \in T
  <2>1. Begins(text, 0, 1)
    BY DEF Begins, Feeds
  <2> QED
    BY <1>1, <2>1
<1>3. ASSUME NEW n \in 1..N, n - 1 \in T PROVE n \in T
  <2>1. CASE text[n] = "lf"
    <3>1. n \in Feeds(text) /\ n + 1 - 1 = n /\ \A j \in Feeds(text) : j <= n => j < n + 1
      BY <2>1 DEF Feeds
    <3>2. Begins(text, n, n + 1)
      BY <1>1, <3>1 DEF Begins
    <3> QED
      BY <1>1, <3>2
  <2>2. CASE text[n] # "lf"
    <3>1. PICK b : Begins(text, n - 1, b)
      BY <1>3
    <3>2. \A j \in Feeds(text) : j <= n => j <= n - 1
      BY <2>2 DEF Feeds
    <3>3. Begins(text, n, b)
      BY <1>1, <3>1, <3>2 DEF Begins
    <3> QED
      BY <1>1, <3>3
  <2> QED
    BY <2>1, <2>2
<1> HIDE DEF T
<1>4. 0..N \subseteq T
  BY <1>1, <1>2, <1>3, UpTo, Zenon
<1> QED
  BY <1>4 DEF T, N

LEMMA LinesAlike ==
  ASSUME NEW text \in Seq(Characters), NEW read \in Seq(Characters), Alike(read, text)
  PROVE  /\ Ends(read) = Ends(text)
         /\ \A end \in Ends(text) : Alike(LineOf(read, end), LineOf(text, end))
<1>1. Len(read) = Len(text) /\ Len(text) \in Nat /\ (read = <<>> <=> text = <<>>)
  BY DEF Alike
<1>2. Feeds(read) = Feeds(text)
  BY <1>1 DEF Alike, Feeds
<1>3. text # <<>> => (Last(read) = "lf" <=> Last(text) = "lf")
  BY <1>1 DEF Alike, Last
<1>4. Ends(read) = Ends(text)
  BY <1>1, <1>2, <1>3 DEF Ends
<1>5. ASSUME NEW end \in Ends(text) PROVE Alike(LineOf(read, end), LineOf(text, end))
  <2> DEFINE n == end - 1
  <2>1. n \in 0..Len(text) /\ n \in 0..Len(read) /\ n + 1 = end
    BY <1>1 DEF Ends, Feeds
  <2> HIDE DEF n
  <2>2. PICK b : Begins(text, n, b)
    BY <2>1, LineBegins
  <2>3. Begins(read, n, b) /\ b \in 1..(n + 1)
    BY <1>2, <2>2 DEF Begins
  <2> DEFINE s == SubSeq(text, b, n)
             r == SubSeq(read, b, n)
  <2>4. LineOf(text, end) = IF end \in Feeds(text) THEN Chomp(s) ELSE s
    BY <2>1, <2>2, LineFrom
  <2>5. LineOf(read, end) = IF end \in Feeds(text) THEN Chomp(r) ELSE r
    BY <1>2, <2>1, <2>3, LineFrom
  <2>6. s \in Seq(Characters) /\ r \in Seq(Characters) /\ Alike(r, s)
    BY <2>1, <2>3, PieceAlike
  <2> HIDE DEF s, r
  <2>7. Alike(Chomp(r), Chomp(s))
    BY <2>6, ChompAlike
  <2> QED
    BY <2>4, <2>5, <2>6, <2>7
<1> QED
  BY <1>4, <1>5

\* Of any output, cut into any chunks: the lines and the findings are those of
\* the whole text, in which a cut damages no more than the character it divides
\* (accept() and flush() of src/log-monitor.ts).
THEOREM ChunksMakeNoDifference ==
  ASSUME NEW chunks \in Seq(Seq(Symbols))
  PROVE  ChunkingDoesNotMatter(chunks)
<1> DEFINE text == TextAfter(chunks)[Len(chunks)]
           read == TextAfter(Reads(chunks))[Len(chunks)]
           final == Monitored(chunks)
<1>1. /\ text \in Seq(Symbols) /\ read \in Seq(Characters) /\ Alike(read, text)
      /\ CharactersAreWhole(chunks) => read = Decode(text)
  BY ReadAlike
<1>2. /\ final \in LogState /\ FindingsAreRight(final)
      /\ Len(final.lines) = Cardinality(Ends(read))
      /\ \A end \in Ends(read) : final.lines[LineNumber(read, end)] = LineOf(read, end)
  BY TextRead
<1> HIDE DEF text, read, final
<1>3. text \in Seq(Characters)
  <2>1. Symbols \subseteq Characters
    BY DEF Characters
  <2> QED
    BY <1>1, <2>1
<1>4. /\ Ends(read) = Ends(text)
      /\ \A end \in Ends(text) : Alike(LineOf(read, end), LineOf(text, end))
  BY <1>1, <1>3, LinesAlike
<1>5. \A end : LineNumber(read, end) = LineNumber(text, end)
  BY <1>4 DEF LineNumber
<1>6. /\ Len(final.lines) = Cardinality(Ends(text))
      /\ \A end \in Ends(text) : Alike(final.lines[LineNumber(text, end)], LineOf(text, end))
      /\ CharactersAreWhole(chunks) => \A end \in Ends(text) :
           final.lines[LineNumber(text, end)] = LineOf(Decode(text), end)
  BY <1>1, <1>2, <1>4, <1>5
<1>7. \A m \in 1..Len(final.lines) :
        (\E i \in DOMAIN final.findings : final.findings[i] = m) <=>
          \/ Contains(final.lines[m], "E")
          \/ final.lines[m] = <<"F">> /\ (m = 1 \/ final.lines[m - 1] # <<"S">>)
  BY <1>2 DEF FindingsAreRight, IsFound
<1> QED
  BY <1>6, <1>7, Zenon DEF ChunkingDoesNotMatter, text, final

-----------------------------------------------------------------------------
(* The questions of Documents, of any sets of them *)

LEMMA Questions == Spec => []SomeQuestion
<1>1. Init => SomeQuestion
  BY DEF Init
<1>2. SomeQuestion /\ [Next]_vars => SomeQuestion'
  BY DEF SomeQuestion, Question, Next, vars
<1> QED
  BY <1>1, <1>2, PTL DEF Spec

\* A directory that the audit of the production manifest passes resolves, each
\* of its files to one mod (auditModsDirectory() and
\* resolveProductionArtifacts() of src/production-manifest.ts).
THEOREM EveryDirectory == Spec => []DirectoriesResolve
<1>1. SomeQuestion => DirectoriesResolve
  BY AuditedDirectoryResolves DEF DirectoriesResolve
<1> QED
  BY <1>1, Questions, PTL

\* What interop() launches is what was tested, whatever happens to the
\* directory between the audit and the resolution (interop() of src/cli.ts).
THEOREM EveryInterop == Spec => []InteropIsTested
<1>1. SomeQuestion => InteropIsTested
  <2> SUFFICES ASSUME SomeQuestion, input.kind = "interop"
               PROVE  LaunchedAsTested(input.of.manifest, input.of.targets,
                        Interop(input.of.manifest, input.of.targets, input.of.pins,
                                input.of.audited, input.of.later))
    BY DEF InteropIsTested
  <2>1. input.of \in Interops
    BY DEF SomeQuestion, Question
  <2>2. ValidMods(input.of.manifest.mods)
    BY <2>1, DocumentsAssumption
  <2> QED
    BY <2>2, InteropLaunchesTested
<1> QED
  BY <1>1, Questions, PTL

\* A valid matrix is backed by scenarios, bindings and targets, and a ready one
\* by enabled mods of the tested versions (auditRaidSafetyMatrix() of
\* src/raid-safety-matrix.ts).
THEOREM EveryMatrix == Spec => []MatrixIsBacked
<1>1. SomeQuestion => MatrixIsBacked
  <2> SUFFICES ASSUME SomeQuestion, input.kind = "matrix"
               PROVE  VerdictsAreBacked(input.of.matrix, input.of.catalog, input.of.mods,
                                        input.of.targets)
    BY DEF MatrixIsBacked
  <2>1. input.of \in Matrices
    BY DEF SomeQuestion, Question
  <2>2. ValidMatrix(input.of.matrix)
    BY <2>1, DocumentsAssumption
  <2> QED
    BY <2>2, MatrixVerdictsHold
<1> QED
  BY <1>1, Questions, PTL

\* However an output is cut into chunks, its lines and findings are those of
\* the whole (class LogMonitor of src/log-monitor.ts).
THEOREM EveryOutput == Spec => []LinesAreWhole
<1>1. SomeQuestion => LinesAreWhole
  <2> SUFFICES ASSUME SomeQuestion, input.kind = "log" PROVE ChunkingDoesNotMatter(input.of)
    BY DEF LinesAreWhole
  <2>1. input.of \in Outputs
    BY DEF SomeQuestion, Question
  <2>2. input.of \in Seq(Seq(Symbols))
    BY <2>1, DocumentsAssumption
  <2> QED
    BY <2>2, ChunksMakeNoDifference
<1> QED
  BY <1>1, Questions, PTL

\* Exit code 0 of a portfolio is earned, and its report complete
\* (runPortfolio() of src/portfolio.ts).
THEOREM EveryPortfolio == Spec => []PortfolioIsJust
<1>1. SomeQuestion => PortfolioIsJust
  <2> SUFFICES ASSUME SomeQuestion, input.kind = "portfolio"
               PROVE  /\ ExitZeroIsEarned(input.of.targets, input.of.javas)
                      /\ ReportIsComplete(input.of.targets, input.of.javas)
    BY DEF PortfolioIsJust
  <2>1. input.of \in Portfolios
    BY DEF SomeQuestion, Question
  <2>2. ValidCatalog(input.of.targets, input.of.javas)
    BY <2>1, DocumentsAssumption
  <2> QED
    BY <2>2, PortfolioIsEarned
<1> QED
  BY <1>1, Questions, PTL
===============================================================================
