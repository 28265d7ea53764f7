----------------------------- MODULE MCDocuments -----------------------------
\* Documents for every document, output and catalog of small sets.
EXTENDS Documents, FiniteSets

\* Three mods and files of which two differ in case alone.
Mod(id, enabled, locator) == [id |-> id, modId |-> id, enabled |-> enabled, locator |-> locator]
ModsOf(ids)  == {Mod(id, e, l) : id \in ids, e \in BOOLEAN, l \in SUBSET {"j", "k"}}
Jars         == {[name |-> "J.jar", lower |-> "j"], [name |-> "j.jar", lower |-> "j"],
                 [name |-> "k.jar", lower |-> "k"]}
SomeDirectories ==
  [files : SUBSET Jars,
   mods : {{a, b, c} : a \in ModsOf({"a"}), b \in ModsOf({"b"}), c \in ModsOf({"c"})}]

\* One mod beside Fabric API, a directory that changes after its audit.
Pins == [minecraft |-> "v", loader |-> "v", fabricApi |-> "v1"]
Api  == [id |-> "api", modId |-> "fabric-api", owner |-> "third-party", enabled |-> TRUE,
         version |-> "v1", locator |-> {"api"}, tokens |-> {"v1"}, repository |-> None,
         target |-> None]
Versions   == {None, "v1", "v2"}
TokenSets  == {{}, {"v1"}, {"v1", "v2"}}
Consumers  == [id : {"m"}, modId : {"m"}, owner : {"first-party", "third-party"},
               enabled : BOOLEAN, version : Versions, locator : {{}, {"m"}, {"m", "n"}},
               tokens : TokenSets, repository : {"r"}, target : {None, "t", "u"}]
Files(names) == {[name |-> n, lower |-> n] : n \in names}
SomeInterops ==
  [manifest : [minecraft : {"v"}, loader : {"v", "w"}, mods : {{Api, m} : m \in Consumers}],
   targets : {{t} : t \in [id : {"t"}, testedVersion : Versions, tokens : TokenSets]},
   pins : {Pins}, audited : {Files({"api", "m"})},
   later : {Files(names) : names \in SUBSET {"api", "m", "n"}}]

\* One acceptance case over two artifacts, one scenario and one target.
Deployed(id, enabled, version, target) ==
  [id |-> id, modId |-> id, enabled |-> enabled, version |-> version, target |-> target,
   locator |-> {id}]
Deployments ==
  {{Deployed("b", TRUE, "v1", "t")} \union m : m \in
     {{}} \union {{Deployed("a", e, v, t)} : <<e, v, t>> \in
        {<<TRUE, "v1", "t">>, <<FALSE, "v1", "t">>, <<TRUE, "v2", "t">>, <<TRUE, "v1", None>>}}}
Partial(keys, values) == UNION {[k -> values] : k \in SUBSET keys}
References == [id : {"s", "unknown"}, bindings : Partial({"a", "b"}, {"x", "y"}) \ {<<>>}]
CaseOf(artifacts, status, refs) ==
  [id |-> "case", group |-> "acceptance", artifacts |-> artifacts, status |-> status,
   scenarios |-> refs]
Cases ==
  {e \in {CaseOf(artifacts, status, refs) :
            artifacts \in {{"a"}, {"a", "b"}}, status \in {"executable", "blocked"},
            refs \in {r \in SUBSET References : Cardinality(r) <= 2}} :
     ValidEntry(e, {"a", "b"})}
SomeMatrices ==
  [matrix : [required : {{"a", "b"}}, entries : {{e} : e \in Cases}],
   catalog : [{"s"} -> [slots : Partial({"x", "y"}, {"required", "optional"})]],
   mods : Deployments,
   targets : {{t} : t \in [id : {"t"}, testedVersion : {"v1"}, scenarios : {{}, {"s"}},
                          artifacts : Partial({"x", "y"}, {"a", "b"})]}]

\* Every short text, cut at every two places.
Texts == UNION ({[1..n -> {"E", "S", "F", "cr", "lf"}] : n \in 0..5}
                  \union {[1..n -> {"F", "cr", "lf", "b1", "b2"}] : n \in 0..5})
Cut(text, i, j) == <<SubSeq(text, 1, i), SubSeq(text, i + 1, j), SubSeq(text, j + 1, Len(text))>>
SomeOutputs ==
  {Cut(c[1], c[2], c[3]) :
     c \in {t \in Texts \X (0..5) \X (0..5) : t[2] <= t[3] /\ t[3] <= Len(t[1])}}

\* Two targets that share a Java.
SomeCommands ==
  [java : {0, 1}, inspection : BOOLEAN, succeeds : BOOLEAN, logged : {TRUE}]
    \union [java : {0}, inspection : {TRUE}, succeeds : {TRUE}, logged : {FALSE}]
Target(found, writable, build, outcomes) ==
  [found |-> found, writable |-> writable, build |-> build, scenarios |-> outcomes]
Outcomes == {"passed", "failed", "throws"}
SomePortfolios ==
  [javas : {{1}},
   targets : {<<Target(f, w, b, o), Target(TRUE, TRUE, c, <<"passed", p>>)>> :
                f \in BOOLEAN, w \in BOOLEAN, p \in {"passed", "throws"}, o \in {<<a>> : a \in Outcomes},
                b \in {<<a>> : a \in SomeCommands} \union {<<a, d>> : a \in SomeCommands, d \in SomeCommands},
                c \in {<<a>> : a \in SomeCommands}}]
===============================================================================
