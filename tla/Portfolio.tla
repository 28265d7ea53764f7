------------------------------- MODULE Portfolio -------------------------------
(***************************************************************************)
(* runPortfolio() of src/portfolio.ts: the targets of a catalog are built  *)
(* and tried one after the other, and one report tells of all of them.     *)
(*                                                                         *)
(* What the machine answers is part of the input.  A target has `found`    *)
(* (its repository is a directory), `writable` (its own directory and the  *)
(* log of that check), its build commands and the outcomes of its          *)
(* scenarios.  A command has the Java it asks for, what the inspection of  *)
(* that Java would find now, whether it succeeds, and whether its log can  *)
(* be written.  Nothing catches an error of a directory or a log.          *)
(***************************************************************************)
EXTENDS Naturals, Sequences, SequencesExt

NoJava == 0

\* validatePortfolioManifest(): what a catalog is, with what its targets meet.
Commands(javas) ==
  [java : javas \union {NoJava}, inspection : BOOLEAN, succeeds : BOOLEAN, logged : BOOLEAN]
Targets(javas) ==
  [found : BOOLEAN, writable : BOOLEAN, build : Seq(Commands(javas)),
   scenarios : Seq({"passed", "failed", "throws"})]
ValidCatalog(targets, javas) ==
  /\ NoJava \notin javas /\ targets \in Seq(Targets(javas))
  /\ \A t \in DOMAIN targets : targets[t].build # <<>> /\ targets[t].scenarios # <<>>

\* `homes` is the map portfolioJavaHomes: it keeps a rejected promise as well.
EmptyRun(javas) ==
  [targets |-> <<>>, homes |-> [j \in javas |-> "unknown"], aborted |-> FALSE]
EmptyTarget == [builds |-> <<>>, scenarios |-> <<>>, failed |-> FALSE]

\* resolvePortfolioJavaHome()
Inspected(homes, command) ==
  IF command.java = NoJava \/ homes[command.java] # "unknown" THEN homes
  ELSE [homes EXCEPT ![command.java] = IF command.inspection THEN "ok" ELSE "bad"]

\* Mutant of Ran: a command whose Java was found wanting runs with any.
RanAnyway(homes, command) == TRUE

\* runBuild(): the command runs when its Java is the one required.
Ran(homes, command) == command.java = NoJava \/ homes[command.java] = "ok"

BuildStatus(homes, command) ==
  IF Ran(homes, command) /\ command.succeeds THEN "passed" ELSE "failed"

\* One turn of the loop over target.build; at[1] is the run, at[2] the target.
RunBuild(at, command) ==
  LET homes  == Inspected(at[1].homes, command)
      status == BuildStatus(homes, command)
  IN  IF at[1].aborted \/ at[2].failed THEN at
      ELSE << [at[1] EXCEPT !.homes = homes, !.aborted = ~command.logged],
              [at[2] EXCEPT !.builds = Append(@, [status |-> status, ran |-> Ran(homes, command)]),
                            !.failed = (status = "failed")] >>

\* The loop, after each of its turns.
Building(start, build) ==
  LET at[b \in 0..Len(build)] == IF b = 0 THEN start ELSE RunBuild(at[b - 1], build[b])
  IN  at

\* runScenario() returns a report, passed or failed, or throws; resolving the
\* scenario may throw as well.  Both are caught.
ScenarioStatus(failed, outcome) ==
  IF failed THEN "skipped" ELSE IF outcome = "throws" THEN "failed" ELSE outcome

RunTarget(run, target) ==
  LET checked == IF target.found THEN EmptyTarget
                 ELSE [EmptyTarget EXCEPT !.failed = TRUE,
                         !.builds = <<[status |-> "failed", ran |-> FALSE]>>]
      built == Building(<<run, checked>>, target.build)[Len(target.build)]
      tried == [s \in DOMAIN target.scenarios |->
                  ScenarioStatus(built[2].failed, target.scenarios[s])]
      failed == built[2].failed \/ \E s \in DOMAIN tried : tried[s] # "passed"
  IN  IF ~target.writable \/ built[1].aborted THEN [run EXCEPT !.aborted = TRUE]
      ELSE [built[1] EXCEPT !.targets =
              Append(@, [builds |-> built[2].builds, scenarios |-> tried,
                         status |-> IF failed THEN "failed" ELSE "passed"])]

\* The loop over the targets, after each of its turns.
Running(targets, javas) ==
  LET at[t \in 0..Len(targets)] == IF t = 0 THEN EmptyRun(javas) ELSE RunTarget(at[t - 1], targets[t])
  IN  at

\* The report, unless an error of the file system ended the run without one.
RunPortfolio(targets, javas) ==
  LET run == Running(targets, javas)[Len(targets)]
  IN  [aborted |-> run.aborted, targets |-> run.targets,
       status  |-> IF \A t \in DOMAIN run.targets : run.targets[t].status = "passed"
                   THEN "passed" ELSE "failed"]

\* portfolio() of src/cli.ts, and main() for what it throws.
ExitCode(report) == IF report.aborted \/ report.status = "failed" THEN 1 ELSE 0

-----------------------------------------------------------------------------
Statuses(results) == {results[i].status : i \in DOMAIN results}

\* Exit code 0 is earned: each command of each target ran and succeeded, with
\* the Java it asks for, and each scenario of the catalog ran and passed.
ExitZeroIsEarned(targets, javas) ==
  LET report == RunPortfolio(targets, javas)
  IN  ExitCode(report) = 0 =>
        /\ Len(report.targets) = Len(targets)
        /\ \A t \in DOMAIN targets :
             /\ targets[t].found
             /\ \A b \in DOMAIN targets[t].build :
                  /\ targets[t].build[b].succeeds /\ report.targets[t].builds[b].ran
                  /\ targets[t].build[b].java # NoJava =>
                       \E u \in 1..t : \E c \in DOMAIN targets[u].build :
                         /\ targets[u].build[c].java = targets[t].build[b].java
                         /\ targets[u].build[c].inspection
             /\ \A s \in DOMAIN targets[t].scenarios : targets[t].scenarios[s] = "passed"

\* A report tells of every target and every scenario, in order.  Nothing of a
\* target runs after its first failed build, and what fails in one target does
\* not keep the next from running, but for a Java that it found wanting.
ReportIsComplete(targets, javas) ==
  LET report == RunPortfolio(targets, javas)
  IN  ~report.aborted => \A t \in DOMAIN targets :
        LET result == report.targets[t]
            last   == Len(result.builds)
        IN  /\ Len(report.targets) = Len(targets)
            /\ DOMAIN result.scenarios = DOMAIN targets[t].scenarios
            /\ \A b \in 1..(last - 1) : result.builds[b].status = "passed"
            /\ "failed" \in Statuses(result.builds) <=>
                 \A s \in DOMAIN result.scenarios : result.scenarios[s] = "skipped"
            /\ (targets[t].found /\ \A b \in DOMAIN targets[t].build :
                  targets[t].build[b].java = NoJava /\ targets[t].build[b].succeeds)
                 => "skipped" \notin ToSet(result.scenarios)
===============================================================================
