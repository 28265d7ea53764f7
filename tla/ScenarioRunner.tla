---------------------------- MODULE ScenarioRunner ----------------------------
(***************************************************************************)
(* runScenario(), executeStep() and the life-cycle cases of executeAction()*)
(* of src/runner.ts, over the MinecraftServer supervisor.  A scenario is a *)
(* sequence of steps; each step is run as a task of its own, raced against *)
(* a timer and never cancelled: a step that timed out goes on executing    *)
(* its actions beside the later steps, the cleanup and the report.         *)
(*                                                                         *)
(* Task 0 is the runner itself, task i > 0 the actions of step i.          *)
(***************************************************************************)
EXTENDS Naturals, Sequences

CONSTANTS
  MaxSteps,     \* bound: steps of a scenario
  Services,     \* names of Docker services
  Clients,      \* the scenario's protocol clients
  Scenarios,    \* the scenarios to run: sequences of steps
  MaxSpawns, MaxFindings    \* bounds of MinecraftServer

StepIds == 1..MaxSteps
TaskIds == 0..MaxSteps

\* What a task does one after the other in executeAction().  Actions that touch
\* neither server, clients nor services are, like every assertion, a "probe": it
\* returns or throws, and holds nothing.  "tryConnect" is a connect whose failure
\* is allowed.
DockerKinds == {"dockerRun", "dockerLogs", "dockerRm"}
OpKinds     == {"disconnect", "stop", "start", "bridge", "connect", "tryConnect", "probe"}
                 \union DockerKinds
Ops     == {op \in [kind : OpKinds, service : Services \union {"none"}, clients : SUBSET Clients] :
              op.kind \in DockerKinds => op.service \in Services}
Steps   == [always : BOOLEAN, ops : Seq(Ops)]

ASSUME ScenarioAssumption ==
  /\ MaxSteps \in Nat
  /\ MaxSpawns \in Nat
  /\ MaxFindings \in Nat
  /\ \A s \in Scenarios : s \in Seq(Steps) /\ Len(s) <= MaxSteps

Op(kind)            == [kind |-> kind, service |-> "none", clients |-> {}]
ClientOp(kind, cs)  == [kind |-> kind, service |-> "none", clients |-> cs]
ServiceOp(kind, n)  == [kind |-> kind, service |-> n, clients |-> {}]

\* The clients cs of `server.start` are those that connect on start, those of
\* `server.restart` all of them, or none with `reconnect: false`.
ServerStart(cs)     == <<Op("start"), Op("bridge"), ClientOp("connect", cs)>>
ServerStop          == <<ClientOp("disconnect", Clients), Op("stop")>>
ServerRestart(cs)   == ServerStop \o ServerStart(cs)
ClientConnect(c)    == <<ClientOp("connect", {c})>>
ClientDisconnect(c) == <<ClientOp("disconnect", {c})>>
ClientReconnect(c)  == <<ClientOp("disconnect", {c}), ClientOp("tryConnect", {c})>>
ServiceStart(n)     == <<ServiceOp("dockerRun", n), ServiceOp("dockerLogs", n)>>
ServiceStop(n)      == <<ServiceOp("dockerRm", n)>>
OtherAction         == <<Op("probe")>>

VARIABLES
  process, child, stopSent, call, unread, findings, logClosed, lateWrite,
  scenario,       \* the scenario being run
  pc,             \* where runScenario() stands
  cur,            \* the step of the loop
  task,           \* the task of each step
  results,        \* the status of each step's StepResult
  originalError,  \* the first error
  values,         \* the errors the finally block puts in context.values
  registered,     \* context.services: the services the harness knows it started
  containers,     \* the containers Docker holds
  docker,         \* the Docker command each task waits for
  clients,        \* the clients whose process is up
  signalled,      \* those among them that were killed and have not ended yet
  todo,           \* cleanupServices(): the keys it has yet to clean up
  failures,       \* cleanupServices(): whether a removal failed
  report          \* the report written, if any

serverVars  == <<process, child, stopSent, call, unread, findings, logClosed, lateWrite>>
stepVars    == <<task, results>>
serviceVars == <<registered, containers, docker>>
clientVars  == <<clients, signalled>>
cleanupVars == <<todo, failures>>
errorVars   == <<originalError, values>>
vars == <<serverVars, scenario, pc, cur, stepVars, errorVars, serviceVars, clientVars,
          cleanupVars, report>>

Server == INSTANCE MinecraftServer WITH Tasks <- TaskIds

NoError    == [kind |-> "none", step |-> 0]
StepError(i)  == [kind |-> "step", step |-> i]
RunError(kind) == [kind |-> kind, step |-> 0]
RunErrors  == {"log", "stop", "services", "directory"}
Errors     == {NoError} \union {StepError(i) : i \in StepIds}
                        \union {RunError(k) : k \in RunErrors}
NoReport   == [status |-> "none", error |-> NoError, findings |-> 0]

-----------------------------------------------------------------------------
(* The tasks of the steps *)

\* The stages of `docker run`, of cleanupService() and of no command at all.
Stages           == {"none", "run", "made", "logs", "rm", "removed"}
Command(stage, n) == [stage |-> stage, service |-> n]
NoCommand        == Command("none", "none")
Commands         == {NoCommand} \union {Command(stage, n) : stage \in Stages \ {"none"}, n \in Services}

NewTask     == [status |-> "new", at |-> 1]
Running(i)  == task[i].status = "running"
OpOf(i)     == scenario[i].ops[task[i].at]
AtOp(i, kind) == Running(i) /\ OpOf(i).kind = kind

\* The next op, or the end of the task after its last one.
Advance(i) ==
  IF task[i].at < Len(scenario[i].ops)
    THEN task' = [task EXCEPT ![i].at = @ + 1]
    ELSE task' = [task EXCEPT ![i].status = "returned"]

Throw(i) == task' = [task EXCEPT ![i].status = "threw"]

\* A continuation that is due: a call has answered, or the task has reached an
\* op that begins with no wait.  Node runs it before any timer or event, so
\* those are taken only when all is quiet.
Due(i)    == \/ (AtOp(i, "start") \/ AtOp(i, "stop")) /\ Server!Free(i)
             \/ AtOp(i, "disconnect") /\ OpOf(i).clients \intersect clients = {}
             \/ (AtOp(i, "dockerRun") \/ AtOp(i, "dockerRm")) /\ docker[i] = NoCommand
Answered(t) == call[t].outcome # "none"
Quiet     == ~(\E i \in StepIds : Due(i)) /\ ~(\E t \in TaskIds : Answered(t))

runnerVars == <<scenario, pc, cur, results, errorVars, cleanupVars, report>>

CallServer(i) ==
  /\ \/ AtOp(i, "start") /\ Server!Start(i)
     \/ AtOp(i, "stop") /\ Server!Stop(i)
  /\ UNCHANGED <<runnerVars, task, serviceVars, clientVars>>

ServerAnswers(i) ==
  /\ AtOp(i, "start") \/ AtOp(i, "stop")
  /\ Server!Collect(i)
  /\ IF call[i].outcome = "ok" THEN Advance(i) ELSE Throw(i)
  /\ UNCHANGED <<runnerVars, serviceVars, clientVars>>

ServerUp == process # 0 /\ child[process] = "ready"

\* The bridge answers its health check only from a server that is up, and is
\* given up after thirty seconds; so is a client's connection.
AskBridge(i) ==
  /\ AtOp(i, "bridge") /\ Quiet
  /\ (ServerUp /\ Advance(i)) \/ Throw(i)
  /\ UNCHANGED <<serverVars, runnerVars, serviceVars, clientVars>>

\* The clients cs come up, and those in killed do not get further than to a
\* process that was signalled and has not ended yet.
ComeUp(cs, killed) ==
  /\ clients' = clients \union cs \union killed
  /\ signalled' = (signalled \ cs) \union killed

\* The loop over the clients connects them one after the other and stops at
\* the first that fails, whose process connect() kills, waiting five seconds
\* for its end.  One that is connected already stays so.
ConnectClients(i) ==
  LET cs == OpOf(i).clients IN
  /\ AtOp(i, "connect") \/ AtOp(i, "tryConnect")
  /\ Quiet
  /\ \/ /\ ServerUp \/ cs \subseteq clients \ signalled
        /\ ComeUp(cs, {})
        /\ Advance(i)
     \/ \E some \in SUBSET cs :
          /\ ServerUp \/ some \subseteq clients \ signalled
          /\ \E killed \in {{}} \union {{c} : c \in cs \ (some \union clients)} :
               ComeUp(some, killed)
          /\ IF AtOp(i, "tryConnect") THEN Advance(i) ELSE Throw(i)
  /\ UNCHANGED <<serverVars, runnerVars, serviceVars>>

\* disconnect() does not throw.  It waits at most ten seconds for the process
\* to end and leaves one that does not with a signal.
Disconnect(cs) ==
  \E left \in SUBSET (cs \intersect clients) :
    /\ clients' = (clients \ cs) \union left
    /\ signalled' = (signalled \ cs) \union left

DisconnectClients(i) ==
  /\ AtOp(i, "disconnect")
  /\ OpOf(i).clients \intersect clients = {} \/ Quiet
  /\ Disconnect(OpOf(i).clients)
  /\ Advance(i)
  /\ UNCHANGED <<serverVars, runnerVars, serviceVars>>

-----------------------------------------------------------------------------
(* Services.  Every Docker command is a process that a task waits for; what  *)
(* Docker does and what the task does once it hears of it are two steps.     *)

Issue(t, stage, n) == docker' = [docker EXCEPT ![t] = Command(stage, n)]
CommandEnds(t)     == docker' = [docker EXCEPT ![t] = NoCommand]

\* service.start throws at once for a name that is registered.
BeginServiceStart(i) ==
  LET n == OpOf(i).service IN
  /\ AtOp(i, "dockerRun") /\ docker[i] = NoCommand
  /\ IF n \in registered
       THEN Throw(i) /\ UNCHANGED docker
       ELSE Issue(i, "run", n) /\ UNCHANGED task
  /\ UNCHANGED <<serverVars, runnerVars, registered, containers, clientVars>>

\* Docker makes the container, unless there is one of that name.
DockerMakes(i) ==
  LET n == docker[i].service IN
  /\ AtOp(i, "dockerRun") /\ docker[i].stage = "run" /\ Quiet
  /\ n \notin containers
  /\ containers' = containers \union {n}
  /\ Issue(i, "made", n)
  /\ UNCHANGED <<serverVars, runnerVars, task, registered, clientVars>>

\* `docker run` has ended: only then is the service put in context.services.
\* It may fail, or be killed by its own timeout, with the container made.
DockerRun(i) ==
  /\ AtOp(i, "dockerRun") /\ docker[i].stage \in {"run", "made"} /\ Quiet
  /\ \/ /\ docker[i].stage = "made"
        /\ registered' = registered \union {docker[i].service}
        /\ Advance(i)
     \/ UNCHANGED registered /\ Throw(i)
  /\ CommandEnds(i)
  /\ UNCHANGED <<serverVars, runnerVars, containers, clientVars>>

\* The readiness line of the service, or SERVICE_READINESS_TIMEOUT.
DockerLogs(i) ==
  /\ AtOp(i, "dockerLogs") /\ Quiet
  /\ Advance(i) \/ Throw(i)
  /\ UNCHANGED <<serverVars, runnerVars, serviceVars, clientVars>>

\* cleanupService() of task t: `docker logs`, which does not throw, the log is
\* written, and `docker rm --force` is issued.
LogsWritten(t) ==
  /\ docker[t].stage = "logs" /\ Quiet
  /\ Issue(t, "rm", docker[t].service)
  /\ UNCHANGED <<serverVars, runnerVars, task, registered, containers, clientVars>>

\* Docker removes the container of that name, whoever made it.
DockerRemoves(t) ==
  /\ docker[t].stage = "rm" /\ Quiet
  /\ containers' = containers \ {docker[t].service}
  /\ Issue(t, "removed", docker[t].service)
  /\ UNCHANGED <<serverVars, runnerVars, task, registered, clientVars>>

DockerWorks(t) == LogsWritten(t) \/ DockerRemoves(t)

\* `docker rm` has ended well: services.delete(name).
Forget(t) ==
  /\ docker[t].stage = "removed"
  /\ registered' = registered \ {docker[t].service}
  /\ CommandEnds(t)
  /\ UNCHANGED containers

\* Mutant of RemovalFails: the entry goes although the removal failed.
RemovalFailsForgotten(t) ==
  /\ docker[t].stage \in {"logs", "rm", "removed"}
  /\ registered' = registered \ {docker[t].service}
  /\ CommandEnds(t)
  /\ UNCHANGED containers

\* The log is not written, or `docker rm` fails or times out, with or without
\* the container removed: the entry stays.
RemovalFails(t) ==
  /\ docker[t].stage \in {"logs", "rm", "removed"}
  /\ CommandEnds(t)
  /\ UNCHANGED <<registered, containers>>

\* service.stop: nothing is done for a name that is not registered.
BeginServiceStop(i) ==
  LET n == OpOf(i).service IN
  /\ AtOp(i, "dockerRm") /\ docker[i] = NoCommand
  /\ IF n \in registered
       THEN Issue(i, "logs", n) /\ UNCHANGED task
       ELSE Advance(i) /\ UNCHANGED docker
  /\ UNCHANGED <<serverVars, runnerVars, registered, containers, clientVars>>

ServiceStopEnds(i) ==
  /\ AtOp(i, "dockerRm") /\ Quiet
  /\ \/ Forget(i) /\ Advance(i)
     \/ RemovalFails(i) /\ Throw(i)
  /\ UNCHANGED <<serverVars, runnerVars, clientVars>>

ServiceStep(i) ==
  \/ BeginServiceStart(i) \/ DockerMakes(i) \/ DockerRun(i) \/ DockerLogs(i)
  \/ BeginServiceStop(i) \/ ServiceStopEnds(i)
  \/ AtOp(i, "dockerRm") /\ DockerWorks(i)

Probe(i) ==
  /\ AtOp(i, "probe") /\ Quiet
  /\ Advance(i) \/ Throw(i)
  /\ UNCHANGED <<serverVars, runnerVars, serviceVars, clientVars>>

TaskStep(i) ==
  \/ CallServer(i) \/ ServerAnswers(i) \/ AskBridge(i)
  \/ ConnectClients(i) \/ DisconnectClients(i) \/ ServiceStep(i) \/ Probe(i)

-----------------------------------------------------------------------------
(* The step loop *)

\* `if (!originalError) originalError = ...`
KeepFirst(error) ==
  originalError' = IF originalError = NoError THEN error ELSE originalError

CurIsStep == pc = "steps" /\ cur \in 1..Len(scenario)

\* Mutant of Skipped: after an error every step is skipped.
SkippedAlways(i) == originalError # NoError

Skipped(i) == originalError # NoError /\ ~scenario[i].always

SkipStep ==
  /\ CurIsStep
  /\ Skipped(cur)
  /\ results' = [results EXCEPT ![cur] = "skipped"]
  /\ cur' = cur + 1
  /\ UNCHANGED <<serverVars, scenario, pc, task, errorVars, serviceVars, clientVars,
                 cleanupVars, report>>

\* Mutant of BeginStep: the step is not awaited.
BeginStepUnawaited ==
  /\ CurIsStep
  /\ ~Skipped(cur)
  /\ task' = [task EXCEPT ![cur].status = "running"]
  /\ results' = [results EXCEPT ![cur] = "passed"]
  /\ cur' = cur + 1
  /\ UNCHANGED <<serverVars, scenario, pc, errorVars, serviceVars, clientVars, cleanupVars,
                 report>>

BeginStep ==
  /\ CurIsStep
  /\ ~Skipped(cur)
  /\ task' = [task EXCEPT ![cur].status =
                IF scenario[cur].ops = <<>> THEN "returned" ELSE "running"]
  /\ pc' = "awaiting"
  /\ UNCHANGED <<serverVars, scenario, cur, results, errorVars, serviceVars, clientVars,
                 cleanupVars, report>>

EndStep(status) ==
  /\ pc = "awaiting"
  /\ results' = [results EXCEPT ![cur] = status]
  /\ cur' = cur + 1
  /\ pc' = "steps"
  /\ UNCHANGED <<serverVars, scenario, task, values, serviceVars, clientVars, cleanupVars,
                 report>>

StepPasses ==
  /\ pc = "awaiting"
  /\ task[cur].status = "returned"
  /\ EndStep("passed")
  /\ UNCHANGED originalError

StepThrows ==
  /\ pc = "awaiting"
  /\ task[cur].status = "threw"
  /\ EndStep("failed")
  /\ KeepFirst(StepError(cur))

\* Mutant of StepTimesOut: a timeout fails the step and not the run.
StepTimesOutQuietly ==
  /\ pc = "awaiting" /\ Running(cur) /\ Quiet
  /\ EndStep("timedOut")
  /\ UNCHANGED originalError

\* withTimeout() rejects and leaves the task to itself.  Its StepResult reads
\* "failed" as well; the two are kept apart here.
StepTimesOut ==
  /\ pc = "awaiting" /\ Running(cur) /\ Quiet
  /\ EndStep("timedOut")
  /\ KeepFirst(StepError(cur))

\* The log findings are looked at once, after the last step.
CheckLog ==
  /\ pc = "steps"
  /\ cur > Len(scenario)
  /\ IF findings > 0 THEN KeepFirst(RunError("log")) ELSE UNCHANGED originalError
  /\ pc' = "disconnecting"
  /\ UNCHANGED <<serverVars, scenario, cur, stepVars, values, serviceVars, clientVars,
                 cleanupVars, report>>

-----------------------------------------------------------------------------
(* The finally block and the report *)

CleanupDisconnects ==
  /\ pc = "disconnecting"
  /\ Disconnect(Clients)
  /\ pc' = "stopping"
  /\ UNCHANGED <<serverVars, scenario, cur, stepVars, errorVars, serviceVars,
                 cleanupVars, report>>

CleanupStops ==
  /\ pc = "stopping"
  /\ Server!Stop(0)
  /\ UNCHANGED <<runnerVars, task, serviceVars, clientVars>>

\* Mutant of RecordCleanupError: an error of the cleanup never fails the run.
NoteCleanupError(kind) == values' = values \union {kind} /\ UNCHANGED originalError

\* An error of the cleanup is the first error, or is put in context.values.
RecordCleanupError(kind) ==
  /\ KeepFirst(RunError(kind))
  /\ values' = IF originalError = NoError THEN values ELSE values \union {kind}

\* cleanupServices() takes its list of names as it is called.
CleanupStopReturns ==
  /\ pc = "stopping"
  /\ Server!Collect(0)
  /\ IF call[0].outcome = "ok" THEN UNCHANGED errorVars ELSE RecordCleanupError("stop")
  /\ todo' = registered
  /\ failures' = FALSE
  /\ pc' = "services"
  /\ UNCHANGED <<scenario, cur, stepVars, serviceVars, clientVars, report>>

\* One name after the other; one that is no longer registered is done with.
CleanupService(n) ==
  /\ pc = "services" /\ docker[0] = NoCommand
  /\ n \in todo
  /\ todo' = todo \ {n}
  /\ IF n \in registered THEN Issue(0, "logs", n) ELSE UNCHANGED docker
  /\ UNCHANGED <<serverVars, scenario, pc, cur, stepVars, errorVars, registered, containers,
                 clientVars, failures, report>>

CleanupServiceEnds ==
  /\ pc = "services" /\ Quiet
  /\ \/ Forget(0) /\ UNCHANGED failures
     \/ RemovalFails(0) /\ failures' = TRUE
  /\ UNCHANGED <<serverVars, scenario, pc, cur, stepVars, errorVars, clientVars, todo, report>>

CleanupServicesReturns ==
  /\ pc = "services" /\ docker[0] = NoCommand
  /\ todo = {}
  /\ IF failures THEN RecordCleanupError("services") ELSE UNCHANGED errorVars
  /\ pc' = "closing"
  /\ UNCHANGED <<serverVars, scenario, cur, stepVars, serviceVars, clientVars, cleanupVars,
                 report>>

CloseServerLog ==
  /\ pc = "closing"
  /\ Server!CloseLog
  /\ pc' = "reporting"
  /\ UNCHANGED <<scenario, cur, stepVars, errorVars, serviceVars, clientVars, cleanupVars,
                 report>>

\* The run directory is removed, or is not; the findings are read again.  What
\* was due when the log was closed has run by now.
WriteReport ==
  /\ pc = "reporting" /\ Quiet
  /\ KeepFirst(RunError("directory")) \/ UNCHANGED originalError
  /\ report' = [status   |-> IF originalError' = NoError THEN "passed" ELSE "failed",
                error    |-> originalError',
                findings |-> findings]
  /\ pc' = "done"
  /\ UNCHANGED <<serverVars, scenario, cur, stepVars, values, serviceVars, clientVars,
                 cleanupVars>>

\* Client events and checksums are written, and logs copied, outside of any
\* try: an error there rejects runScenario() and no report is written.
RejectRun ==
  /\ pc = "reporting" /\ Quiet
  /\ pc' = "rejected"
  /\ UNCHANGED <<serverVars, scenario, cur, stepVars, errorVars, serviceVars, clientVars,
                 cleanupVars, report>>

\* What keeps the event loop alive: a child process, output not yet read, and
\* what any op but a call of the supervisor waits for.
LoopHeld ==
  \/ \E c \in Server!ChildIds : Server!Alive(c) \/ unread[c] > 0
  \/ clients # {}
  \/ \E i \in StepIds : Running(i) /\ ~(AtOp(i, "start") \/ AtOp(i, "stop"))

\* withTimeout() unref()s its timers and main() is not awaited at top level: a
\* runner that waits for timers alone has its process end, with exit code 0.
LoopDrains ==
  /\ Quiet /\ ~LoopHeld
  /\ (pc = "awaiting" /\ Running(cur)) \/ (pc = "stopping" /\ call[0].pc # "idle")
  /\ pc' = "drained"
  /\ UNCHANGED <<serverVars, scenario, cur, stepVars, errorVars, serviceVars, clientVars,
                 cleanupVars, report>>

-----------------------------------------------------------------------------
\* A client's process ends with its server, or because it was kicked.
ClientEnds(c) ==
  /\ c \in clients /\ Quiet
  /\ clients' = clients \ {c}
  /\ signalled' = signalled \ {c}
  /\ UNCHANGED <<serverVars, runnerVars, task, serviceVars>>

ServerSide ==
  /\ Quiet /\ pc # "drained"
  /\ Server!Environment \/ \E t \in TaskIds : Server!Timeout(t)
  /\ UNCHANGED <<runnerVars, task, serviceVars, clientVars>>

Runner ==
  \/ SkipStep \/ BeginStep \/ StepPasses \/ StepThrows \/ StepTimesOut \/ CheckLog
  \/ CleanupDisconnects \/ CleanupStops \/ CleanupStopReturns
  \/ (\E n \in Services : CleanupService(n)) \/ DockerWorks(0) \/ CleanupServiceEnds
  \/ CleanupServicesReturns
  \/ CloseServerLog \/ WriteReport \/ RejectRun \/ LoopDrains

Init ==
  /\ Server!Init
  /\ scenario \in Scenarios
  /\ pc = "steps"
  /\ cur = 1
  /\ task = [i \in StepIds |-> NewTask]
  /\ results = [i \in StepIds |-> "none"]
  /\ originalError = NoError
  /\ values = {}
  /\ registered = {}
  /\ containers = {}
  /\ docker = [t \in TaskIds |-> NoCommand]
  /\ clients = {}
  /\ signalled = {}
  /\ todo = {}
  /\ failures = FALSE
  /\ report = NoReport

Next ==
  \/ Runner
  \/ \E i \in StepIds : TaskStep(i)
  \/ ServerSide
  \/ \E c \in Clients : ClientEnds(c)

Continuation(i) ==
  \/ CallServer(i) \/ ServerAnswers(i) \/ DisconnectClients(i)
  \/ BeginServiceStart(i) \/ BeginServiceStop(i)

\* The runner goes on when it can, or its process ends; continuations that are
\* due are run; and the timers of the runner's own stop() fire while the loop is
\* held.  Nothing is assumed of what the steps wait for, of the server or of the
\* clients.
Fairness ==
  /\ WF_vars(Runner)
  /\ WF_vars(\E i \in StepIds : Continuation(i))
  /\ WF_vars(/\ Quiet /\ LoopHeld /\ pc # "drained" /\ Server!Timeout(0)
             /\ UNCHANGED <<runnerVars, task, serviceVars, clientVars>>)

Spec == Init /\ [][Next]_vars /\ Fairness

-----------------------------------------------------------------------------
\* The type invariant.
TypeOK ==
  /\ Server!TypeOK
  /\ scenario \in Scenarios
  /\ pc \in {"steps", "awaiting", "disconnecting", "stopping", "services", "closing",
             "reporting", "done", "rejected", "drained"}
  /\ cur \in 1..(MaxSteps + 1)
  /\ task \in [StepIds -> [status : {"new", "running", "returned", "threw"}, at : Nat]]
  /\ results \in [StepIds -> {"none", "passed", "failed", "timedOut", "skipped"}]
  /\ originalError \in Errors
  /\ values \subseteq RunErrors
  /\ registered \subseteq Services
  /\ containers \subseteq Services
  /\ docker \in [TaskIds -> Commands]
  /\ clients \subseteq Clients
  /\ signalled \subseteq clients
  /\ todo \subseteq Services
  /\ failures \in BOOLEAN
  /\ report \in [status : {"none", "passed", "failed"}, error : Errors, findings : Nat]

StepFailed(i) == results[i] \in {"failed", "timedOut"}

\* A step is skipped exactly when an earlier step failed and it is not marked
\* `always`; an `always` step runs whatever came before it (runner.ts:144).
StepDiscipline ==
  \A i \in StepIds :
    /\ results[i] = "none" <=> i >= cur
    /\ results[i] = "skipped" <=> /\ i < cur
                                 /\ ~scenario[i].always
                                 /\ \E j \in 1..(i - 1) : StepFailed(j)

\* The error a run reports is its first: every step before the one it names
\* passed, and an error of the log or the cleanup means that all steps did.
FirstErrorIsFirst ==
  LET first == IF originalError.kind = "step" THEN originalError.step ELSE cur IN
  /\ \A i \in StepIds : i < first => results[i] = "passed"
  /\ originalError.kind = "step" => first < cur /\ StepFailed(first)

\* Steps run one at a time; a task that runs outside of its step is one that
\* its step gave up on (withTimeout does not cancel).
OnlyTimedOutTasksLinger ==
  \A i \in StepIds :
    Running(i) => (pc \in {"awaiting", "drained"} /\ i = cur) \/ results[i] = "timedOut"

StopFailed == originalError.kind = "stop" \/ "stop" \in values

CleanedUp == pc \in {"closing", "reporting", "done", "rejected"}

NoStepTimedOut == \A i \in StepIds : results[i] # "timedOut"

StartsService(i, k, n) ==
  scenario[i].ops[k].kind = "dockerRun" /\ scenario[i].ops[k].service = n

\* The scenario starts n in one place only.
StartedOnce(n) ==
  \A i, j \in 1..Len(scenario) :
    \A k \in 1..Len(scenario[i].ops), l \in 1..Len(scenario[j].ops) :
      StartsService(i, k, n) /\ StartsService(j, l, n) => i = j /\ k = l

\* What is left behind stays known (runner.ts:1108): a service is forgotten
\* only once its container is gone, however many steps that timed out and the
\* cleanup remove it side by side, and, unless a step timed out, however often
\* it is started again.
ForgottenOnlyWhenRemoved ==
  [][\A n \in registered \ registered' :
       StartedOnce(n) \/ NoStepTimedOut => n \notin containers']_vars

\* When no step timed out, the cleanup leaves nothing of the run behind that
\* it did not see fail: no client but one it signalled, no server process, no
\* registered service, and no container at all of a run whose steps passed.
NoTimeoutNoLeak ==
  CleanedUp /\ NoStepTimedOut
    => /\ clients \subseteq signalled
       /\ StopFailed \/ \A c \in Server!ChildIds : ~Server!Alive(c)
       /\ failures \/ registered = {}
       /\ (\A i \in StepIds : ~StepFailed(i)) => failures \/ containers = {}

\* A run passes only if every step passed and every part of the cleanup went
\* well, and it fails only for an error that it names.
VerdictIsSound ==
  /\ report.status = "passed" => /\ \A i \in 1..Len(scenario) : results[i] = "passed"
                                /\ values = {} /\ ~failures
  /\ report.status = "failed" => report.error # NoError
  /\ CleanedUp /\ (values # {} \/ failures) => originalError # NoError

\* Every run ends, in a report, in an error of its own or with its process,
\* whatever its steps, its server and its services do or fail to do.
EveryRunEnds == <>(pc \in {"done", "rejected", "drained"})

\* main() sets a nonzero exit code for a failed report and for an exception.
ExitsZero == (pc = "done" /\ report.status = "passed") \/ pc = "drained"

\* "A run exits zero only if all steps and global rules pass"
\* (docs/architecture.md:101).
ExitZeroMeansPassed ==
  ExitsZero => \A i \in 1..Len(scenario) : results[i] = "passed"

\* "World, config, player data, logs, and ports do not leak between
\* invocations" (docs/architecture.md:57): a server alive when the report is
\* out is at most one that ignores its "stop", never one nobody stopped.
NoServerAfterReport ==
  pc = "done" => \A c \in Server!ChildIds : Server!Alive(c) => c \in stopSent

\* "A run exits zero only if all steps and global rules pass", among which
\* "ERROR/FATAL lines" (docs/architecture.md:101): a passed report lists none.
PassedReportHasNoFindings == report.status = "passed" => report.findings = 0

\* "Independently of scenario assertions, the harness fails on ... premature
\* server exit" (docs/architecture.md:107): no server of a passed run ended
\* without having been sent "stop".
PassedRunHadNoPrematureExit ==
  report.status = "passed" =>
    \A c \in Server!ChildIds : child[c] \in {"exited", "killed"} => c \in stopSent

\* "World, config, player data, logs, and ports do not leak between
\* invocations" (docs/architecture.md:57): a container that a run leaves
\* behind, with the ports it publishes, is one whose removal the run saw fail.
NoContainerForgotten == pc = "done" => containers \subseteq registered

\* "Cleanup errors are attached as secondary evidence" (docs/architecture.md:62):
\* the report, all of whose errors WriteReport lists, shows each of them.
CleanupErrorsAttached ==
  pc = "done" => \A kind \in values : report.error = RunError(kind)
=============================================================================
