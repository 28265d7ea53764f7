------------------------- MODULE ScenarioRunnerProofs -------------------------
(***************************************************************************)
(* The safety of runScenario(), for every scenario, every set of services  *)
(* and clients and every number of generations of the server.              *)
(***************************************************************************)
EXTENDS ScenarioRunner, TLAPS

\* The theorems about the supervisor, for the tasks of a run.
Supervisor == INSTANCE MinecraftServerProofs WITH Tasks <- TaskIds

SafeSpec == Init /\ [][Next]_vars

\* A Docker command at work leaves all but the services alone.
LEMMA WorksFrame ==
  ASSUME NEW t, DockerWorks(t)
  PROVE  UNCHANGED <<serverVars, runnerVars, task, registered, clientVars>>
BY DEF DockerWorks, LogsWritten, DockerRemoves

\* The same of the service actions of a step, but for the task of the step.
LEMMA ServiceStepFrame ==
  ASSUME NEW i, ServiceStep(i)
  PROVE  /\ UNCHANGED <<serverVars, runnerVars, clientVars>>
         /\ Running(i) /\ OpOf(i).kind \in DockerKinds
         /\ UNCHANGED task \/ Advance(i) \/ Throw(i)
BY WorksFrame
DEF ServiceStep, BeginServiceStart, DockerMakes, DockerRun, DockerLogs, BeginServiceStop,
    ServiceStopEnds, AtOp, DockerKinds

-----------------------------------------------------------------------------
\* Whatever the runner and its steps do to the supervisor, they do by calling
\* start() and stop(): a run is a behaviour of the supervisor.
LEMMA ServerStep == [Next]_vars => [Server!Next]_(Server!vars)
<1> SUFFICES ASSUME [Next]_vars PROVE [Server!Next]_(Server!vars)
  OBVIOUS
<1> 0 \in TaskIds /\ StepIds \subseteq TaskIds
  BY ScenarioAssumption DEF TaskIds, StepIds
<1>1. CASE UNCHANGED serverVars
  BY <1>1 DEF serverVars, Server!vars, Server!processVars, Server!logVars
<1>2. CASE UNCHANGED vars
  BY <1>1, <1>2 DEF vars
<1>3. CASE Runner
  <2>1. CASE CleanupStops
    BY <2>1 DEF CleanupStops, Server!Next
  <2>2. CASE CleanupStopReturns
    BY <2>2 DEF CleanupStopReturns, Server!Next
  <2>3. CASE CloseServerLog
    BY <2>3 DEF CloseServerLog, Server!Next
  <2>4. CASE SkipStep \/ BeginStep \/ StepPasses \/ StepThrows \/ StepTimesOut \/ CheckLog
    BY <1>1, <2>4 DEF SkipStep, BeginStep, StepPasses, StepThrows, StepTimesOut, EndStep, CheckLog
  <2>5. CASE CleanupDisconnects \/ CleanupServicesReturns \/ WriteReport \/ RejectRun \/ LoopDrains
    BY <1>1, <2>5
    DEF CleanupDisconnects, CleanupServicesReturns, WriteReport, RejectRun, LoopDrains
  <2>6. CASE (\E n \in Services : CleanupService(n)) \/ DockerWorks(0) \/ CleanupServiceEnds
    BY <1>1, <2>6, WorksFrame DEF CleanupService, CleanupServiceEnds
  <2> QED
    BY <1>3, <2>1, <2>2, <2>3, <2>4, <2>5, <2>6 DEF Runner
<1>4. ASSUME NEW i \in StepIds, TaskStep(i) PROVE [Server!Next]_(Server!vars)
  <2>1. CASE CallServer(i)
    BY <2>1 DEF CallServer, Server!Next
  <2>2. CASE ServerAnswers(i)
    BY <2>2 DEF ServerAnswers, Server!Next
  <2>3. CASE AskBridge(i) \/ ConnectClients(i) \/ DisconnectClients(i) \/ Probe(i)
    BY <1>1, <2>3 DEF AskBridge, ConnectClients, DisconnectClients, Probe
  <2>4. CASE ServiceStep(i)
    BY <1>1, <2>4, ServiceStepFrame
  <2> QED
    BY <1>4, <2>1, <2>2, <2>3, <2>4 DEF TaskStep
<1>5. CASE ServerSide
  BY <1>5 DEF ServerSide, Server!Next
<1>6. CASE \E c \in Clients : ClientEnds(c)
  BY <1>1, <1>6 DEF ClientEnds
<1> QED
  BY <1>2, <1>3, <1>4, <1>5, <1>6 DEF Next

\* The runner implements the specification of the supervisor.
THEOREM RunsTheServer == Spec => Server!Init /\ [][Server!Next]_(Server!vars)
<1>1. Init => Server!Init
  BY DEF Init
<1> QED
  BY <1>1, ServerStep, PTL DEF Spec

\* Supervisor names the definitions of Server once more.
LEMMA SameNext == [Server!Next]_(Server!vars) <=> [Supervisor!Next]_(Supervisor!vars)
BY DEF Server!Next, Server!Environment, Server!Start, Server!Stop, Server!Timeout,
       Server!Collect, Server!StartRefused, Server!StartSpawns, Server!StartSpawnFails,
       Server!StopReturnsAtOnce, Server!StopWrites, Server!StartTimesOut,
       Server!StopTimesOut, Server!ForceTimesOut, Server!ForceStop, Server!Return,
       Server!Free, Server!Running, Server!ExitCodeNull, Server!Alive, Server!Ready,
       Server!Exit, Server!AfterExit, Server!Log, Server!Data, Server!CloseLog,
       Server!Idle, Server!Waiting, Server!ChildIds, Server!vars, Server!processVars,
       Server!logVars, Supervisor!Next, Supervisor!Environment, Supervisor!Start,
       Supervisor!Stop, Supervisor!Timeout, Supervisor!Collect,
       Supervisor!StartRefused, Supervisor!StartSpawns, Supervisor!StartSpawnFails,
       Supervisor!StopReturnsAtOnce, Supervisor!StopWrites, Supervisor!StartTimesOut,
       Supervisor!StopTimesOut, Supervisor!ForceTimesOut, Supervisor!ForceStop,
       Supervisor!Return, Supervisor!Free, Supervisor!Running, Supervisor!ExitCodeNull,
       Supervisor!Alive, Supervisor!Ready, Supervisor!Exit, Supervisor!AfterExit,
       Supervisor!Log, Supervisor!Data, Supervisor!CloseLog, Supervisor!Idle,
       Supervisor!Waiting, Supervisor!ChildIds, Supervisor!vars,
       Supervisor!processVars, Supervisor!logVars

LEMMA SameInit == Server!Init <=> Supervisor!Init
BY DEF Server!Init, Server!Idle, Server!ChildIds, Supervisor!Init, Supervisor!Idle,
       Supervisor!ChildIds

\* So the supervisor's invariant holds of it.
LEMMA ServerInvariant == SafeSpec => []Supervisor!IInv
<1>1. Supervisor!BoundsAssumption
  BY ScenarioAssumption DEF Supervisor!BoundsAssumption
<1>2. SafeSpec => Supervisor!SafeSpec
  <2>1. Init => Supervisor!Init
    BY SameInit DEF Init
  <2>2. [Next]_vars => [Supervisor!Next]_(Supervisor!vars)
    BY ServerStep, SameNext
  <2> QED
    BY <2>1, <2>2, PTL DEF SafeSpec, Supervisor!SafeSpec
<1> QED
  BY <1>1, <1>2, Supervisor!Invariance, PTL

-----------------------------------------------------------------------------
(* The control of the runner *)

Phases == {"steps", "awaiting", "disconnecting", "stopping", "services", "closing",
           "reporting", "done", "rejected", "drained"}

InLoop == pc \in {"steps", "awaiting"}

ControlType ==
  /\ scenario \in Scenarios
  /\ pc \in Phases
  /\ cur \in 1..(Len(scenario) + 1)
  /\ pc = "awaiting" => cur \in 1..Len(scenario)
  /\ ~InLoop /\ pc # "drained" => cur = Len(scenario) + 1
  /\ results \in [StepIds -> {"none", "passed", "failed", "timedOut", "skipped"}]
  /\ originalError \in Errors
  /\ values \subseteq RunErrors
  /\ failures \in BOOLEAN

\* While the steps run there is no error but that of a step, and the step that
\* is awaited was not to be skipped.
LoopError ==
  /\ InLoop => originalError = NoError \/ originalError.kind = "step"
  /\ pc = "awaiting" => ~Skipped(cur)

\* An error of the cleanup is never the only trace of a failure.
CleanupErrors ==
  /\ values # {} => originalError # NoError
  /\ failures => pc = "services" \/ CleanedUp
  /\ failures /\ CleanedUp => originalError # NoError

\* The report, once there is one, goes by the first error.
ReportInv ==
  /\ pc # "done" => report = NoReport
  /\ pc = "done" =>
       /\ report.error = originalError
       /\ report.status = IF originalError = NoError THEN "passed" ELSE "failed"

\* The inductive invariant of the control.  StepDiscipline and FirstErrorIsFirst
\* need each other: a step is skipped because of originalError, and the error is
\* the first because the steps after it did not run unless they always do.
ControlInv ==
  ControlType /\ StepDiscipline /\ FirstErrorIsFirst /\ LoopError /\ CleanupErrors /\ ReportInv

LEMMA ScenarioIsShort ==
  ASSUME ControlInv
  PROVE  /\ MaxSteps \in Nat
         /\ Len(scenario) \in Nat /\ Len(scenario) <= MaxSteps
         /\ cur \in Nat /\ cur <= MaxSteps + 1
         /\ cur <= Len(scenario) => cur \in StepIds
BY ScenarioAssumption DEF ControlInv, ControlType, StepIds

LEMMA ErrorKinds ==
  /\ NoError \in Errors /\ NoError.kind = "none"
  /\ \A i \in StepIds : /\ StepError(i) \in Errors /\ StepError(i) # NoError
                         /\ StepError(i).kind = "step" /\ StepError(i).step = i
  /\ \A k \in RunErrors : /\ RunError(k) \in Errors /\ RunError(k) # NoError
                           /\ RunError(k).kind = k /\ k # "step"
  /\ \A error \in Errors : error.kind = "step" => error.step \in StepIds
<1>1. \A k \in RunErrors : k # "step"
  BY DEF RunErrors
<1>2. /\ NoError \in Errors
      /\ \A i \in StepIds : StepError(i) \in Errors
      /\ \A k \in RunErrors : RunError(k) \in Errors
      /\ \A error \in Errors : \/ error = NoError
                               \/ \E i \in StepIds : error = StepError(i)
                               \/ \E k \in RunErrors : error = RunError(k)
  BY DEF Errors
<1>3. NoError.kind = "none"
  BY DEF NoError
<1>4. \A i \in StepIds : StepError(i).kind = "step" /\ StepError(i).step = i
  BY DEF StepError
<1>5. \A k \in RunErrors : RunError(k).kind = k /\ k # "none"
  BY DEF RunError, RunErrors
<1>6. \A i \in StepIds : StepError(i) # NoError
  BY <1>3, <1>4
<1>7. \A k \in RunErrors : RunError(k) # NoError
  BY <1>3, <1>5
<1>8. \A error \in Errors : error.kind = "step" => error.step \in StepIds
  BY <1>1, <1>2, <1>3, <1>4, <1>5
<1> QED
  BY <1>1, <1>2, <1>3, <1>4, <1>5, <1>6, <1>7, <1>8

LEMMA ControlInit == Init => ControlInv
<1> SUFFICES ASSUME Init PROVE ControlInv
  OBVIOUS
<1>1. Len(scenario) \in Nat
  BY ScenarioAssumption DEF Init
<1>2. ControlType
  <2>1. results \in [StepIds -> {"none", "passed", "failed", "timedOut", "skipped"}]
    BY DEF Init
  <2>2. scenario \in Scenarios /\ pc \in Phases /\ InLoop /\ pc # "awaiting"
    BY DEF Init, Phases, InLoop
  <2>3. cur \in 1..(Len(scenario) + 1)
    BY <1>1 DEF Init
  <2>4. originalError \in Errors /\ values \subseteq RunErrors /\ failures \in BOOLEAN
    BY ErrorKinds DEF Init
  <2> QED
    BY <2>1, <2>2, <2>3, <2>4 DEF ControlType
<1>3. StepDiscipline /\ FirstErrorIsFirst
  BY ScenarioAssumption
  DEF Init, StepDiscipline, FirstErrorIsFirst, StepFailed, StepIds, NoError
<1>4. LoopError /\ CleanupErrors /\ ReportInv
  BY DEF Init, LoopError, InLoop, CleanupErrors, CleanedUp, ReportInv
<1> QED
  BY <1>2, <1>3, <1>4 DEF ControlInv

\* Nothing but the runner touches its variables.
LEMMA ControlFrame == ASSUME ControlInv, UNCHANGED runnerVars PROVE ControlInv'
BY DEF ControlInv, ControlType, InLoop, StepDiscipline, FirstErrorIsFirst, StepFailed, LoopError,
       Skipped, CleanupErrors, CleanedUp, ReportInv, runnerVars, errorVars, cleanupVars

\* The result of a step that ran, with the error it gives rise to.
LEMMA EndStepKeeps ==
  ASSUME ControlInv, NEW status \in {"passed", "failed", "timedOut"}, EndStep(status),
         IF status = "passed" THEN UNCHANGED originalError ELSE KeepFirst(StepError(cur))
  PROVE  ControlInv'
<1>1. cur \in StepIds /\ cur \in 1..Len(scenario) /\ Len(scenario) \in Nat /\ MaxSteps \in Nat
  BY ScenarioIsShort DEF EndStep, ControlInv, ControlType
<1>2. /\ pc = "awaiting" /\ pc' = "steps" /\ cur' = cur + 1
      /\ results' = [results EXCEPT ![cur] = status]
      /\ UNCHANGED <<scenario, values, failures, report>>
  BY DEF EndStep, cleanupVars
<1>3. /\ originalError' \in Errors
      /\ originalError' = originalError \/ originalError' = StepError(cur)
      /\ originalError # NoError => originalError' = originalError
      /\ originalError = NoError /\ status # "passed" => originalError' = StepError(cur)
      /\ originalError = NoError /\ status = "passed" => originalError' = NoError
      /\ originalError' = NoError \/ originalError'.kind = "step"
  BY <1>1, <1>2, ErrorKinds DEF KeepFirst, ControlInv, ControlType, LoopError, InLoop
<1>4. ControlType'
  BY <1>1, <1>2, <1>3 DEF ControlInv, ControlType, InLoop, Phases
<1>5. StepDiscipline'
  <2>1. ~scenario[cur].always => \A i \in 1..(cur - 1) : ~StepFailed(i)
    <3>1. SUFFICES ASSUME ~scenario[cur].always
                   PROVE  \A i \in 1..(cur - 1) : results[i] = "passed"
      BY DEF StepFailed
    <3>2. originalError = NoError
      BY <1>2, <3>1 DEF ControlInv, LoopError, Skipped
    <3> QED
      BY <1>1, <3>2, ErrorKinds DEF ControlInv, FirstErrorIsFirst, StepIds
  <2> QED
    BY <1>1, <1>2, <2>1 DEF ControlInv, ControlType, StepDiscipline, StepFailed, StepIds
<1>6. FirstErrorIsFirst'
  <2>1. CASE originalError = NoError
    BY <1>1, <1>2, <1>3, <2>1, ErrorKinds
    DEF ControlInv, ControlType, FirstErrorIsFirst, StepFailed, StepIds
  <2>2. CASE originalError # NoError
    BY <1>1, <1>2, <1>3, <2>2, ErrorKinds
    DEF ControlInv, ControlType, FirstErrorIsFirst, LoopError, InLoop, StepFailed, StepIds
  <2> QED
    BY <2>1, <2>2
<1>7. LoopError' /\ CleanupErrors' /\ ReportInv'
  BY <1>2, <1>3 DEF ControlInv, LoopError, CleanupErrors, CleanedUp, ReportInv, InLoop
<1> QED
  BY <1>4, <1>5, <1>6, <1>7 DEF ControlInv

LEMMA SkipStepKeeps == ASSUME ControlInv, SkipStep PROVE ControlInv'
<1>1. cur \in StepIds /\ cur \in 1..Len(scenario) /\ Len(scenario) \in Nat /\ MaxSteps \in Nat
  BY ScenarioIsShort DEF SkipStep, CurIsStep, ControlInv, ControlType
<1>2. /\ pc = "steps" /\ Skipped(cur) /\ cur' = cur + 1
      /\ results' = [results EXCEPT ![cur] = "skipped"]
      /\ UNCHANGED <<scenario, pc, originalError, values, failures, report>>
  BY DEF SkipStep, CurIsStep, errorVars, cleanupVars
<1>3. originalError # NoError /\ originalError.kind = "step" /\ ~scenario[cur].always
  BY <1>2 DEF ControlInv, LoopError, InLoop, Skipped
<1>4. /\ originalError.step \in 1..(cur - 1) /\ StepFailed(originalError.step)
      /\ originalError.step \in StepIds
  BY <1>1, <1>3, ErrorKinds DEF ControlInv, ControlType, FirstErrorIsFirst, StepIds
<1>5. ControlType'
  BY <1>1, <1>2 DEF ControlInv, ControlType, InLoop
<1>6. StepDiscipline'
  BY <1>1, <1>2, <1>3, <1>4 DEF ControlInv, ControlType, StepDiscipline, StepFailed, StepIds
<1>7. FirstErrorIsFirst'
  BY <1>1, <1>2, <1>3, <1>4 DEF ControlInv, ControlType, FirstErrorIsFirst, StepFailed, StepIds
<1>8. LoopError' /\ CleanupErrors' /\ ReportInv'
  BY <1>2 DEF ControlInv, LoopError, CleanupErrors, CleanedUp, ReportInv, InLoop
<1> QED
  BY <1>5, <1>6, <1>7, <1>8 DEF ControlInv

LEMMA BeginStepKeeps == ASSUME ControlInv, BeginStep PROVE ControlInv'
<1>1. /\ pc = "steps" /\ pc' = "awaiting" /\ ~Skipped(cur) /\ cur \in 1..Len(scenario)
      /\ UNCHANGED <<scenario, cur, results, originalError, values, failures, report>>
  BY DEF BeginStep, CurIsStep, errorVars, cleanupVars
<1> QED
  BY <1>1
  DEF ControlInv, ControlType, Phases, InLoop, StepDiscipline, FirstErrorIsFirst, StepFailed,
      LoopError, Skipped, CleanupErrors, CleanedUp, ReportInv

\* After the last step only the errors and the phase change: the first error
\* stays, or is now an error of the run when all steps had passed.
LEMMA AfterStepsKeeps ==
  ASSUME ControlInv, UNCHANGED <<scenario, cur, results>>, cur = Len(scenario) + 1,
         pc' \in Phases \ {"steps", "awaiting"},
         \/ UNCHANGED originalError
         \/ \E kind \in RunErrors : KeepFirst(RunError(kind)),
         values' \subseteq RunErrors, failures' \in BOOLEAN, CleanupErrors', ReportInv'
  PROVE  ControlInv'
<1>1. /\ originalError' \in Errors
      /\ originalError # NoError => originalError' = originalError
      /\ originalError = NoError => originalError'.kind # "step"
  BY ErrorKinds DEF KeepFirst, ControlInv, ControlType
<1>2. ControlType'
  BY <1>1 DEF ControlInv, ControlType, InLoop, Phases
<1>3. StepDiscipline'
  BY DEF ControlInv, StepDiscipline, StepFailed
<1>4. FirstErrorIsFirst'
  BY <1>1, ErrorKinds DEF ControlInv, FirstErrorIsFirst, StepFailed
<1>5. LoopError'
  BY DEF LoopError, InLoop, Phases
<1> QED
  BY <1>2, <1>3, <1>4, <1>5 DEF ControlInv

LEMMA CheckLogKeeps == ASSUME ControlInv, CheckLog PROVE ControlInv'
<1>1. /\ pc = "steps" /\ pc' = "disconnecting" /\ cur = Len(scenario) + 1
      /\ UNCHANGED <<scenario, cur, results, values, failures, report>>
  BY ScenarioIsShort DEF CheckLog, stepVars, cleanupVars, ControlInv, ControlType
<1>2. UNCHANGED originalError \/ KeepFirst(RunError("log"))
  BY DEF CheckLog
<1>3. CleanupErrors' /\ ReportInv'
  BY <1>1, <1>2 DEF ControlInv, CleanupErrors, CleanedUp, ReportInv, KeepFirst
<1> QED
  BY <1>1, <1>2, <1>3, AfterStepsKeeps DEF RunErrors, Phases, ControlInv, ControlType

\* An error of the cleanup that is recorded makes the run fail.
LEMMA RecordedErrorFails ==
  ASSUME NEW kind \in RunErrors, RecordCleanupError(kind)
  PROVE  KeepFirst(RunError(kind)) /\ originalError' # NoError
         /\ values' \subseteq values \union RunErrors
BY ErrorKinds DEF RecordCleanupError, KeepFirst

LEMMA CleanupKeeps ==
  ASSUME ControlInv,
         \/ CleanupDisconnects \/ CleanupStopReturns \/ (\E n \in Services : CleanupService(n))
         \/ CleanupServiceEnds \/ CleanupServicesReturns \/ CloseServerLog
  PROVE  ControlInv'
<1>1. CASE CleanupDisconnects
  BY <1>1, AfterStepsKeeps
  DEF CleanupDisconnects, stepVars, errorVars, cleanupVars, Phases, ControlInv, ControlType,
      InLoop, CleanupErrors, CleanedUp, ReportInv
<1>2. CASE CleanupStopReturns
  <2>1. /\ pc = "stopping" /\ pc' = "services" /\ failures' = FALSE
        /\ UNCHANGED <<scenario, cur, results, report>>
    BY <1>2 DEF CleanupStopReturns, stepVars
  <2>2. \/ UNCHANGED <<originalError, values>>
        \/ RecordCleanupError("stop")
    BY <1>2 DEF CleanupStopReturns, errorVars
  <2>3. /\ UNCHANGED originalError \/ KeepFirst(RunError("stop"))
        /\ values' \subseteq RunErrors
        /\ values' # {} => originalError' # NoError
    BY <2>2, RecordedErrorFails DEF RunErrors, ControlInv, ControlType, CleanupErrors
  <2> QED
    BY <2>1, <2>3, AfterStepsKeeps
    DEF Phases, RunErrors, ControlInv, ControlType, InLoop, CleanupErrors, CleanedUp, ReportInv
<1>3. CASE (\E n \in Services : CleanupService(n)) \/ CleanupServiceEnds
  <2>1. /\ pc = "services" /\ failures' \in BOOLEAN
        /\ UNCHANGED <<scenario, pc, cur, results, originalError, values, report>>
    BY <1>3
    DEF CleanupService, CleanupServiceEnds, stepVars, errorVars, ControlInv, ControlType
  <2> QED
    BY <2>1, AfterStepsKeeps
    DEF Phases, ControlInv, ControlType, InLoop, CleanupErrors, CleanedUp, ReportInv
<1>4. CASE CleanupServicesReturns
  <2>1. /\ pc = "services" /\ pc' = "closing"
        /\ UNCHANGED <<scenario, cur, results, failures, report>>
    BY <1>4 DEF CleanupServicesReturns, stepVars, cleanupVars
  <2>2. \/ UNCHANGED <<originalError, values>> /\ ~failures
        \/ RecordCleanupError("services")
    BY <1>4 DEF CleanupServicesReturns, errorVars
  <2>3. /\ UNCHANGED originalError \/ KeepFirst(RunError("services"))
        /\ values' \subseteq RunErrors
        /\ values' # {} \/ failures => originalError' # NoError
    BY <2>2, RecordedErrorFails DEF RunErrors, ControlInv, ControlType, CleanupErrors
  <2> QED
    BY <2>1, <2>3, AfterStepsKeeps
    DEF Phases, RunErrors, ControlInv, ControlType, InLoop, CleanupErrors, CleanedUp, ReportInv
<1>5. CASE CloseServerLog
  BY <1>5, AfterStepsKeeps
  DEF CloseServerLog, stepVars, errorVars, cleanupVars, Phases, ControlInv, ControlType,
      InLoop, CleanupErrors, CleanedUp, ReportInv
<1> QED
  BY <1>1, <1>2, <1>3, <1>4, <1>5

LEMMA ReportKeeps == ASSUME ControlInv, WriteReport \/ RejectRun PROVE ControlInv'
<1>1. CASE WriteReport
  <2>1. /\ pc = "reporting" /\ pc' = "done"
        /\ UNCHANGED <<scenario, cur, results, values, failures>>
        /\ UNCHANGED originalError \/ KeepFirst(RunError("directory"))
        /\ report'.error = originalError'
        /\ report'.status = IF originalError' = NoError THEN "passed" ELSE "failed"
    BY <1>1 DEF WriteReport, stepVars, cleanupVars
  <2>2. CleanupErrors' /\ ReportInv'
    BY <2>1 DEF ControlInv, CleanupErrors, CleanedUp, ReportInv, KeepFirst
  <2> QED
    BY <2>1, <2>2, AfterStepsKeeps DEF Phases, RunErrors, ControlInv, ControlType, InLoop
<1>2. CASE RejectRun
  BY <1>2, AfterStepsKeeps
  DEF RejectRun, stepVars, errorVars, cleanupVars, Phases, ControlInv, ControlType,
      InLoop, CleanupErrors, CleanedUp, ReportInv
<1> QED
  BY <1>1, <1>2

LEMMA DrainKeeps == ASSUME ControlInv, LoopDrains PROVE ControlInv'
<1>1. /\ pc \in {"awaiting", "stopping"} /\ pc' = "drained"
      /\ UNCHANGED <<scenario, cur, results, originalError, values, failures, report>>
  BY DEF LoopDrains, stepVars, errorVars, cleanupVars
<1> QED
  BY <1>1
  DEF ControlInv, ControlType, Phases, InLoop, StepDiscipline, FirstErrorIsFirst, StepFailed,
      LoopError, CleanupErrors, CleanedUp, ReportInv

LEMMA ControlNext == ControlInv /\ [Next]_vars => ControlInv'
<1> SUFFICES ASSUME ControlInv, [Next]_vars PROVE ControlInv'
  OBVIOUS
<1>1. CASE Runner
  <2>1. ASSUME NEW status \in {"failed", "timedOut"}, EndStep(status), KeepFirst(StepError(cur))
        PROVE  ControlInv'
    BY <2>1, EndStepKeeps
  <2>2. CASE StepPasses
    BY <2>2, EndStepKeeps DEF StepPasses
  <2>3. CASE StepThrows \/ StepTimesOut
    BY <2>1, <2>3 DEF StepThrows, StepTimesOut
  <2>4. CASE CleanupStops \/ DockerWorks(0)
    BY <2>4, ControlFrame, WorksFrame DEF CleanupStops
  <2> QED
    BY <1>1, <2>2, <2>3, <2>4, SkipStepKeeps, BeginStepKeeps, CheckLogKeeps, CleanupKeeps, ReportKeeps,
       DrainKeeps
    DEF Runner
<1>2. ASSUME NEW i \in StepIds, TaskStep(i) PROVE UNCHANGED runnerVars
  BY <1>2, ServiceStepFrame
    DEF TaskStep, CallServer, ServerAnswers, AskBridge, ConnectClients, DisconnectClients, Probe
<1>3. CASE ServerSide
  BY <1>3, ControlFrame DEF ServerSide
<1>4. CASE \E c \in Clients : ClientEnds(c)
  BY <1>4, ControlFrame DEF ClientEnds
<1>5. CASE UNCHANGED vars
  BY <1>5, ControlFrame DEF vars, runnerVars, stepVars
<1> QED
  BY <1>1, <1>2, <1>3, <1>4, <1>5, ControlFrame DEF Next

LEMMA ControlInvariant == SafeSpec => []ControlInv
BY ControlInit, ControlNext, PTL DEF SafeSpec

\* A step is skipped exactly when an earlier one failed and it is not marked
\* `always` (runner.ts:144), in every scenario.
THEOREM StepsInOrder == Spec => []StepDiscipline
<1>1. ControlInv => StepDiscipline
  BY DEF ControlInv
<1> QED
  BY <1>1, ControlInvariant, PTL DEF Spec, SafeSpec

\* The error a run reports is the first that happened.
THEOREM FirstError == Spec => []FirstErrorIsFirst
<1>1. ControlInv => FirstErrorIsFirst
  BY DEF ControlInv
<1> QED
  BY <1>1, ControlInvariant, PTL DEF Spec, SafeSpec

\* A passed run had no failed or skipped step and no failed cleanup; a failed
\* one names its error.
THEOREM SoundVerdict == Spec => []VerdictIsSound
<1>1. ControlInv => VerdictIsSound
  <2> SUFFICES ASSUME ControlInv PROVE VerdictIsSound
    OBVIOUS
  <2>1. ASSUME report.status = "passed"
        PROVE  /\ \A i \in 1..Len(scenario) : results[i] = "passed"
               /\ values = {} /\ ~failures
    <3>1. pc = "done" /\ originalError = NoError
      BY <2>1 DEF ControlInv, ReportInv, NoReport
    <3>2. cur = Len(scenario) + 1
      BY <3>1 DEF ControlInv, ControlType, InLoop
    <3>3. values = {} /\ ~failures
      BY <3>1 DEF ControlInv, CleanupErrors, CleanedUp
    <3> QED
      BY <3>1, <3>2, <3>3, ErrorKinds, ScenarioIsShort DEF ControlInv, FirstErrorIsFirst, StepIds
  <2>2. report.status = "failed" => report.error # NoError
    BY DEF ControlInv, ReportInv, NoReport
  <2>3. CleanedUp /\ (values # {} \/ failures) => originalError # NoError
    BY DEF ControlInv, CleanupErrors
  <2> QED
    BY <2>1, <2>2, <2>3 DEF VerdictIsSound
<1> QED
  BY <1>1, ControlInvariant, PTL DEF Spec, SafeSpec

-----------------------------------------------------------------------------
(* The tasks of the steps, the services and the clients *)

TaskStates == [status : {"new", "running", "returned", "threw"}, at : Nat]

\* A task that runs stands at an op of its step.
AtAnOp(i) == i \in 1..Len(scenario) /\ task[i].at \in 1..Len(scenario[i].ops)

TaskInv ==
  /\ task \in [StepIds -> TaskStates]
  /\ \A i \in StepIds : task[i].status = "new" => task[i].at = 1
  /\ \A i \in StepIds : Running(i) => AtAnOp(i)
  /\ \A i \in StepIds : pc \in {"steps", "awaiting"} /\ i > cur => task[i].status = "new"
  /\ pc = "steps" /\ cur \in StepIds => task[cur].status = "new"

ResourceInv ==
  /\ registered \subseteq Services
  /\ containers \subseteq Services
  /\ docker \in [TaskIds -> Commands]
  /\ clients \subseteq Clients
  /\ signalled \subseteq clients
  /\ todo \subseteq Services

LEMMA ScenarioTypes ==
  ASSUME ControlInv, NEW i \in 1..Len(scenario)
  PROVE  /\ i \in StepIds
         /\ scenario[i].ops \in Seq(Ops)
         /\ Len(scenario[i].ops) \in Nat
         /\ Len(scenario[i].ops) = 0 => scenario[i].ops = <<>>
<1>1. scenario \in Seq(Steps) /\ Len(scenario) <= MaxSteps /\ MaxSteps \in Nat
  BY ScenarioAssumption DEF ControlInv, ControlType
<1>2. scenario[i] \in Steps
  BY <1>1
<1>3. scenario[i].ops \in Seq(Ops)
  BY <1>2 DEF Steps
<1> QED
  BY <1>1, <1>3 DEF StepIds

\* One task moves on, and stays at an op of its step while it runs.
LEMMA TaskMoves ==
  ASSUME ControlInv, TaskInv, NEW i \in StepIds, Running(i), UNCHANGED <<scenario, pc, cur>>,
         Advance(i) \/ Throw(i)
  PROVE  TaskInv'
<1>1. AtAnOp(i) /\ Len(scenario[i].ops) \in Nat
  BY ScenarioTypes DEF TaskInv, AtAnOp
<1>2. task[i] \in TaskStates /\ task[i].status = "running"
  BY DEF TaskInv, Running
<1>3. PICK state \in TaskStates :
        /\ task' = [task EXCEPT ![i] = state]
        /\ state.status # "new"
        /\ state.status = "running" => state.at \in 1..Len(scenario[i].ops)
  <2>1. CASE Advance(i) /\ task[i].at < Len(scenario[i].ops)
    <3>1. [task[i] EXCEPT !.at = task[i].at + 1] \in TaskStates
      BY <1>2 DEF TaskStates
    <3>2. /\ [task[i] EXCEPT !.at = task[i].at + 1].at \in 1..Len(scenario[i].ops)
          /\ [task[i] EXCEPT !.at = task[i].at + 1].status = "running"
      BY <1>1, <1>2, <2>1 DEF AtAnOp, TaskStates
    <3>3. task' = [task EXCEPT ![i] = [task[i] EXCEPT !.at = task[i].at + 1]]
      BY <2>1 DEF Advance
    <3> QED
      BY <3>1, <3>2, <3>3
  <2>2. CASE Advance(i) /\ ~(task[i].at < Len(scenario[i].ops))
    <3>1. [task[i] EXCEPT !.status = "returned"] \in TaskStates
      BY <1>2 DEF TaskStates
    <3> QED
      BY <1>2, <2>2, <3>1 DEF Advance, TaskStates
  <2>3. CASE Throw(i)
    <3>1. [task[i] EXCEPT !.status = "threw"] \in TaskStates
      BY <1>2 DEF TaskStates
    <3> QED
      BY <1>2, <2>3, <3>1 DEF Throw, TaskStates
  <2> QED
    BY <2>1, <2>2, <2>3
<1>4. task' \in [StepIds -> TaskStates] /\ task'[i] = state
  BY <1>3 DEF TaskInv
<1>5. \A j \in StepIds : j # i => task'[j] = task[j]
  BY <1>3 DEF TaskInv
<1> QED
  BY <1>1, <1>2, <1>3, <1>4, <1>5 DEF TaskInv, Running, AtAnOp

LEMMA TaskInit == Init => TaskInv
<1> SUFFICES ASSUME Init PROVE TaskInv
  OBVIOUS
<1>1. NewTask \in TaskStates /\ NewTask.status = "new" /\ NewTask.at = 1
  BY DEF NewTask, TaskStates
<1> QED
  BY <1>1 DEF Init, TaskInv, Running

\* Whatever leaves the tasks, the phase and the loop alone.
LEMMA TaskFrame == ASSUME TaskInv, UNCHANGED <<task, scenario, pc, cur>> PROVE TaskInv'
BY DEF TaskInv, Running, AtAnOp

LEMMA BeginStepTasks == ASSUME ControlInv, TaskInv, BeginStep PROVE TaskInv'
<1>1. /\ pc = "steps" /\ pc' = "awaiting" /\ cur \in 1..Len(scenario) /\ cur \in StepIds
      /\ UNCHANGED <<scenario, cur>>
  BY ScenarioTypes DEF BeginStep, CurIsStep
<1>2. task[cur] \in TaskStates /\ task[cur].at = 1
  BY <1>1 DEF TaskInv
<1>3. PICK status \in {"returned", "running"} :
        /\ task' = [task EXCEPT ![cur].status = status]
        /\ status = "running" => scenario[cur].ops # <<>>
  BY DEF BeginStep
<1>4. [task[cur] EXCEPT !.status = status] \in TaskStates
  BY <1>2 DEF TaskStates
<1>5. /\ task' = [task EXCEPT ![cur] = [task[cur] EXCEPT !.status = status]]
      /\ task' \in [StepIds -> TaskStates]
      /\ \A j \in StepIds : j # cur => task'[j] = task[j]
      /\ task'[cur].status = status /\ task'[cur].at = 1
  BY <1>1, <1>2, <1>3, <1>4 DEF TaskInv, TaskStates
<1>6. status = "running" => AtAnOp(cur)'
  BY <1>1, <1>3, <1>5, ScenarioTypes DEF AtAnOp
<1>7. \A j \in StepIds : Running(j)' => AtAnOp(j)'
  BY <1>1, <1>5, <1>6 DEF TaskInv, Running, AtAnOp
<1> QED
  BY <1>1, <1>5, <1>7 DEF TaskInv

LEMMA RunnerTasks == ASSUME ControlInv, TaskInv, Runner PROVE TaskInv'
<1>1. CASE BeginStep
  BY <1>1, BeginStepTasks
<1>2. CASE SkipStep \/ \E status \in {"passed", "failed", "timedOut"} : EndStep(status)
  <2>1. cur' = cur + 1 /\ pc' = "steps" /\ pc \in {"steps", "awaiting"} /\ UNCHANGED <<scenario, task>>
    BY <1>2 DEF SkipStep, CurIsStep, EndStep
  <2>2. cur \in Nat
    BY ScenarioIsShort
  <2>3. \A i \in StepIds : i \in Nat
    BY DEF StepIds
  <2> QED
    BY <2>1, <2>2, <2>3 DEF TaskInv, Running, AtAnOp
<1>3. CASE pc' \notin {"steps", "awaiting"} /\ UNCHANGED <<scenario, task>>
  BY <1>3 DEF TaskInv, Running, AtAnOp
<1>4. CASE StepPasses \/ StepThrows \/ StepTimesOut
  BY <1>2, <1>4 DEF StepPasses, StepThrows, StepTimesOut
<1>5. CASE CheckLog \/ CleanupDisconnects \/ CleanupStops \/ CleanupStopReturns
  BY <1>3, <1>5
  DEF CheckLog, CleanupDisconnects, CleanupStops, CleanupStopReturns, stepVars, runnerVars
<1>6. CASE (\E n \in Services : CleanupService(n)) \/ CleanupServiceEnds \/ CleanupServicesReturns
  BY <1>3, <1>6 DEF CleanupService, CleanupServiceEnds, CleanupServicesReturns, stepVars
<1>7. CASE CloseServerLog \/ WriteReport \/ RejectRun \/ LoopDrains
  BY <1>3, <1>7 DEF CloseServerLog, WriteReport, RejectRun, LoopDrains, stepVars
<1>8. CASE DockerWorks(0)
  BY <1>8, WorksFrame, TaskFrame DEF runnerVars
<1> QED
  BY <1>1, <1>2, <1>4, <1>5, <1>6, <1>7, <1>8 DEF Runner

LEMMA TaskNext == ControlInv /\ TaskInv /\ [Next]_vars => TaskInv'
<1> SUFFICES ASSUME ControlInv, TaskInv, [Next]_vars PROVE TaskInv'
  OBVIOUS
<1>1. ASSUME NEW i \in StepIds, TaskStep(i) PROVE TaskInv'
  <2>1. UNCHANGED <<scenario, pc, cur>>
    BY <1>1, ServiceStepFrame
    DEF TaskStep, CallServer, ServerAnswers, AskBridge, ConnectClients, DisconnectClients, Probe, runnerVars
  <2>2. UNCHANGED task \/ (Running(i) /\ (Advance(i) \/ Throw(i)))
    BY <1>1, ServiceStepFrame
    DEF TaskStep, CallServer, ServerAnswers, AskBridge, ConnectClients, DisconnectClients, Probe, AtOp
  <2> QED
    BY <2>1, <2>2, TaskMoves, TaskFrame
<1>2. CASE ServerSide \/ \E c \in Clients : ClientEnds(c)
  BY <1>2, TaskFrame DEF ServerSide, ClientEnds, runnerVars
<1>3. CASE UNCHANGED vars
  BY <1>3, TaskFrame DEF vars, stepVars
<1> QED
  BY <1>1, <1>2, <1>3, RunnerTasks DEF Next

\* What the supervisor's invariant says, in the names of the runner's module.
LEMMA ServerFacts ==
  ASSUME Supervisor!IInv
  PROVE  /\ Server!TypeOK
         /\ Server!AtMostOneAlive
         /\ \A c \in Server!ChildIds : Server!Alive(c) => c = process
BY DEF Supervisor!IInv, Supervisor!TypeOK, Server!TypeOK, Supervisor!OnlyCurrentAlive,
       Server!AtMostOneAlive, Supervisor!Alive, Server!Alive, Supervisor!ChildIds, Server!ChildIds,
       Supervisor!ChildStates, Server!ChildStates, Supervisor!Waits, Server!Waits,
       Supervisor!Outcomes, Server!Outcomes

Reports == [status : {"none", "passed", "failed"}, error : Errors, findings : Nat]

TypeInv == Server!TypeOK /\ ControlInv /\ TaskInv /\ ResourceInv /\ report \in Reports

LEMMA TypeInvTypes == TypeInv => TypeOK
<1> SUFFICES ASSUME TypeInv PROVE TypeOK
  OBVIOUS
<1>1. cur \in 1..(MaxSteps + 1)
  BY ScenarioIsShort DEF TypeInv, ControlInv, ControlType
<1> QED
  BY <1>1 DEF TypeInv, TypeOK, ControlInv, ControlType, Phases, TaskInv, TaskStates, ResourceInv, Reports

\* The op a task stands at.
LEMMA OpTypes ==
  ASSUME ControlInv, TaskInv, NEW i \in StepIds, Running(i)
  PROVE  /\ OpOf(i).clients \subseteq Clients
         /\ OpOf(i).kind \in DockerKinds => OpOf(i).service \in Services
<1>1. scenario[i].ops \in Seq(Ops) /\ task[i].at \in 1..Len(scenario[i].ops)
  BY ScenarioTypes DEF TaskInv, AtAnOp
<1>2. OpOf(i) \in Ops
  BY <1>1 DEF OpOf
<1> QED
  BY <1>2 DEF Ops

LEMMA CommandFacts ==
  /\ NoCommand \in Commands /\ NoCommand.stage = "none"
  /\ \A stage \in Stages \ {"none"}, n \in Services :
       Command(stage, n) \in Commands /\ Command(stage, n).stage = stage
                                      /\ Command(stage, n).service = n
  /\ \A c \in Commands : /\ c.stage \in Stages
                         /\ c.stage = "none" <=> c = NoCommand
                         /\ c.stage # "none" => c.service \in Services
<1>1. \A stage, n : Command(stage, n).stage = stage /\ Command(stage, n).service = n
  BY DEF Command
<1>2. NoCommand \in Commands /\ NoCommand.stage = "none" /\ "none" \in Stages
  BY <1>1 DEF Commands, NoCommand, Stages
<1>3. \A stage \in Stages \ {"none"}, n \in Services : Command(stage, n) \in Commands
  BY DEF Commands
<1>4. \A c \in Commands :
        c = NoCommand \/ \E stage \in Stages \ {"none"}, n \in Services : c = Command(stage, n)
  BY DEF Commands
<1> QED
  BY <1>1, <1>2, <1>3, <1>4

LEMMA Zero == 0 \in TaskIds /\ 0 \notin StepIds /\ StepIds \subseteq TaskIds
BY ScenarioAssumption DEF TaskIds, StepIds

\* What a step, or the cleanup as task 0, may do to the services.
LEMMA CommandTypes ==
  ASSUME ResourceInv, NEW t \in TaskIds,
         \/ \E stage \in Stages \ {"none"}, n \in Services : Issue(t, stage, n)
         \/ CommandEnds(t)
         \/ UNCHANGED docker
  PROVE  docker' \in [TaskIds -> Commands]
BY CommandFacts DEF ResourceInv, Issue, CommandEnds

LEMMA WorksTypes ==
  ASSUME ResourceInv, NEW t \in TaskIds, DockerWorks(t) PROVE ResourceInv'
<1>1. /\ \E stage \in Stages \ {"none"}, n \in Services : Issue(t, stage, n)
      /\ containers' \subseteq containers
  <2>1. docker[t].stage # "none"
    BY DEF DockerWorks, LogsWritten, DockerRemoves
  <2>2. docker[t].service \in Services
    BY <2>1, CommandFacts DEF ResourceInv
  <2> QED
    BY <2>2 DEF DockerWorks, LogsWritten, DockerRemoves, Stages
<1>2. UNCHANGED <<registered, clients, signalled, todo>>
  BY WorksFrame DEF runnerVars, cleanupVars, clientVars
<1> QED
  BY <1>1, <1>2, CommandTypes DEF ResourceInv

LEMMA RemovalTypes ==
  ASSUME ResourceInv, NEW t \in TaskIds, Forget(t) \/ RemovalFails(t)
  PROVE  /\ registered' \subseteq registered /\ UNCHANGED containers
         /\ docker' \in [TaskIds -> Commands]
BY CommandTypes DEF Forget, RemovalFails

LEMMA ServiceStepTypes ==
  ASSUME ControlInv, TaskInv, ResourceInv, NEW i \in StepIds, ServiceStep(i)
  PROVE  ResourceInv'
<1>1. UNCHANGED <<clients, signalled, todo>>
  BY ServiceStepFrame DEF runnerVars, cleanupVars, clientVars
<1>2. OpOf(i).service \in Services /\ i \in TaskIds
  BY ServiceStepFrame, OpTypes, Zero
<1>3. docker[i].stage # "none" => docker[i].service \in Services
  BY <1>2, CommandFacts DEF ResourceInv
<1>4. CASE BeginServiceStart(i) \/ BeginServiceStop(i)
  <2>1. UNCHANGED <<registered, containers>>
    BY <1>4 DEF BeginServiceStart, BeginServiceStop
  <2>2. \/ \E stage \in Stages \ {"none"}, n \in Services : Issue(i, stage, n)
        \/ UNCHANGED docker
    BY <1>2, <1>4 DEF BeginServiceStart, BeginServiceStop, Stages
  <2> QED
    BY <1>1, <1>2, <2>1, <2>2, CommandTypes DEF ResourceInv
<1>5. CASE DockerMakes(i)
  <2>1. docker[i].service \in Services /\ Issue(i, "made", docker[i].service)
    BY <1>3, <1>5 DEF DockerMakes
  <2>2. \E stage \in Stages \ {"none"}, n \in Services : Issue(i, stage, n)
    BY <2>1 DEF Stages
  <2> QED
    BY <1>1, <1>2, <1>5, <2>1, <2>2, CommandTypes DEF DockerMakes, ResourceInv
<1>6. CASE DockerRun(i)
  <2>1. docker[i].service \in Services /\ CommandEnds(i)
    BY <1>3, <1>6 DEF DockerRun
  <2> QED
    BY <1>1, <1>2, <1>6, <2>1, CommandTypes DEF DockerRun, ResourceInv
<1>7. CASE DockerLogs(i)
  BY <1>1, <1>7 DEF DockerLogs, serviceVars, ResourceInv
<1>8. CASE ServiceStopEnds(i)
  BY <1>1, <1>2, <1>8, RemovalTypes DEF ServiceStopEnds, ResourceInv
<1>9. CASE DockerWorks(i)
  BY <1>2, <1>9, WorksTypes
<1> QED
  BY <1>4, <1>5, <1>6, <1>7, <1>8, <1>9 DEF ServiceStep

LEMMA DisconnectTypes ==
  ASSUME ResourceInv, NEW cs, Disconnect(cs)
  PROVE  clients' \subseteq Clients /\ signalled' \subseteq clients'
BY DEF ResourceInv, Disconnect

LEMMA ConnectTypes ==
  ASSUME ResourceInv, NEW cs \in SUBSET Clients, NEW killed \in SUBSET Clients, ComeUp(cs, killed)
  PROVE  clients' \subseteq Clients /\ signalled' \subseteq clients'
BY DEF ResourceInv, ComeUp

LEMMA ResourceNext == ControlInv /\ TaskInv /\ ResourceInv /\ [Next]_vars => ResourceInv'
<1> SUFFICES ASSUME ControlInv, TaskInv, ResourceInv, [Next]_vars PROVE ResourceInv'
  OBVIOUS
<1>1. CASE UNCHANGED <<serviceVars, clientVars, todo>>
  BY <1>1 DEF ResourceInv, serviceVars, clientVars
<1>2. ASSUME NEW i \in StepIds, TaskStep(i) PROVE ResourceInv'
  <2>1. CASE CallServer(i) \/ ServerAnswers(i) \/ AskBridge(i) \/ Probe(i)
    BY <1>1, <2>1
    DEF CallServer, ServerAnswers, AskBridge, Probe, runnerVars, cleanupVars
  <2>2. CASE ConnectClients(i)
    <3>1. Running(i) /\ UNCHANGED <<serviceVars, todo>>
      BY <2>2 DEF ConnectClients, AtOp, runnerVars, cleanupVars
    <3>2. \E cs \in SUBSET Clients, killed \in SUBSET Clients : ComeUp(cs, killed)
      <4>1. OpOf(i).clients \subseteq Clients
        BY <3>1, OpTypes
      <4> QED
        BY <2>2, <4>1 DEF ConnectClients
    <3> QED
      BY <3>1, <3>2, ConnectTypes DEF ResourceInv, serviceVars
  <2>3. CASE DisconnectClients(i)
    BY <2>3, DisconnectTypes
    DEF DisconnectClients, runnerVars, serviceVars, cleanupVars, ResourceInv
  <2>4. CASE ServiceStep(i)
    BY <2>4, ServiceStepTypes
  <2> QED
    BY <1>2, <2>1, <2>2, <2>3, <2>4 DEF TaskStep
<1>3. CASE Runner
  <2>1. CASE SkipStep \/ BeginStep \/ StepPasses \/ StepThrows \/ StepTimesOut \/ CheckLog
    BY <1>1, <2>1
    DEF SkipStep, BeginStep, StepPasses, StepThrows, StepTimesOut, EndStep, CheckLog, cleanupVars
  <2>2. CASE CleanupDisconnects
    BY <2>2, DisconnectTypes DEF CleanupDisconnects, serviceVars, cleanupVars, ResourceInv
  <2>3. CASE CleanupStopReturns
    BY <2>3 DEF CleanupStopReturns, serviceVars, clientVars, ResourceInv
  <2>4. CASE \E n \in Services : CleanupService(n)
    <3>1. /\ todo' \subseteq todo /\ UNCHANGED <<registered, containers, clients, signalled>>
          /\ \/ \E n \in Services : Issue(0, "logs", n)
             \/ UNCHANGED docker
      BY <2>4 DEF CleanupService, clientVars
    <3>2. docker' \in [TaskIds -> Commands]
      BY <3>1, CommandTypes, Zero DEF Stages
    <3> QED
      BY <3>1, <3>2 DEF ResourceInv
  <2>5. CASE DockerWorks(0)
    BY <2>5, WorksTypes, Zero
  <2>6. CASE CleanupServiceEnds
    BY <2>6, RemovalTypes, Zero DEF CleanupServiceEnds, clientVars, ResourceInv
  <2>7. CASE CleanupStops \/ CleanupServicesReturns \/ CloseServerLog
    BY <1>1, <2>7 DEF CleanupStops, CleanupServicesReturns, CloseServerLog, runnerVars, cleanupVars
  <2>8. CASE WriteReport \/ RejectRun \/ LoopDrains
    BY <1>1, <2>8 DEF WriteReport, RejectRun, LoopDrains, cleanupVars
  <2> QED
    BY <1>3, <2>1, <2>2, <2>3, <2>4, <2>5, <2>6, <2>7, <2>8 DEF Runner
<1>4. CASE ServerSide
  BY <1>1, <1>4 DEF ServerSide, runnerVars, cleanupVars
<1>5. CASE \E c \in Clients : ClientEnds(c)
  BY <1>5 DEF ClientEnds, runnerVars, serviceVars, cleanupVars, ResourceInv
<1>6. CASE UNCHANGED vars
  BY <1>1, <1>6 DEF vars, cleanupVars
<1> QED
  BY <1>2, <1>3, <1>4, <1>5, <1>6 DEF Next

LEMMA ReportNext == Server!TypeOK /\ ControlInv' /\ report \in Reports /\ [Next]_vars => report' \in Reports
<1> SUFFICES ASSUME Server!TypeOK, ControlInv', report \in Reports, [Next]_vars
             PROVE  report' \in Reports
  OBVIOUS
<1>1. CASE WriteReport
  <2>1. originalError' \in Errors /\ findings \in Nat
    BY DEF ControlInv, ControlType, Server!TypeOK
  <2> QED
    BY <1>1, <2>1 DEF WriteReport, Reports
<1>2. CASE Runner /\ ~WriteReport
  BY <1>2, WorksFrame
  DEF Runner, SkipStep, BeginStep, StepPasses, StepThrows, StepTimesOut, EndStep, CheckLog,
      CleanupDisconnects, CleanupStops, CleanupStopReturns, CleanupService, CleanupServiceEnds,
      CleanupServicesReturns, CloseServerLog, RejectRun, LoopDrains, runnerVars
<1>3. ASSUME NEW i \in StepIds, TaskStep(i) PROVE report' \in Reports
  BY <1>3, ServiceStepFrame
    DEF TaskStep, CallServer, ServerAnswers, AskBridge, ConnectClients, DisconnectClients, Probe, runnerVars
<1>4. CASE ServerSide \/ (\E c \in Clients : ClientEnds(c)) \/ UNCHANGED vars
  BY <1>4 DEF ServerSide, ClientEnds, runnerVars, vars
<1> QED
  BY <1>1, <1>2, <1>3, <1>4 DEF Next

LEMMA TypeInvariant == SafeSpec => [](Supervisor!IInv /\ TypeInv)
<1>1. Init => TaskInv /\ ResourceInv /\ report \in Reports
  <2>1. NoReport \in Reports
    BY ErrorKinds DEF NoReport, Reports
  <2> QED
    BY <2>1, TaskInit, CommandFacts DEF Init, ResourceInv
<1>2. Supervisor!IInv /\ ControlInv /\ ControlInv' /\ TaskInv /\ ResourceInv /\ report \in Reports
      /\ [Next]_vars => (TaskInv /\ ResourceInv /\ report \in Reports)'
  BY TaskNext, ResourceNext, ReportNext, ServerFacts
<1>3. Supervisor!IInv => Server!TypeOK
  BY ServerFacts
<1> QED
  BY <1>1, <1>2, <1>3, ServerInvariant, ControlInvariant, PTL DEF SafeSpec, TypeInv

\* Type correctness of a run and of its supervisor.
THEOREM TypeCorrect == Spec => []TypeOK
BY TypeInvariant, TypeInvTypes, PTL DEF Spec, SafeSpec

\* No run ever has two server processes at once in its run directory, its
\* timed-out steps and its cleanup included.
THEOREM OneServerPerRun == Spec => []Server!AtMostOneAlive
<1>1. Supervisor!IInv => Server!AtMostOneAlive
  BY ServerFacts
<1> QED
  BY <1>1, ServerInvariant, PTL DEF Spec, SafeSpec

-----------------------------------------------------------------------------
(* The tasks that outlive their steps *)

LEMMA LingerNext ==
  TypeInv /\ OnlyTimedOutTasksLinger /\ [Next]_vars => OnlyTimedOutTasksLinger'
<1> SUFFICES ASSUME TypeInv, OnlyTimedOutTasksLinger, [Next]_vars,
                    NEW i \in StepIds, Running(i)'
             PROVE  (pc' \in {"awaiting", "drained"} /\ i = cur') \/ results'[i] = "timedOut"
  BY DEF OnlyTimedOutTasksLinger
<1>1. CASE Running(i) /\ UNCHANGED <<pc, cur, results>>
  BY <1>1 DEF OnlyTimedOutTasksLinger
<1>2. ASSUME NEW j \in StepIds, TaskStep(j)
      PROVE  Running(i) /\ UNCHANGED <<pc, cur, results>>
  BY <1>2, ServiceStepFrame
    DEF TaskStep, CallServer, ServerAnswers, AskBridge, ConnectClients, DisconnectClients, Probe, AtOp, Advance, Throw, Running, runnerVars,
      TypeInv, TaskInv
<1>3. CASE ServerSide \/ (\E c \in Clients : ClientEnds(c)) \/ UNCHANGED vars
  BY <1>1, <1>3 DEF ServerSide, ClientEnds, runnerVars, vars, stepVars, Running
<1>4. CASE SkipStep
  <2>1. i # cur /\ pc = "steps" /\ Running(i)
    BY <1>4 DEF SkipStep, CurIsStep, Running, TypeInv, TaskInv
  <2> QED
    BY <1>4, <2>1 DEF SkipStep, OnlyTimedOutTasksLinger, TypeInv, ControlInv, ControlType
<1>5. CASE BeginStep
  BY <1>5 DEF BeginStep, CurIsStep, OnlyTimedOutTasksLinger, Running, TypeInv, TaskInv
<1>6. CASE StepPasses \/ StepThrows
  BY <1>6
  DEF StepPasses, StepThrows, EndStep, OnlyTimedOutTasksLinger, Running, TypeInv, ControlInv,
      ControlType
<1>7. CASE StepTimesOut
  BY <1>7
  DEF StepTimesOut, EndStep, OnlyTimedOutTasksLinger, Running, TypeInv, ControlInv, ControlType
<1>8. CASE CheckLog \/ CleanupDisconnects \/ CleanupStops \/ CleanupStopReturns
  BY <1>8
  DEF CheckLog, CleanupDisconnects, CleanupStops, CleanupStopReturns, stepVars, runnerVars,
      OnlyTimedOutTasksLinger, Running
<1>9. CASE (\E n \in Services : CleanupService(n)) \/ CleanupServiceEnds \/ CleanupServicesReturns
  BY <1>9
  DEF CleanupService, CleanupServiceEnds, CleanupServicesReturns, stepVars, OnlyTimedOutTasksLinger,
      Running
<1>10. CASE CloseServerLog \/ WriteReport \/ RejectRun \/ LoopDrains
  BY <1>10
  DEF CloseServerLog, WriteReport, RejectRun, LoopDrains, stepVars, OnlyTimedOutTasksLinger, Running
<1>11. CASE DockerWorks(0)
  BY <1>1, <1>11, WorksFrame DEF runnerVars, Running
<1> QED
  BY <1>1, <1>2, <1>3, <1>4, <1>5, <1>6, <1>7, <1>8, <1>9, <1>10, <1>11 DEF Next, Runner

LEMMA LingerInvariant ==
  SafeSpec => [](Supervisor!IInv /\ TypeInv /\ OnlyTimedOutTasksLinger)
<1>1. Init => OnlyTimedOutTasksLinger
  BY DEF Init, OnlyTimedOutTasksLinger, Running, NewTask
<1> QED
  BY <1>1, LingerNext, TypeInvariant, PTL DEF SafeSpec

\* Steps run one at a time, and what still runs beside them or after them is a
\* step that was given up on (utils.ts:108, withTimeout does not cancel).
THEOREM OnlyTimedOutLinger == Spec => []OnlyTimedOutTasksLinger
BY LingerInvariant, PTL DEF Spec, SafeSpec

-----------------------------------------------------------------------------
(* What is forgotten *)

Removing(t, n) == docker[t].stage \in {"logs", "rm", "removed"} /\ docker[t].service = n

\* A Docker command belongs to the task that stands at its op, or to the cleanup.
CommandInv ==
  /\ \A i \in StepIds :
       /\ docker[i].stage \in {"run", "made"} =>
            AtOp(i, "dockerRun") /\ OpOf(i).service = docker[i].service
       /\ docker[i].stage \in {"logs", "rm", "removed"} => AtOp(i, "dockerRm")
  /\ docker[0].stage \notin {"run", "made"}
  /\ docker[0] # NoCommand => pc = "services"

\* The scenario may still come to start n with the kth op of step i.
ToStart(i, k, n) ==
  /\ i \in 1..Len(scenario) /\ k \in 1..Len(scenario[i].ops) /\ StartsService(i, k, n)
  /\ task[i].status = "new" \/ (Running(i) /\ task[i].at <= k)

\* A service that is started in one place is known, or being removed, only
\* after that place.
StartInv ==
  \A n \in Services :
    StartedOnce(n) /\ (n \in registered \/ \E t \in TaskIds : Removing(t, n)) =>
      \A i, k : ~ToStart(i, k, n)

\* What Docker has removed is still gone when the task that asked hears of it.
GoneInv ==
  \A t \in TaskIds :
    docker[t].stage = "removed" /\ (StartedOnce(docker[t].service) \/ NoStepTimedOut) =>
      docker[t].service \notin containers

\* A step's task touches neither the command nor the progress of another's.
LEMMA TaskAlone ==
  ASSUME TypeInv, NEW i \in StepIds, TaskStep(i), NEW j \in TaskIds, j # i
  PROVE  docker'[j] = docker[j] /\ (j \in StepIds => task'[j] = task[j])
<1>1. UNCHANGED docker \/ \E c : docker' = [docker EXCEPT ![i] = c]
  BY DEF TaskStep, CallServer, ServerAnswers, AskBridge, ConnectClients, DisconnectClients, Probe,
         ServiceStep, BeginServiceStart, DockerMakes, DockerRun, DockerLogs, BeginServiceStop,
         ServiceStopEnds, DockerWorks, LogsWritten, DockerRemoves, Forget, RemovalFails, Issue,
         CommandEnds, serviceVars
<1>2. UNCHANGED task \/ Advance(i) \/ Throw(i)
  BY ServiceStepFrame
  DEF TaskStep, CallServer, ServerAnswers, AskBridge, ConnectClients, DisconnectClients, Probe
<1> QED
  BY <1>1, <1>2, Zero DEF TypeInv, ResourceInv, TaskInv, Advance, Throw

\* What the runner itself does to Docker, it does in cleanupServices().
LEMMA RunnerDocker ==
  ASSUME Runner
  PROVE  /\ UNCHANGED scenario
         /\ UNCHANGED task \/ BeginStep
         /\ \/ UNCHANGED serviceVars /\ (pc' = "services" <=> pc = "services")
            \/ UNCHANGED serviceVars /\ docker[0] = NoCommand /\ pc = "services"
            \/ UNCHANGED serviceVars /\ pc = "stopping"
            \/ (\E n \in Services : CleanupService(n)) \/ DockerWorks(0) \/ CleanupServiceEnds
<1>1. CASE SkipStep \/ BeginStep \/ StepPasses \/ StepThrows \/ StepTimesOut \/ CheckLog
  BY <1>1
  DEF SkipStep, CurIsStep, BeginStep, StepPasses, StepThrows, StepTimesOut, EndStep, CheckLog,
      stepVars
<1>2. CASE CleanupDisconnects \/ CleanupStops \/ CleanupStopReturns \/ CleanupServicesReturns
  BY <1>2
  DEF CleanupDisconnects, CleanupStops, CleanupStopReturns, CleanupServicesReturns, stepVars,
      runnerVars
<1>3. CASE CloseServerLog \/ WriteReport \/ RejectRun \/ LoopDrains
  BY <1>3 DEF CloseServerLog, WriteReport, RejectRun, LoopDrains, stepVars
<1>4. CASE (\E n \in Services : CleanupService(n)) \/ DockerWorks(0) \/ CleanupServiceEnds
  BY <1>4, WorksFrame DEF CleanupService, CleanupServiceEnds, stepVars, runnerVars
<1> QED
  BY <1>1, <1>2, <1>3, <1>4 DEF Runner

\* Of the server, the clients and a step that does nothing, Docker hears nothing.
LEMMA OthersDocker ==
  ASSUME ServerSide \/ (\E c \in Clients : ClientEnds(c)) \/ UNCHANGED vars
  PROVE  UNCHANGED <<runnerVars, task, serviceVars>>
BY DEF ServerSide, ClientEnds, vars, runnerVars, stepVars

\* A task starts with its first op and goes from each to a later one.
LEMMA TaskGoesOn ==
  ASSUME TypeInv, [Next]_vars, NEW i \in StepIds
  PROVE  /\ UNCHANGED scenario
         /\ task'[i].status = "new" => task[i].status = "new"
         /\ Running(i)' => task[i].status \in {"new", "running"} /\ task[i].at <= task'[i].at
         /\ task[i].status = "threw" => task'[i].status = "threw"
<1> task \in [StepIds -> TaskStates] /\ task[i].at \in Nat
  BY DEF TypeInv, TaskInv, TaskStates
<1>1. CASE UNCHANGED <<task, scenario>>
  BY <1>1 DEF Running
<1>2. CASE BeginStep
  <2>1. cur \in StepIds /\ task[cur].status = "new" /\ UNCHANGED scenario
    BY <1>2, ScenarioTypes DEF BeginStep, CurIsStep, TypeInv, TaskInv
  <2>2. i # cur => task'[i] = task[i]
    BY <1>2 DEF BeginStep
  <2>3. i = cur => task'[i].at = task[i].at /\ task'[i].status # "new"
    BY <1>2 DEF BeginStep, TaskStates
  <2> QED
    BY <2>1, <2>2, <2>3 DEF Running
<1>3. ASSUME NEW j \in StepIds, TaskStep(j)
      PROVE  /\ Running(j) /\ UNCHANGED scenario
             /\ UNCHANGED task \/ Advance(j) \/ Throw(j)
  BY <1>3, ServiceStepFrame
  DEF TaskStep, CallServer, ServerAnswers, AskBridge, ConnectClients, DisconnectClients, Probe,
      AtOp, runnerVars
<1>4. ASSUME NEW j \in StepIds, Running(j), Advance(j) \/ Throw(j)
      PROVE  /\ task'[i].status = "new" => task[i].status = "new"
             /\ Running(i)' => task[i].status \in {"new", "running"} /\ task[i].at <= task'[i].at
             /\ task[i].status = "threw" => task'[i].status = "threw"
  <2>1. i # j => task'[i] = task[i]
    BY <1>4 DEF Advance, Throw
  <2>2. i = j => /\ task'[i].status \in {"running", "returned", "threw"}
                 /\ task'[i].at \in {task[i].at, task[i].at + 1}
    BY <1>4 DEF Advance, Throw, Running, TaskStates
  <2> QED
    BY <1>4, <2>1, <2>2 DEF Running
<1> QED
  BY <1>1, <1>2, <1>3, <1>4, RunnerDocker, OthersDocker DEF Next, runnerVars

LEMMA CommandInit == Init => CommandInv
BY Zero, CommandFacts DEF Init, CommandInv

\* A step that does not touch Docker stands at no op that waits for it.
LEMMA CommandNext == TypeInv /\ CommandInv /\ [Next]_vars => CommandInv'
<1> SUFFICES ASSUME TypeInv, CommandInv, [Next]_vars PROVE CommandInv'
  OBVIOUS
<1> docker \in [TaskIds -> Commands] /\ 0 \in TaskIds /\ StepIds \subseteq TaskIds /\ 0 \notin StepIds
  BY Zero DEF TypeInv, ResourceInv
<1>1. CASE UNCHANGED <<docker, task, scenario>> /\ (pc = "services" => pc' = "services" \/ docker[0] = NoCommand)
  BY <1>1 DEF CommandInv, AtOp, Running, OpOf
<1>2. ASSUME NEW i \in StepIds, TaskStep(i) PROVE CommandInv'
  <2>1. UNCHANGED <<scenario, pc>>
    BY <1>2, ServiceStepFrame
    DEF TaskStep, CallServer, ServerAnswers, AskBridge, ConnectClients, DisconnectClients, Probe,
        runnerVars
  <2>2. \A j \in TaskIds : j # i => docker'[j] = docker[j] /\ (j \in StepIds => task'[j] = task[j])
    BY <1>2, TaskAlone
  <2>3. /\ docker'[i].stage \in {"run", "made"} =>
             (AtOp(i, "dockerRun") /\ OpOf(i).service = docker[i].service)'
        /\ docker'[i].stage \in {"logs", "rm", "removed"} => AtOp(i, "dockerRm")'
    <3>1. CASE docker'[i].stage = "none"
      BY <3>1
    <3>2. CASE UNCHANGED <<docker, task>>
      BY <2>1, <3>2 DEF CommandInv, AtOp, Running, OpOf
    <3>3. CASE ServerAnswers(i) \/ AskBridge(i) \/ ConnectClients(i) \/ DisconnectClients(i)
               \/ DockerLogs(i) \/ Probe(i)
      <4>1. ~AtOp(i, "dockerRun") /\ ~AtOp(i, "dockerRm") /\ UNCHANGED docker
        BY <3>3
        DEF ServerAnswers, AskBridge, ConnectClients, DisconnectClients, DockerLogs, Probe, AtOp,
            serviceVars
      <4> QED
        BY <4>1 DEF CommandInv
    <3>4. CASE CallServer(i)
      BY <3>2, <3>4 DEF CallServer, serviceVars
    <3>5. CASE BeginServiceStart(i)
      <4>1. CASE UNCHANGED docker /\ docker[i] = NoCommand
        BY <3>1, <4>1, CommandFacts
      <4>2. CASE Issue(i, "run", OpOf(i).service) /\ UNCHANGED task
        <5>1. docker'[i] = Command("run", OpOf(i).service)
          BY <4>2 DEF Issue
        <5>2. docker'[i].stage = "run" /\ docker'[i].service = OpOf(i).service
          BY <5>1 DEF Command
        <5> QED
          BY <2>1, <3>5, <4>2, <5>2 DEF BeginServiceStart, AtOp, Running, OpOf
      <4> QED
        BY <3>5, <4>1, <4>2 DEF BeginServiceStart
    <3>6. CASE DockerMakes(i)
      <4>1. docker'[i].stage = "made" /\ docker'[i].service = docker[i].service
        BY <3>6 DEF DockerMakes, Issue, Command
      <4> QED
        BY <2>1, <3>6, <4>1 DEF DockerMakes, CommandInv, AtOp, Running, OpOf
    <3>7. CASE DockerRun(i) \/ ServiceStopEnds(i)
      BY <3>1, <3>7, CommandFacts DEF DockerRun, ServiceStopEnds, Forget, RemovalFails, CommandEnds
    <3>8. CASE BeginServiceStop(i)
      <4>1. CASE UNCHANGED docker /\ docker[i] = NoCommand
        BY <3>1, <4>1, CommandFacts
      <4>2. CASE Issue(i, "logs", OpOf(i).service) /\ UNCHANGED task
        <5>1. docker'[i].stage = "logs"
          BY <4>2 DEF Issue, Command
        <5> QED
          BY <2>1, <3>8, <4>2, <5>1 DEF BeginServiceStop, AtOp, Running, OpOf
      <4> QED
        BY <3>8, <4>1, <4>2 DEF BeginServiceStop
    <3>9. CASE AtOp(i, "dockerRm") /\ DockerWorks(i)
      <4>1. docker'[i].stage \in {"rm", "removed"} /\ UNCHANGED task
        BY <3>9 DEF DockerWorks, LogsWritten, DockerRemoves, Issue, Command
      <4> QED
        BY <2>1, <3>9, <4>1 DEF AtOp, Running, OpOf
    <3> QED
      BY <1>2, <3>3, <3>4, <3>5, <3>6, <3>7, <3>8, <3>9 DEF TaskStep, ServiceStep
  <2> QED
    BY <2>1, <2>2, <2>3 DEF CommandInv, AtOp, Running, OpOf
<1>3. CASE BeginStep
  <2>1. cur \in StepIds /\ ~Running(cur) /\ UNCHANGED <<docker, scenario>> /\ pc # "services"
    BY <1>3, ScenarioTypes DEF BeginStep, CurIsStep, TypeInv, TaskInv, Running, serviceVars
  <2>2. \A i \in StepIds : i # cur => task'[i] = task[i]
    BY <1>3 DEF BeginStep, TypeInv, TaskInv
  <2> QED
    BY <2>1, <2>2 DEF CommandInv, AtOp, Running, OpOf
<1>4. CASE (\E n \in Services : CleanupService(n)) \/ DockerWorks(0) \/ CleanupServiceEnds
  <2>1. UNCHANGED <<scenario, task, pc>>
    BY <1>4, WorksFrame DEF CleanupService, CleanupServiceEnds, stepVars, runnerVars
  <2>2. pc = "services"
    <3>1. DockerWorks(0) => docker[0] # NoCommand
      BY CommandFacts DEF DockerWorks, LogsWritten, DockerRemoves
    <3> QED
      BY <1>4, <3>1 DEF CleanupService, CleanupServiceEnds, CommandInv
  <2>3. \A i \in StepIds : docker'[i] = docker[i]
    BY <1>4
    DEF CleanupService, CleanupServiceEnds, DockerWorks, LogsWritten, DockerRemoves, Forget,
        RemovalFails, Issue, CommandEnds
  <2>4. docker'[0].stage \notin {"run", "made"}
    BY <1>4
    DEF CommandInv, CleanupService, CleanupServiceEnds, DockerWorks, LogsWritten, DockerRemoves,
        Forget, RemovalFails, Issue, CommandEnds, Command, NoCommand
  <2> QED
    BY <2>1, <2>2, <2>3, <2>4 DEF CommandInv, AtOp, Running, OpOf
<1>5. CASE Runner
  BY <1>1, <1>3, <1>4, <1>5, RunnerDocker DEF serviceVars, CommandInv
<1> QED
  BY <1>1, <1>2, <1>5, OthersDocker DEF Next, runnerVars, serviceVars

LEMMA ToStartShrinks ==
  ASSUME TypeInv, [Next]_vars, NEW i, NEW k, NEW n, ToStart(i, k, n)'
  PROVE  ToStart(i, k, n)
<1>1. UNCHANGED scenario /\ i \in 1..Len(scenario)
  <2>1. CASE BeginStep
    BY <2>1 DEF BeginStep, ToStart
  <2>2. \A j \in StepIds : TaskStep(j) => UNCHANGED scenario
    BY ServiceStepFrame
    DEF TaskStep, CallServer, ServerAnswers, AskBridge, ConnectClients, DisconnectClients, Probe,
        runnerVars
  <2>3. UNCHANGED scenario
    BY <2>1, <2>2, RunnerDocker, OthersDocker DEF Next, runnerVars
  <2> QED
    BY <2>3 DEF ToStart
<1>2. i \in StepIds /\ k \in 1..Len(scenario[i].ops) /\ k \in Nat
  BY <1>1, ScenarioTypes DEF ToStart, TypeInv
<1>3. task \in [StepIds -> TaskStates] /\ task[i].at \in Nat /\ task'[i].at \in Nat
  <2>1. task' \in [StepIds -> TaskStates]
    BY TaskNext DEF TypeInv, TaskInv
  <2> QED
    BY <1>2, <2>1 DEF TypeInv, TaskInv, TaskStates
<1>4. CASE task'[i].status = "new"
  BY <1>1, <1>2, <1>4, TaskGoesOn DEF ToStart, StartsService
<1>5. CASE Running(i)' /\ task'[i].at <= k
  BY <1>1, <1>2, <1>3, <1>5, TaskGoesOn DEF ToStart, StartsService, Running
<1> QED
  BY <1>4, <1>5 DEF ToStart

\* Known to the harness, or being removed by some task.
Started(n) == n \in registered \/ \E t \in TaskIds : Removing(t, n)

\* Only `docker run` makes a service known that was not.
LEMMA StartedBy ==
  ASSUME TypeInv, [Next]_vars, NEW n \in Services, Started(n)'
  PROVE  Started(n) \/ \E i \in StepIds : DockerRun(i) /\ docker[i].service = n /\ Advance(i)
<1> docker \in [TaskIds -> Commands] /\ 0 \in TaskIds /\ StepIds \subseteq TaskIds
  BY Zero DEF TypeInv, ResourceInv
<1>1. ASSUME UNCHANGED serviceVars PROVE Started(n)
  BY <1>1 DEF serviceVars, Started, Removing
<1>2. ASSUME NEW t \in TaskIds, registered' \subseteq registered,
             CommandEnds(t) \/ \E m \in registered : Issue(t, "logs", m)
      PROVE  Started(n)
  <2>1. \A u \in TaskIds : u # t => docker'[u] = docker[u]
    BY <1>2 DEF CommandEnds, Issue
  <2>2. Removing(t, n)' => n \in registered
    BY <1>2 DEF CommandEnds, Issue, Command, NoCommand, Removing
  <2> QED
    BY <1>2, <2>1, <2>2 DEF Started, Removing
<1>3. ASSUME NEW t \in TaskIds, DockerWorks(t) PROVE Started(n)
  <2>1. \A u \in TaskIds : u # t => docker'[u] = docker[u]
    BY <1>3 DEF DockerWorks, LogsWritten, DockerRemoves, Issue
  <2>2. Removing(t, n)' => Removing(t, n)
    BY <1>3 DEF DockerWorks, LogsWritten, DockerRemoves, Issue, Command, Removing
  <2>3. UNCHANGED registered
    BY <1>3, WorksFrame
  <2> QED
    BY <2>1, <2>2, <2>3 DEF Started, Removing
<1>4. ASSUME NEW t \in TaskIds, Forget(t) \/ RemovalFails(t) PROVE Started(n)
  BY <1>2, <1>4 DEF Forget, RemovalFails
<1>5. ASSUME NEW t \in TaskIds, UNCHANGED registered,
             \E m \in Services, stage \in {"run", "made"} : Issue(t, stage, m)
      PROVE  Started(n)
  <2>1. \A u \in TaskIds : u # t => docker'[u] = docker[u]
    BY <1>5 DEF Issue
  <2>2. ~Removing(t, n)'
    BY <1>5 DEF Issue, Command, Removing
  <2> QED
    BY <1>5, <2>1, <2>2 DEF Started, Removing
<1>6. ASSUME NEW i \in StepIds, ServiceStep(i)
      PROVE  Started(n) \/ (DockerRun(i) /\ docker[i].service = n /\ Advance(i))
  <2>1. CASE BeginServiceStart(i)
    <3>1. OpOf(i).service \in Services
      BY <1>6, ServiceStepFrame, OpTypes DEF TypeInv
    <3> QED
      <4>1. CASE UNCHANGED docker
        BY <1>1, <2>1, <4>1 DEF BeginServiceStart, serviceVars
      <4>2. CASE Issue(i, "run", OpOf(i).service)
        BY <1>5, <2>1, <3>1, <4>2 DEF BeginServiceStart
      <4> QED
        BY <2>1, <4>1, <4>2 DEF BeginServiceStart
  <2>2. CASE DockerMakes(i)
    <3>1. docker[i].service \in Services
      BY <2>2, CommandFacts DEF DockerMakes
    <3> QED
      BY <1>5, <2>2, <3>1 DEF DockerMakes
  <2>3. CASE DockerRun(i)
    <3>1. CASE UNCHANGED registered
      BY <1>2, <2>3, <3>1 DEF DockerRun
    <3>2. CASE registered' = registered \union {docker[i].service} /\ Advance(i)
      <4>1. \A u \in TaskIds : Removing(u, n)' => Removing(u, n)
        BY <2>3 DEF DockerRun, CommandEnds, NoCommand, Command, Removing
      <4> QED
        BY <2>3, <3>2, <4>1 DEF Started
    <3> QED
      BY <2>3, <3>1, <3>2 DEF DockerRun
  <2>4. CASE DockerLogs(i)
    BY <1>1, <2>4 DEF DockerLogs
  <2>5. CASE BeginServiceStop(i)
    <3>1. CASE UNCHANGED docker
      BY <1>1, <2>5, <3>1 DEF BeginServiceStop, serviceVars
    <3>2. CASE OpOf(i).service \in registered /\ Issue(i, "logs", OpOf(i).service)
      BY <1>2, <2>5, <3>2 DEF BeginServiceStop
    <3> QED
      BY <2>5, <3>1, <3>2 DEF BeginServiceStop
  <2>6. CASE ServiceStopEnds(i)
    BY <1>4, <2>6 DEF ServiceStopEnds
  <2>7. CASE DockerWorks(i)
    BY <1>3, <2>7
  <2> QED
    BY <1>6, <2>1, <2>2, <2>3, <2>4, <2>5, <2>6, <2>7 DEF ServiceStep
<1>7. ASSUME NEW i \in StepIds, TaskStep(i), ~ServiceStep(i) PROVE UNCHANGED serviceVars
  BY <1>7
  DEF TaskStep, CallServer, ServerAnswers, AskBridge, ConnectClients, DisconnectClients, Probe
<1>8. CASE \E m \in Services : CleanupService(m)
  BY <1>1, <1>2, <1>8 DEF CleanupService, serviceVars
<1>9. CASE CleanupServiceEnds
  BY <1>4, <1>9 DEF CleanupServiceEnds
<1>10. CASE Runner
  BY <1>1, <1>3, <1>8, <1>9, <1>10, RunnerDocker
<1> QED
  BY <1>1, <1>6, <1>7, <1>10, OthersDocker DEF Next

LEMMA StartInit == Init => StartInv
BY CommandFacts DEF Init, StartInv, Removing

\* The op that made the service known is behind its task, and there is no other.
LEMMA StartNext == TypeInv /\ CommandInv /\ StartInv /\ [Next]_vars => StartInv'
<1> SUFFICES ASSUME TypeInv, CommandInv, StartInv, [Next]_vars,
                    NEW n \in Services, StartedOnce(n)', Started(n)',
                    NEW i, NEW k, ToStart(i, k, n)'
             PROVE  FALSE
  BY DEF StartInv, Started
<1>1. ToStart(i, k, n)
  BY ToStartShrinks
<1>2. PICK j \in StepIds : DockerRun(j) /\ docker[j].service = n /\ Advance(j)
  <2>1. \A s \in StepIds : UNCHANGED scenario
    BY TaskGoesOn
  <2>2. i \in StepIds
    BY <1>1, ScenarioTypes DEF ToStart, TypeInv
  <2>3. StartedOnce(n)
    BY <2>1, <2>2 DEF StartedOnce, StartsService
  <2> QED
    BY <1>1, <2>3, StartedBy DEF StartInv, Started
<1>3. /\ AtOp(j, "dockerRun") /\ OpOf(j).service = n
      /\ AtAnOp(j) /\ StartsService(j, task[j].at, n)
  BY <1>2 DEF DockerRun, CommandInv, AtOp, StartsService, OpOf, TypeInv, TaskInv
<1>4. i = j /\ k = task[j].at
  <2>1. UNCHANGED scenario
    BY <1>2, TaskGoesOn
  <2>2. StartedOnce(n)
    BY <2>1 DEF StartedOnce, StartsService
  <2> QED
    BY <1>1, <1>3, <2>2 DEF ToStart, StartedOnce, AtAnOp
<1>5. task'[j].status = "returned" \/ (task'[j].status = "running" /\ task'[j].at = k + 1)
  BY <1>2, <1>3, <1>4 DEF Advance, TypeInv, TaskInv, TaskStates, AtOp, Running
<1>6. k \in Nat
  BY <1>1, <1>4, <1>3 DEF TypeInv, TaskInv, TaskStates
<1> QED
  BY <1>4, <1>5, <1>6 DEF ToStart, Running

\* No step is timed out that was not before, but the one that is awaited.
LEMMA TimedOutStays ==
  ASSUME TypeInv, [Next]_vars, NEW i \in StepIds
  PROVE  /\ results[i] = "timedOut" => results'[i] = "timedOut"
         /\ StepFailed(i) => StepFailed(i)'
<1>1. CASE UNCHANGED results
  BY <1>1 DEF StepFailed
<1>2. CASE SkipStep \/ StepPasses \/ StepThrows \/ StepTimesOut
  <2>1. cur \in StepIds /\ results[cur] = "none"
    BY <1>2, ScenarioIsShort
    DEF SkipStep, CurIsStep, StepPasses, StepThrows, StepTimesOut, EndStep, TypeInv, ControlInv,
        ControlType, StepDiscipline
  <2>2. \A j \in StepIds : j # cur => results'[j] = results[j]
    BY <1>2
    DEF SkipStep, StepPasses, StepThrows, StepTimesOut, EndStep, TypeInv, ControlInv, ControlType
  <2> QED
    BY <2>1, <2>2 DEF StepFailed
<1>3. CASE Runner /\ ~(SkipStep \/ StepPasses \/ StepThrows \/ StepTimesOut)
  BY <1>1, <1>3, WorksFrame
  DEF Runner, BeginStep, CheckLog, CleanupDisconnects, CleanupStops, CleanupStopReturns,
      CleanupService, CleanupServiceEnds, CleanupServicesReturns, CloseServerLog, WriteReport,
      RejectRun, LoopDrains, stepVars, runnerVars
<1>4. ASSUME NEW j \in StepIds, TaskStep(j) PROVE UNCHANGED results
  BY <1>4, ServiceStepFrame
  DEF TaskStep, CallServer, ServerAnswers, AskBridge, ConnectClients, DisconnectClients, Probe,
      runnerVars
<1>5. CASE ServerSide \/ (\E c \in Clients : ClientEnds(c)) \/ UNCHANGED vars
  BY <1>1, <1>5, OthersDocker DEF runnerVars
<1> QED
  BY <1>1, <1>2, <1>3, <1>4, <1>5 DEF Next

\* Docker makes a container only for the task that starts its service.
LEMMA MadeBy ==
  ASSUME TypeInv, [Next]_vars, NEW n \in containers', n \notin containers
  PROVE  \E i \in StepIds : DockerMakes(i) /\ docker[i].service = n
<1>1. ~(UNCHANGED containers) /\ ~(\E t \in TaskIds : DockerWorks(t))
  BY DEF DockerWorks, LogsWritten, DockerRemoves
<1>2. \A i \in StepIds :
        TaskStep(i) => DockerMakes(i) \/ DockerWorks(i) \/ UNCHANGED containers
  BY DEF TaskStep, CallServer, ServerAnswers, AskBridge, ConnectClients, DisconnectClients, Probe,
         ServiceStep, BeginServiceStart, DockerRun, DockerLogs, BeginServiceStop, ServiceStopEnds,
         Forget, RemovalFails, serviceVars
<1>3. Runner => DockerWorks(0) \/ UNCHANGED containers
  BY RunnerDocker DEF CleanupService, CleanupServiceEnds, Forget, RemovalFails, serviceVars
<1>4. PICK i \in StepIds : DockerMakes(i)
  BY <1>1, <1>2, <1>3, OthersDocker, Zero DEF Next, serviceVars
<1> QED
  BY <1>4 DEF DockerMakes

\* The task that hears of a removal is the one that Docker removed for.
LEMMA RemovedBy ==
  ASSUME TypeInv, [Next]_vars, NEW t \in TaskIds, docker'[t].stage = "removed"
  PROVE  docker'[t] = docker[t] \/ docker'[t].service \notin containers'
<1> docker \in [TaskIds -> Commands] /\ 0 \in TaskIds /\ StepIds \subseteq TaskIds
  BY Zero DEF TypeInv, ResourceInv
<1>1. ASSUME NEW u \in TaskIds,
             CommandEnds(u) \/ \E stage \in Stages \ {"removed"} : \E n : Issue(u, stage, n)
      PROVE  docker'[t] = docker[t]
  BY <1>1 DEF CommandEnds, Issue, Command, NoCommand
<1>2. ASSUME NEW u \in TaskIds, DockerWorks(u)
      PROVE  docker'[t] = docker[t] \/ docker'[t].service \notin containers'
  <2>1. CASE LogsWritten(u)
    BY <1>1, <2>1 DEF LogsWritten, Stages
  <2>2. CASE DockerRemoves(u)
    BY <2>2 DEF DockerRemoves, Issue, Command
  <2> QED
    BY <1>2, <2>1, <2>2 DEF DockerWorks
<1>3. ASSUME NEW i \in StepIds, TaskStep(i), ~DockerWorks(i) PROVE docker'[t] = docker[t]
  BY <1>1, <1>3
  DEF TaskStep, CallServer, ServerAnswers, AskBridge, ConnectClients, DisconnectClients, Probe,
      ServiceStep, BeginServiceStart, DockerMakes, DockerRun, DockerLogs, BeginServiceStop,
      ServiceStopEnds, Forget, RemovalFails, serviceVars, Stages
<1>4. CASE (\E n \in Services : CleanupService(n)) \/ CleanupServiceEnds
  BY <1>1, <1>4 DEF CleanupService, CleanupServiceEnds, Forget, RemovalFails, Stages
<1> QED
  BY <1>2, <1>3, <1>4, RunnerDocker, OthersDocker DEF Next, serviceVars

LEMMA GoneInit == Init => GoneInv
BY CommandFacts DEF Init, GoneInv

\* To make the container anew a task must still start the service, which it
\* does not if that is done in one place, or run beside the one that removes it.
LEMMA GoneNext ==
  TypeInv /\ OnlyTimedOutTasksLinger /\ CommandInv /\ StartInv /\ GoneInv /\ [Next]_vars
    => GoneInv'
<1> SUFFICES ASSUME TypeInv, OnlyTimedOutTasksLinger, CommandInv, StartInv, GoneInv, [Next]_vars,
                    NEW t \in TaskIds, docker'[t].stage = "removed",
                    (StartedOnce(docker[t].service) \/ NoStepTimedOut)',
                    docker'[t].service \in containers'
             PROVE  FALSE
  BY DEF GoneInv
<1> DEFINE n == docker[t].service
<1>1. docker'[t] = docker[t] /\ docker[t].stage = "removed" /\ n \in containers'
  BY RemovedBy
<1>2. NoStepTimedOut' => NoStepTimedOut
  BY TimedOutStays DEF NoStepTimedOut
<1>3. n \in Services
  BY <1>1, CommandFacts DEF TypeInv, ResourceInv
<1>4. PICK i \in StepIds : DockerMakes(i) /\ docker[i].service = n
  <2>1. CASE n \notin containers
    BY <1>1, <2>1, MadeBy
  <2>2. CASE n \in containers
    <3>1. ~StartedOnce(n) /\ ~NoStepTimedOut
      BY <1>1, <2>2 DEF GoneInv
    <3>2. StartedOnce(n)' /\ StepIds # {}
      BY <1>1, <1>2, <3>1 DEF NoStepTimedOut
    <3>3. UNCHANGED scenario
      BY <3>2, TaskGoesOn
    <3> QED
      BY <1>1, <3>1, <3>2, <3>3 DEF StartedOnce, StartsService
  <2> QED
    BY <2>1, <2>2
<1>5. /\ AtOp(i, "dockerRun") /\ OpOf(i).service = n
      /\ AtAnOp(i) /\ StartsService(i, task[i].at, n)
  BY <1>4 DEF DockerMakes, CommandInv, AtOp, StartsService, OpOf, TypeInv, TaskInv
<1>6. ~StartedOnce(n)
  <2>1. ToStart(i, task[i].at, n) /\ Removing(t, n)
    BY <1>1, <1>5 DEF ToStart, Removing, AtOp, AtAnOp, TypeInv, TaskInv, TaskStates
  <2> QED
    BY <1>3, <2>1 DEF StartInv
<1>7. NoStepTimedOut
  <2>1. UNCHANGED scenario
    BY <1>4, TaskGoesOn
  <2> QED
    BY <1>1, <1>2, <1>6, <2>1 DEF StartedOnce, StartsService
<1>8. pc \in {"awaiting", "drained"} /\ i = cur
  BY <1>5, <1>7 DEF OnlyTimedOutTasksLinger, NoStepTimedOut, AtOp
<1>9. CASE t = 0
  BY <1>1, <1>8, <1>9, CommandFacts DEF CommandInv, TypeInv, ResourceInv
<1>10. CASE t \in StepIds
  <2>1. AtOp(t, "dockerRm")
    BY <1>1, <1>10 DEF CommandInv
  <2>2. t = i
    BY <1>7, <1>8, <1>10, <2>1 DEF OnlyTimedOutTasksLinger, NoStepTimedOut, AtOp
  <2> QED
    BY <1>5, <2>1, <2>2 DEF AtOp
<1> QED
  BY <1>9, <1>10, Zero DEF TaskIds, StepIds

ServicesInv == TypeInv /\ OnlyTimedOutTasksLinger /\ CommandInv /\ StartInv /\ GoneInv

LEMMA ServicesInvariant == SafeSpec => [](Supervisor!IInv /\ ServicesInv)
<1>1. Init => CommandInv /\ StartInv /\ GoneInv
  BY CommandInit, StartInit, GoneInit
<1>2. TypeInv /\ OnlyTimedOutTasksLinger /\ CommandInv /\ StartInv /\ GoneInv /\ [Next]_vars
        => (CommandInv /\ StartInv /\ GoneInv)'
  BY CommandNext, StartNext, GoneNext
<1> QED
  BY <1>1, <1>2, LingerInvariant, PTL DEF SafeSpec, ServicesInv

\* Only the end of a removal takes a service off the list.
LEMMA ForgottenBy ==
  ASSUME TypeInv, Next, NEW n \in registered, n \notin registered'
  PROVE  \E t \in TaskIds : Forget(t) /\ docker[t].service = n
<1>1. \A i \in StepIds : TaskStep(i) => Forget(i) \/ registered \subseteq registered'
  BY WorksFrame
  DEF TaskStep, CallServer, ServerAnswers, AskBridge, ConnectClients, DisconnectClients, Probe,
      ServiceStep, BeginServiceStart, DockerMakes, DockerRun, DockerLogs, BeginServiceStop,
      ServiceStopEnds, RemovalFails, serviceVars
<1>2. Runner => Forget(0) \/ registered \subseteq registered'
  BY RunnerDocker, WorksFrame DEF CleanupService, CleanupServiceEnds, RemovalFails, serviceVars
<1>3. PICK t \in TaskIds : Forget(t)
  BY <1>1, <1>2, OthersDocker, Zero DEF Next, serviceVars
<1> QED
  BY <1>3 DEF Forget

\* A service is forgotten only once its container is gone, in every scenario
\* that starts it in one place, its timed-out steps and the cleanup included,
\* and in every scenario at all as long as no step has timed out.
THEOREM ForgottenWithContainer == Spec => ForgottenOnlyWhenRemoved
<1>1. ServicesInv /\ ServicesInv' /\ [Next]_vars
        => [\A n \in registered \ registered' :
              StartedOnce(n) \/ NoStepTimedOut => n \notin containers']_vars
  <2> SUFFICES ASSUME ServicesInv, Next, NEW n \in registered \ registered',
                      StartedOnce(n) \/ NoStepTimedOut
               PROVE  n \notin containers'
    OBVIOUS
  <2>1. PICK t \in TaskIds : Forget(t) /\ docker[t].service = n
    BY ForgottenBy DEF ServicesInv
  <2> QED
    BY <2>1 DEF Forget, ServicesInv, GoneInv
<1> QED
  BY <1>1, ServicesInvariant, PTL DEF Spec, SafeSpec, ForgottenOnlyWhenRemoved

\* A task that threw failed its step, or is about to.
ThrewInv ==
  \A i \in StepIds :
    task[i].status = "threw" => StepFailed(i) \/ (pc \in {"awaiting", "drained"} /\ i = cur)

LEMMA ThrewNext ==
  TypeInv /\ OnlyTimedOutTasksLinger /\ ThrewInv /\ [Next]_vars => ThrewInv'
<1> SUFFICES ASSUME TypeInv, OnlyTimedOutTasksLinger, ThrewInv, [Next]_vars,
                    NEW i \in StepIds, task'[i].status = "threw"
             PROVE  StepFailed(i)' \/ (pc' \in {"awaiting", "drained"} /\ i = cur')
  BY DEF ThrewInv
<1>1. CASE task[i].status = "threw" /\ UNCHANGED <<pc, cur, results>>
  BY <1>1 DEF ThrewInv, StepFailed
<1>2. ASSUME NEW j \in StepIds, TaskStep(j)
      PROVE  StepFailed(i)' \/ (pc' \in {"awaiting", "drained"} /\ i = cur')
  <2>1. UNCHANGED <<pc, cur, results>> /\ Running(j)
    BY <1>2, ServiceStepFrame
    DEF TaskStep, CallServer, ServerAnswers, AskBridge, ConnectClients, DisconnectClients, Probe,
        AtOp, runnerVars
  <2>2. CASE j # i
    BY <1>1, <1>2, <2>1, <2>2, TaskAlone, Zero
  <2>3. CASE j = i
    BY <2>1, <2>3 DEF OnlyTimedOutTasksLinger, StepFailed
  <2> QED
    BY <2>2, <2>3
<1>3. CASE ServerSide \/ (\E c \in Clients : ClientEnds(c)) \/ UNCHANGED vars
  BY <1>1, <1>3, OthersDocker DEF runnerVars, vars
<1>4. CASE SkipStep
  <2>1. i # cur /\ pc = "steps" /\ task[i].status = "threw"
    BY <1>4 DEF SkipStep, CurIsStep, TypeInv, TaskInv
  <2> QED
    BY <1>4, <2>1, TimedOutStays DEF ThrewInv
<1>5. CASE BeginStep
  <2>1. i # cur /\ task'[i] = task[i] /\ pc = "steps"
    BY <1>5 DEF BeginStep, CurIsStep, TypeInv, TaskInv
  <2> QED
    BY <1>5, <2>1 DEF BeginStep, ThrewInv, StepFailed
<1>6. CASE StepPasses \/ StepThrows \/ StepTimesOut
  <2>1. task[i].status = "threw"
    BY <1>6 DEF StepPasses, StepThrows, StepTimesOut, EndStep
  <2>2. CASE i # cur
    BY <1>6, <2>1, <2>2, TimedOutStays
    DEF ThrewInv, StepPasses, StepThrows, StepTimesOut, EndStep
  <2>3. CASE i = cur
    BY <1>6, <2>1, <2>3
    DEF StepPasses, StepThrows, StepTimesOut, EndStep, Running, StepFailed, TypeInv, ControlInv,
        ControlType
  <2> QED
    BY <2>2, <2>3
<1>7. CASE CheckLog \/ CleanupDisconnects \/ CleanupStops \/ CleanupStopReturns \/ LoopDrains
  BY <1>7
  DEF CheckLog, CleanupDisconnects, CleanupStops, CleanupStopReturns, LoopDrains, stepVars,
      runnerVars, ThrewInv, StepFailed
<1>8. CASE (\E n \in Services : CleanupService(n)) \/ DockerWorks(0) \/ CleanupServiceEnds
  BY <1>1, <1>8, WorksFrame DEF CleanupService, CleanupServiceEnds, stepVars, runnerVars
<1>9. CASE CleanupServicesReturns \/ CloseServerLog \/ WriteReport \/ RejectRun
  BY <1>9
  DEF CleanupServicesReturns, CloseServerLog, WriteReport, RejectRun, stepVars, ThrewInv,
      StepFailed
<1> QED
  BY <1>2, <1>3, <1>4, <1>5, <1>6, <1>7, <1>8, <1>9 DEF Next, Runner

\* Nothing went wrong that would fail the run.
AllWell == (\A i \in StepIds : ~StepFailed(i) /\ task[i].status # "threw") /\ ~failures

\* As long as nothing went wrong every container is registered, or is about to
\* be by the step that waits for its `docker run`.
KnownInv ==
  AllWell => \A n \in containers :
               n \in registered \/ \E i \in StepIds : docker[i] = Command("made", n)

\* What went wrong stays wrong.
LEMMA AllWellStays == TypeInv /\ [Next]_vars /\ AllWell' => AllWell
<1> SUFFICES ASSUME TypeInv, [Next]_vars, AllWell' PROVE AllWell
  OBVIOUS
<1>1. \A i \in StepIds : ~StepFailed(i) /\ task[i].status # "threw"
  BY TimedOutStays, TaskGoesOn DEF AllWell
<1>2. failures \in BOOLEAN /\ (failures => pc = "services" \/ CleanedUp)
  BY DEF TypeInv, ControlInv, ControlType, CleanupErrors
<1>3. CASE CleanupStopReturns
  BY <1>1, <1>2, <1>3 DEF AllWell, CleanupStopReturns, CleanedUp
<1>4. CASE CleanupServiceEnds
  BY <1>1, <1>2, <1>4 DEF AllWell, CleanupServiceEnds
<1>5. CASE Runner /\ ~CleanupStopReturns /\ ~CleanupServiceEnds
  <2>1. UNCHANGED failures
    BY <1>5, WorksFrame
    DEF Runner, SkipStep, BeginStep, StepPasses, StepThrows, StepTimesOut, EndStep, CheckLog,
        CleanupDisconnects, CleanupStops, CleanupService, CleanupServicesReturns, CloseServerLog,
        WriteReport, RejectRun, LoopDrains, cleanupVars, runnerVars
  <2> QED
    BY <1>1, <2>1 DEF AllWell
<1>6. ASSUME NEW i \in StepIds, TaskStep(i) PROVE UNCHANGED failures
  BY <1>6, ServiceStepFrame
  DEF TaskStep, CallServer, ServerAnswers, AskBridge, ConnectClients, DisconnectClients, Probe,
      runnerVars, cleanupVars
<1> QED
  BY <1>1, <1>3, <1>4, <1>5, <1>6, OthersDocker DEF AllWell, Next, runnerVars, cleanupVars

LEMMA KnownNext == ServicesInv /\ KnownInv /\ [Next]_vars => KnownInv'
<1> SUFFICES ASSUME ServicesInv, KnownInv, [Next]_vars, AllWell', NEW n \in containers'
             PROVE  n \in registered' \/ \E i \in StepIds : docker'[i] = Command("made", n)
  BY DEF KnownInv
<1> docker \in [TaskIds -> Commands] /\ 0 \in TaskIds /\ StepIds \subseteq TaskIds /\ 0 \notin StepIds
  BY Zero DEF ServicesInv, TypeInv, ResourceInv
<1>1. AllWell /\ NoStepTimedOut
  <2>1. AllWell
    BY AllWellStays DEF ServicesInv
  <2> QED
    BY <2>1 DEF AllWell, NoStepTimedOut, StepFailed
<1>2. CASE n \notin containers
  <2>1. PICK i \in StepIds : DockerMakes(i) /\ docker[i].service = n
    BY <1>2, MadeBy DEF ServicesInv
  <2>2. docker'[i] = Command("made", n)
    BY <2>1 DEF DockerMakes, Issue
  <2> QED
    BY <2>2
<1>3. ASSUME n \in registered, n \notin registered' PROVE FALSE
  <2>1. PICK t \in TaskIds : Forget(t) /\ docker[t].service = n
    BY <1>3, ForgottenBy DEF ServicesInv, vars, serviceVars
  <2> QED
    BY <1>1, <2>1 DEF Forget, ServicesInv, GoneInv
<1>4. ASSUME NEW i \in StepIds, docker[i] = Command("made", n), docker'[i] # docker[i]
      PROVE  n \in registered'
  <2>1. docker[i].stage = "made" /\ docker[i].service = n
    BY <1>4 DEF Command
  <2>2. TaskStep(i)
    <3>1. ~UNCHANGED docker
      BY <1>4
    <3>2. Runner => docker'[i] = docker[i]
      BY <3>1, RunnerDocker
      DEF CleanupService, CleanupServiceEnds, DockerWorks, LogsWritten, DockerRemoves, Forget,
          RemovalFails, Issue, CommandEnds, serviceVars
    <3>3. \A j \in StepIds : TaskStep(j) /\ j # i => docker'[i] = docker[i]
      BY TaskAlone DEF ServicesInv
    <3> QED
      BY <1>4, <3>1, <3>2, <3>3, OthersDocker DEF Next, serviceVars
  <2>3. ServiceStep(i)
    BY <1>4, <2>2
    DEF TaskStep, CallServer, ServerAnswers, AskBridge, ConnectClients, DisconnectClients, Probe,
        serviceVars
  <2>4. AtOp(i, "dockerRun") /\ docker[i] # NoCommand
    BY <2>1, CommandFacts DEF ServicesInv, CommandInv
  <2>5. DockerRun(i)
    BY <2>1, <2>3, <2>4
    DEF ServiceStep, BeginServiceStart, DockerMakes, DockerLogs, BeginServiceStop,
        ServiceStopEnds, AtOp
  <2>6. ~Throw(i)
    BY DEF Throw, AllWell, ServicesInv, TypeInv, TaskInv, TaskStates
  <2> QED
    BY <2>1, <2>5, <2>6 DEF DockerRun
<1> QED
  BY <1>1, <1>2, <1>3, <1>4 DEF KnownInv

\* When all steps passed, the tasks are over and every container is registered.
LEMMA NoContainerLeft ==
  ASSUME ServicesInv, ThrewInv, KnownInv, CleanedUp, NoStepTimedOut,
         \A i \in StepIds : ~StepFailed(i)
  PROVE  failures \/ containers \subseteq registered
<1>1. pc \notin {"awaiting", "drained"}
  BY DEF CleanedUp
<1>2. \A i \in StepIds : ~Running(i) /\ task[i].status # "threw"
  BY <1>1 DEF ServicesInv, OnlyTimedOutTasksLinger, NoStepTimedOut, ThrewInv
<1>3. \A i \in StepIds : \A n : docker[i] # Command("made", n)
  BY <1>2 DEF ServicesInv, CommandInv, AtOp, Command
<1> QED
  BY <1>2, <1>3 DEF KnownInv, AllWell

-----------------------------------------------------------------------------
(* What a run leaves behind *)

NoneAlive == \A c \in Server!ChildIds : ~Server!Alive(c)

\* A call of the supervisor belongs to a task that stands at that call.
CallInv ==
  /\ \A i \in StepIds : ~Server!Free(i) => AtOp(i, "start") \/ AtOp(i, "stop")
  /\ ~Server!Free(0) => pc \in {"stopping", "drained"}
  /\ call[0].pc \in {"idle", "stopping", "stopForce"}

LEMMA CallInit == Init => CallInv
BY Zero DEF Init, CallInv, Server!Init, Server!Free, Server!Idle, StepIds, TaskIds

\* The supervisor's own steps answer calls, and make none.
LEMMA ServerSideCalls ==
  ASSUME Server!TypeOK, Server!Environment \/ \E t \in TaskIds : Server!Timeout(t),
         NEW u \in TaskIds
  PROVE  /\ Server!Free(u) => Server!Free(u)'
         /\ call[u].pc \in {"idle", "stopping", "stopForce"} =>
              call'[u].pc \in {"idle", "stopping", "stopForce"}
<1>1. ASSUME NEW t \in TaskIds, Server!Timeout(t)
      PROVE  /\ call[t].pc # "idle"
             /\ \/ call' = [call EXCEPT ![t] = Server!Idle("failed")]
                \/ call[t].pc = "starting"
                \/ call' = [call EXCEPT ![t] = Server!Waiting("stopForce", process)]
  BY <1>1
  DEF Server!Timeout, Server!StartTimesOut, Server!StopTimesOut, Server!ForceTimesOut,
      Server!ForceStop, Server!Return
<1>2. ASSUME NEW t \in TaskIds, Server!Timeout(t)
      PROVE  \A v \in TaskIds : v # t => call'[v] = call[v]
  BY <1>2
  DEF Server!Timeout, Server!StartTimesOut, Server!StopTimesOut, Server!ForceTimesOut,
      Server!ForceStop, Server!Return, Server!TypeOK
<1>3. CASE \E t \in TaskIds : Server!Timeout(t)
  BY <1>1, <1>2, <1>3 DEF Server!Free, Server!Idle, Server!Waiting, Server!TypeOK
<1>4. CASE Server!Environment
  BY <1>4
  DEF Server!Environment, Server!Ready, Server!Log, Server!Data, Server!Exit, Server!AfterExit,
      Server!Free, Server!Idle, Server!Waiting
<1> QED
  BY <1>3, <1>4

LEMMA CallNext == TypeInv /\ CallInv /\ [Next]_vars => CallInv'
<1> SUFFICES ASSUME TypeInv, CallInv, [Next]_vars PROVE CallInv'
  OBVIOUS
<1>1. CASE UNCHANGED <<call, task, scenario, pc>>
  BY <1>1 DEF CallInv, Server!Free, AtOp, Running, OpOf
<1>2. CASE ServerSide
  BY <1>2, ServerSideCalls, Zero
  DEF ServerSide, TypeInv, CallInv, AtOp, Running, OpOf, runnerVars
<1>3. ASSUME NEW i \in StepIds, TaskStep(i) PROVE CallInv'
  <2>1. UNCHANGED <<scenario, pc>> /\ Running(i)
    BY <1>3, ServiceStepFrame
    DEF TaskStep, CallServer, ServerAnswers, AskBridge, ConnectClients, DisconnectClients, Probe, AtOp, runnerVars
  <2>2. \A j \in TaskIds : j # i => call'[j] = call[j]
    BY <1>3, Zero, ServiceStepFrame
    DEF TaskStep, CallServer, ServerAnswers, AskBridge, ConnectClients, DisconnectClients, Probe, serverVars, TypeInv, Server!TypeOK,
        Server!Start, Server!StartRefused, Server!StartSpawns, Server!StartSpawnFails,
        Server!Stop, Server!StopReturnsAtOnce, Server!StopWrites, Server!Collect, Server!Return
  <2>3. \A j \in StepIds : j # i => task'[j] = task[j]
    BY <1>3, ServiceStepFrame
    DEF TaskStep, CallServer, ServerAnswers, AskBridge, ConnectClients, DisconnectClients, Probe, Advance, Throw, TypeInv, TaskInv
  <2>4. ~Server!Free(i)' => (AtOp(i, "start") \/ AtOp(i, "stop"))'
    <3>1. CASE CallServer(i)
      BY <2>1, <3>1 DEF CallServer, AtOp, Running, OpOf
    <3>2. CASE ServerAnswers(i)
      BY <3>2, Zero
      DEF ServerAnswers, Server!Collect, Server!Return, Server!Free, TypeInv, Server!TypeOK
    <3>3. CASE ~CallServer(i) /\ ~ServerAnswers(i)
      <4>1. UNCHANGED call /\ ~(AtOp(i, "start") \/ AtOp(i, "stop"))
        BY <1>3, <3>3, ServiceStepFrame
        DEF TaskStep, AskBridge, ConnectClients, DisconnectClients, Probe, AtOp, serverVars,
            DockerKinds
      <4> QED
        BY <4>1 DEF CallInv, Server!Free
    <3> QED
      BY <3>1, <3>2, <3>3
  <2> QED
    BY <2>1, <2>2, <2>3, <2>4, Zero DEF CallInv, Server!Free, AtOp, Running, OpOf
<1>4. CASE Runner
  <2>1. ASSUME UNCHANGED <<call, scenario>>, Server!Free(0),
               \A i \in StepIds : Running(i) => task'[i] = task[i]
        PROVE  CallInv'
    BY <2>1, Zero DEF CallInv, Server!Free, Server!Idle, AtOp, Running, OpOf
  <2>2. CASE SkipStep \/ StepPasses \/ StepThrows \/ StepTimesOut \/ CheckLog
    <3>1. Server!Free(0)
      BY <2>2
      DEF SkipStep, CurIsStep, StepPasses, StepThrows, StepTimesOut, EndStep, CheckLog, CallInv
    <3> QED
      BY <2>1, <2>2, <3>1
      DEF SkipStep, StepPasses, StepThrows, StepTimesOut, EndStep, CheckLog, serverVars, stepVars
  <2>3. CASE BeginStep
    <3>1. Server!Free(0) /\ cur \in StepIds /\ ~Running(cur)
      BY <2>3, ScenarioTypes
      DEF BeginStep, CurIsStep, CallInv, TypeInv, TaskInv, Running
    <3>2. \A i \in StepIds : i # cur => task'[i] = task[i]
      BY <2>3 DEF BeginStep, TypeInv, TaskInv
    <3> QED
      BY <2>1, <2>3, <3>1, <3>2 DEF BeginStep, serverVars
  <2>4. CASE CleanupStops
    <3>1. /\ \A j \in StepIds : call'[j] = call[j]
          /\ call'[0].pc \in {"idle", "stopping"}
          /\ pc = "stopping" /\ UNCHANGED <<scenario, pc, task>>
      BY <2>4, Zero
      DEF CleanupStops, runnerVars, Server!Stop, Server!StopReturnsAtOnce, Server!StopWrites,
          Server!Return, Server!Idle, Server!Waiting, TypeInv, Server!TypeOK
    <3> QED
      BY <3>1 DEF CallInv, Server!Free, AtOp, Running, OpOf
  <2>5. CASE CleanupStopReturns
    <3>1. /\ \A j \in StepIds : call'[j] = call[j]
          /\ Server!Free(0)' /\ call'[0].pc = "idle"
          /\ UNCHANGED <<scenario, task>>
      BY <2>5, Zero
      DEF CleanupStopReturns, stepVars, Server!Collect, Server!Return, Server!Idle, Server!Free,
          TypeInv, Server!TypeOK
    <3> QED
      BY <3>1 DEF CallInv, Server!Free, AtOp, Running, OpOf
  <2>6. CASE \/ CleanupDisconnects \/ (\E n \in Services : CleanupService(n))
             \/ CleanupServiceEnds \/ CleanupServicesReturns
    <3>1. Server!Free(0)
      BY <2>6
      DEF CleanupDisconnects, CleanupService, CleanupServiceEnds, CleanupServicesReturns, CallInv
    <3> QED
      BY <2>1, <2>6, <3>1
      DEF CleanupDisconnects, CleanupService, CleanupServiceEnds, CleanupServicesReturns,
          serverVars, stepVars
  <2>7. CASE CloseServerLog \/ WriteReport \/ RejectRun
    <3>1. Server!Free(0)
      BY <2>7 DEF CloseServerLog, WriteReport, RejectRun, CallInv
    <3> QED
      BY <2>1, <2>7, <3>1
      DEF CloseServerLog, WriteReport, RejectRun, serverVars, stepVars, Server!CloseLog
  <2>8. CASE LoopDrains
    BY <2>8 DEF LoopDrains, serverVars, stepVars, CallInv, Server!Free, AtOp, Running, OpOf
  <2>9. CASE DockerWorks(0)
    BY <1>1, <2>9, WorksFrame DEF serverVars, runnerVars
  <2> QED
    BY <1>4, <2>2, <2>3, <2>4, <2>5, <2>6, <2>7, <2>8, <2>9 DEF Runner
<1>5. CASE (\E c \in Clients : ClientEnds(c)) \/ UNCHANGED vars
  BY <1>1, <1>5 DEF ClientEnds, runnerVars, vars, serverVars, stepVars
<1> QED
  BY <1>2, <1>3, <1>4, <1>5 DEF Next

Cleaning == pc \notin {"steps", "awaiting", "drained"}

\* The cleanup is yet to remove the service, or about to.
Known(n) == n \in todo \/ (docker[0] # NoCommand /\ docker[0].service = n)

\* What each phase of the cleanup has seen to, when no step timed out: then no
\* task is left that could start a server, a service or a client again.
LeakInv ==
  NoStepTimedOut /\ Cleaning =>
    /\ pc # "disconnecting" => clients \subseteq signalled
    /\ pc = "stopping" /\ call[0].outcome = "ok" => NoneAlive
    /\ pc = "services" \/ CleanedUp => StopFailed \/ NoneAlive
    /\ pc = "services" => failures \/ \A n \in registered : Known(n)
    /\ CleanedUp => failures \/ registered = {}

\* A removal that ends well is of the service the cleanup knew; another counts
\* as a failure.
LEMMA CleanupKnows ==
  ASSUME TypeInv,
         (\E n \in Services : CleanupService(n)) \/ CleanupServiceEnds \/ DockerWorks(0),
         failures \/ \A n \in registered : Known(n)
  PROVE  failures' \/ \A n \in registered' : Known(n)'
<1> docker \in [TaskIds -> Commands] /\ 0 \in TaskIds
  BY Zero DEF TypeInv, ResourceInv
<1>1. ASSUME NEW m \in Services, CleanupService(m)
      PROVE  failures' \/ \A n \in registered' : Known(n)'
  <2>1. /\ UNCHANGED <<registered, failures>> /\ docker[0] = NoCommand /\ todo' = todo \ {m}
        /\ m \in registered => docker'[0] = Command("logs", m)
    BY <1>1 DEF CleanupService, Issue
  <2>2. m \in registered => docker'[0] # NoCommand /\ docker'[0].service = m
    BY <2>1 DEF Command, NoCommand
  <2> QED
    BY <2>1, <2>2 DEF Known
<1>2. CASE CleanupServiceEnds
  BY <1>2 DEF CleanupServiceEnds, Forget, RemovalFails, Known
<1>3. CASE DockerWorks(0)
  <2>1. UNCHANGED <<registered, failures, todo>>
    BY <1>3, WorksFrame DEF runnerVars, cleanupVars
  <2>2. docker'[0] # NoCommand /\ docker'[0].service = docker[0].service
    BY <1>3 DEF DockerWorks, LogsWritten, DockerRemoves, Issue, Command, NoCommand
  <2> QED
    BY <2>1, <2>2 DEF Known
<1> QED
  BY <1>1, <1>2, <1>3

SafeInv == Supervisor!IInv /\ CallInv /\ ServicesInv /\ ThrewInv /\ KnownInv

LEMMA SafeInvariant == SafeSpec => []SafeInv
<1>1. Init => CallInv /\ ThrewInv /\ KnownInv
  BY CallInit DEF Init, ThrewInv, KnownInv, NewTask
<1>2. /\ ServicesInv /\ CallInv /\ ThrewInv /\ KnownInv /\ [Next]_vars
           => (CallInv /\ ThrewInv /\ KnownInv)'
  BY CallNext, ThrewNext, KnownNext DEF ServicesInv
<1> QED
  BY <1>1, <1>2, ServicesInvariant, PTL DEF SafeSpec, SafeInv

LEMMA NobodyLingers ==
  ASSUME SafeInv, NoStepTimedOut, Cleaning, NEW i \in StepIds
  PROVE  ~TaskStep(i)
BY ServiceStepFrame
DEF SafeInv, ServicesInv, OnlyTimedOutTasksLinger, NoStepTimedOut, Cleaning, TaskStep, CallServer,
    ServerAnswers, AskBridge, ConnectClients, DisconnectClients, Probe, AtOp

\* With none alive the supervisor's own steps bring none to life, and a stop()
\* returns "ok" only when none is.
LEMMA ServerSideStops ==
  ASSUME SafeInv, Server!Environment \/ \E t \in TaskIds : Server!Timeout(t)
  PROVE  /\ NoneAlive => NoneAlive'
         /\ call'[0].outcome = "ok" => call[0].outcome = "ok" \/ NoneAlive'
<1> Server!TypeOK /\ (\A c \in Server!ChildIds : Server!Alive(c) => c = process) /\ 0 \in TaskIds
  BY ServerFacts, Zero DEF SafeInv
<1>1. CASE \E t \in TaskIds : Server!Timeout(t)
  BY <1>1
  DEF Server!Timeout, Server!StartTimesOut, Server!StopTimesOut, Server!ForceTimesOut,
      Server!ForceStop, Server!Return, Server!Idle, Server!Waiting, Server!processVars,
      NoneAlive, Server!Alive, Server!TypeOK
<1>2. ASSUME NEW c \in Server!ChildIds, Server!Ready(c)
      PROVE  ~NoneAlive /\ (call'[0].outcome = "ok" => call[0].outcome = "ok")
  BY <1>2 DEF Server!Ready, NoneAlive, Server!Alive, SafeInv, CallInv
<1>3. ASSUME NEW c \in Server!ChildIds, Server!Log(c) \/ Server!Data(c)
      PROVE  UNCHANGED <<call, child>>
  BY <1>3 DEF Server!Log, Server!Data, Server!processVars
<1>4. ASSUME NEW c \in Server!ChildIds, NEW how \in {"exited", "killed"}, Server!Exit(c, how)
      PROVE  NoneAlive'
  BY <1>4 DEF Server!Exit, NoneAlive, Server!Alive, Server!TypeOK
<1> QED
  BY <1>1, <1>2, <1>3, <1>4 DEF Server!Environment, NoneAlive, Server!Alive

LEMMA LeakNext == SafeInv /\ LeakInv /\ [Next]_vars => LeakInv'
<1> SUFFICES ASSUME SafeInv, LeakInv, [Next]_vars, NoStepTimedOut', Cleaning'
             PROVE  /\ pc' # "disconnecting" => clients' \subseteq signalled'
                    /\ pc' = "stopping" /\ call'[0].outcome = "ok" => NoneAlive'
                    /\ pc' = "services" \/ CleanedUp' => StopFailed' \/ NoneAlive'
                    /\ pc' = "services" => failures' \/ \A n \in registered' : Known(n)'
                    /\ CleanedUp' => failures' \/ registered' = {}
  BY DEF LeakInv
<1> 0 \in TaskIds /\ Server!TypeOK /\ (\A c \in Server!ChildIds : Server!Alive(c) => c = process)
  BY ServerFacts, Zero DEF SafeInv
<1>1. CASE CheckLog
  BY <1>1 DEF CheckLog, CleanedUp
<1>2. CASE CleanupDisconnects
  <2>1. clients' \subseteq signalled'
    BY <1>2 DEF CleanupDisconnects, Disconnect, SafeInv, ServicesInv, TypeInv, ResourceInv
  <2> QED
    BY <1>2, <2>1
    DEF CleanupDisconnects, CleanedUp, SafeInv, CallInv, Server!Free, Server!Idle, serverVars
<1>3. CASE CleanupStops
  <2>1. /\ pc = "stopping" /\ pc' = "stopping" /\ UNCHANGED <<results, clientVars>>
        /\ Server!Stop(0) /\ ~CleanedUp'
    BY <1>3 DEF CleanupStops, runnerVars, CleanedUp
  <2>2. CASE Server!StopReturnsAtOnce(0)
    BY <2>1, <2>2
    DEF Server!StopReturnsAtOnce, Server!processVars, Server!Running, Server!ExitCodeNull,
        Server!Alive, Server!ChildIds, NoneAlive, clientVars, LeakInv, Cleaning, NoStepTimedOut
  <2>3. CASE Server!StopWrites(0)
    BY <2>1, <2>3
    DEF Server!StopWrites, Server!Waiting, Server!TypeOK, clientVars, LeakInv, Cleaning, NoStepTimedOut
  <2> QED
    BY <2>1, <2>2, <2>3 DEF Server!Stop
<1>4. CASE CleanupStopReturns
  <2>1. /\ pc = "stopping" /\ pc' = "services" /\ todo' = registered
        /\ UNCHANGED <<results, clientVars, registered, child>> /\ ~CleanedUp'
    BY <1>4
    DEF CleanupStopReturns, stepVars, serviceVars, CleanedUp, Server!Collect, Server!processVars
  <2>2. CASE call[0].outcome = "ok"
    BY <2>1, <2>2 DEF LeakInv, Known, clientVars, Cleaning, NoStepTimedOut, NoneAlive, Server!Alive
  <2>3. CASE call[0].outcome # "ok"
    <3>1. StopFailed'
      BY <1>4, <2>3, ErrorKinds
      DEF CleanupStopReturns, RecordCleanupError, KeepFirst, StopFailed, RunErrors
    <3> QED
      BY <2>1, <3>1 DEF LeakInv, Known, clientVars, Cleaning, NoStepTimedOut
  <2> QED
    BY <2>2, <2>3
<1>5. CASE (\E n \in Services : CleanupService(n)) \/ CleanupServiceEnds \/ DockerWorks(0)
  <2>1. UNCHANGED <<pc, results, clientVars, child, originalError, values>>
    BY <1>5, WorksFrame
    DEF CleanupService, CleanupServiceEnds, stepVars, serverVars, errorVars, runnerVars
  <2>2. pc = "services" /\ pc' = "services" /\ ~CleanedUp'
    <3>1. DockerWorks(0) => docker[0] # NoCommand
      BY CommandFacts DEF DockerWorks, LogsWritten, DockerRemoves
    <3> QED
      BY <1>5, <2>1, <3>1 DEF CleanupService, CleanupServiceEnds, CleanedUp, SafeInv, ServicesInv, CommandInv
  <2>3. (failures \/ \A n \in registered : Known(n))
        => (failures' \/ \A n \in registered' : Known(n)')
    BY <1>5, CleanupKnows DEF SafeInv, ServicesInv, TypeInv
  <2> QED
    BY <2>1, <2>2, <2>3 DEF LeakInv, clientVars, Cleaning, NoStepTimedOut, StopFailed, NoneAlive, Server!Alive
<1>6. CASE CleanupServicesReturns
  <2>1. /\ pc = "services" /\ pc' = "closing" /\ todo = {} /\ docker[0] = NoCommand /\ CleanedUp'
        /\ UNCHANGED <<results, clientVars, child, registered, failures>>
    BY <1>6 DEF CleanupServicesReturns, stepVars, serverVars, serviceVars, cleanupVars, CleanedUp
  <2>2. StopFailed => StopFailed'
    BY <1>6, ErrorKinds
    DEF CleanupServicesReturns, RecordCleanupError, KeepFirst, StopFailed, errorVars
  <2> QED
    BY <2>1, <2>2 DEF LeakInv, Known, clientVars, Cleaning, NoStepTimedOut, NoneAlive, Server!Alive
<1>7. CASE CloseServerLog \/ WriteReport \/ RejectRun
  <2>1. /\ CleanedUp /\ CleanedUp' /\ pc' # "services" /\ pc' # "stopping"
        /\ UNCHANGED <<results, clientVars, child, registered, failures, values>>
    BY <1>7
    DEF CloseServerLog, WriteReport, RejectRun, stepVars, serverVars, serviceVars, cleanupVars,
        errorVars, CleanedUp, Server!CloseLog, Server!processVars
  <2>2. originalError # NoError => originalError' = originalError
    BY <1>7 DEF CloseServerLog, WriteReport, RejectRun, KeepFirst, errorVars
  <2>3. StopFailed => StopFailed'
    BY <2>1, <2>2, ErrorKinds DEF StopFailed
  <2> QED
    BY <2>1, <2>3 DEF LeakInv, Known, clientVars, Cleaning, CleanedUp, NoStepTimedOut, NoneAlive, Server!Alive
<1>8. CASE ServerSide
  <2>1. UNCHANGED <<pc, results, clientVars, registered, docker, todo, failures, originalError, values>>
    BY <1>8 DEF ServerSide, runnerVars, serviceVars, errorVars, cleanupVars
  <2>2. /\ NoneAlive => NoneAlive'
        /\ call'[0].outcome = "ok" => call[0].outcome = "ok" \/ NoneAlive'
    BY <1>8, ServerSideStops DEF ServerSide
  <2> QED
    BY <2>1, <2>2 DEF LeakInv, Known, clientVars, Cleaning, CleanedUp, NoStepTimedOut, StopFailed
<1>9. CASE (\E c \in Clients : ClientEnds(c)) \/ UNCHANGED vars
  <2>1. /\ UNCHANGED <<pc, results, call, child, registered, docker, todo, failures>>
        /\ UNCHANGED <<originalError, values>>
        /\ clients \subseteq signalled => clients' \subseteq signalled'
    BY <1>9
    DEF ClientEnds, runnerVars, vars, serverVars, serviceVars, clientVars, errorVars, cleanupVars,
        stepVars
  <2> QED
    BY <2>1 DEF LeakInv, Known, clientVars, Cleaning, CleanedUp, NoStepTimedOut, StopFailed, NoneAlive, Server!Alive
<1>10. ASSUME NEW i \in StepIds, TaskStep(i) PROVE FALSE
  <2>1. UNCHANGED <<pc, results>>
    BY <1>10, ServiceStepFrame
    DEF TaskStep, CallServer, ServerAnswers, AskBridge, ConnectClients, DisconnectClients, Probe, runnerVars
  <2> QED
    BY <1>10, <2>1, NobodyLingers DEF NoStepTimedOut, Cleaning
<1>11. ~(SkipStep \/ BeginStep \/ StepPasses \/ StepThrows \/ StepTimesOut \/ LoopDrains)
  BY DEF SkipStep, CurIsStep, BeginStep, StepPasses, StepThrows, StepTimesOut, EndStep, LoopDrains,
         Cleaning
<1> QED
  BY <1>1, <1>2, <1>3, <1>4, <1>5, <1>6, <1>7, <1>8, <1>9, <1>10, <1>11 DEF Next, Runner

\* When no step timed out, the cleanup leaves no client, server or registered
\* service behind that it did not see fail, and no container when all steps
\* passed, in any scenario.
THEOREM NothingLeaks == Spec => []NoTimeoutNoLeak
<1>1. Init => LeakInv
  BY DEF Init, LeakInv, Cleaning
<1>2. SafeSpec => []LeakInv
  BY <1>1, SafeInvariant, LeakNext, PTL DEF SafeSpec
<1>3. SafeInv /\ LeakInv => NoTimeoutNoLeak
  BY NoContainerLeft DEF SafeInv, LeakInv, NoTimeoutNoLeak, NoStepTimedOut, Cleaning, CleanedUp, NoneAlive
<1> QED
  BY <1>2, <1>3, SafeInvariant, PTL DEF Spec, SafeSpec
=============================================================================
