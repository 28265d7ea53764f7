# The Ouroboros test harness in TLA+

The repository is a test harness for Fabric servers: a Node runner that reads a
scenario, boots a dedicated Minecraft server, drives real protocol clients
against it, asks a test-only bridge mod for state, judges the log and writes a
report. This directory models the parts of it that keep state across awaits,
processes and restarts; checks them with TLC on small instances; and proves the
most important facts with TLAPS for every instance.

Paths are those of the repository (`src/server.ts` is the runner's source
directory). `PROJECT.json` lists, for every definition, the lines it models.

## The system

| Component | State it keeps | Operations | What must hold |
|---|---|---|---|
| Server supervisor, `src/server.ts` | the last child process, its exit code, waiting calls, log stream, findings | `start`, `stop`, `forceStop`, `closeLog`, data and exit events | one server at a time; a call waits for, and kills, its own child; `stop` that returns means down; calls come back |
| Scenario runner, `src/runner.ts` | step results, first error, services, clients, the tasks of steps that timed out | `runScenario`, `executeStep`, life-cycle and service actions, waits, cleanup, report | step order and skipping; first error kept; sound verdict; nothing left behind; waits and runs end |
| Protocol client driver, `src/client.ts` | current child, `isConnected`, `expectedExit`, pending requests | `connect`, `disconnect`, `request`, line and exit events | requests answered by their own child; none waits for ever; no process left unattended |
| Protocol client process, `client/src/main.rs` | joined or not, stdin and stdout | the `select!` loop over requests and game events | what the driver relies on |
| Bridge client and bridge mod, `src/bridge-client.ts`, `bridge/` | HTTP threads, work queued on the server thread, the tick counter | requests, tick waits, adapters, start and stop | threads come back; a request that was queued and given up does not overtake a later one |
| Coffer adapter | replaced providers, their originals, a properties file | control, restore, re-apply after a restart | the way back is kept; what is acknowledged holds, after a restart too; the next server can start |
| Patrol adapter | bounded live evidence, one subscription | capture, clear, close, subscribe | the bounds hold; the newest events are kept and counted; nothing is captured twice |
| Parcels and Rooms adapters | availability flag and file; none (paged reads) | set, notify; snapshot | not modelled, see below |
| Artifact cache, `src/artifacts.ts`, `src/utils.ts` | files of the cache, shared by invocations and by artifacts of one base name | download, checksum, install | what is pinned is installed as pinned; sums are those of the files a run uses |
| Log monitor, `src/log-monitor.ts` | lines, the partial line, findings | accept, flush | lines and findings are those of the whole output, however it is cut |
| Portfolio, `src/portfolio.ts` | results of targets, builds, scenarios; Java inspections | `runPortfolio` | exit code 0 is earned; the report leaves nothing out |
| Manifest and matrix audits, `interop` | none | functions of documents and a directory | audit and resolution agree; verdicts are backed by all four documents |
| Scenario loading, reports, rest of the CLI, scripts | none | parsing, rendering | not modelled, see below |

Components interact by calls within one Node process (runner to supervisor,
client driver, bridge client), by pipes and process events (supervisor and
server, driver and client process), by HTTP (bridge client and mod), by tasks of
the server thread (mod and adapters), by files (the cache, the Coffer controls)
and by the game protocol (client process and server). What makes them hard:

* **Nothing is cancelled.** `withTimeout()` races a promise against a timer and
  lets the loser go on: a step that timed out runs beside the later steps, the
  cleanup and the report. In the mod, a task outlives the thread that queued it.
* **Event order.** A process's exit event, the rest of its output, the timers
  that wait for either and the continuations they wake come in any order.
* **State shared across generations.** A server and a client are restarted in
  the same object, whose fields the handlers of the old process still touch; a
  provider replaced by the adapters leaves its old subscription behind.
* **Timers that do not hold the event loop.** The timers of `withTimeout()` are
  `unref()`'d, so a wait for nothing but a timer may end the process instead.
* **Partial failure and crashes.** Any action, any part of the cleanup and any
  file access can throw; the process may die between two of them.
* **No locks.** Invocations share a cache, threads a log of evidence.

## Modules

| Module | Models |
|---|---|
| `MinecraftServer` | class `MinecraftServer`: any tasks call `start` and `stop` over generations of the child |
| `ScenarioRunner` | `runScenario`, `executeStep`, life-cycle, client-connection and service actions; uses `MinecraftServer` as `Server == INSTANCE MinecraftServer WITH Tasks <- TaskIds` |
| `ProtocolClient` | class `ProtocolClient` and the process it drives |
| `Waits` | the seven bounded waits of the runner and the bridge client, against a clock |
| `CofferProviderControl` | operation `provider-control` of the Coffer adapter, step by step |
| `HarnessBridge` | the bridge mod and its client; extends `CofferProviderControl`, whose steps are those of its tasks |
| `EvidenceLog` | abstract specification: the longest run of the newest events that is within every bound |
| `PatrolEvidence` | the live side of the Patrol adapter; implements `EvidenceLog` |
| `DownloadCache` | `prepareArtifacts`, `downloadFile`, `installArtifacts` over a cache shared by invocations |
| `ProductionManifest` | audit, resolution of jars, `interop` |
| `RaidSafetyMatrix` | the audit of the matrix; extends `ProductionManifest` |
| `LogMonitor` | class `LogMonitor` |
| `Portfolio` | `runPortfolio` and its exit code |
| `Documents` | puts an input of the four modules above into an initial state and states what its answer is worth |
| `...Proofs` | theorems: `MinecraftServer`, `ScenarioRunner` (which reuses those of the supervisor through its refinement), `ProtocolClient`, `Waits`, `HarnessBridge`, `PatrolEvidence`, `DownloadCache`, `Documents` |
| `MC...` | instances for TLC; `MCDocuments` enumerates inputs for `Documents` |

### MinecraftServer

`process` is `this.process` (0 for undefined); `child[c]` is what Node knows of
the c-th child: `exited` and `failed` have an exit code, `killed` has only a
signal code, which the class never reads. `call[t]` is where task t waits. An
await is a state of its task, and each event-loop callback is one action with
the promise reactions it sets off; where a reaction reads `this.process`, the
action does. `forceStop` has no state of its own: `ForceStop` is the step its
two callers take into their second wait, on whatever `this.process` is then.
Output is kept as counts of error lines, read (`findings`) or not (`unread`).

### ScenarioRunner

A scenario is a sequence of steps, a step a sequence of *ops*: what a task does
between two awaits (`start`, wait for the bridge, connect the clients,
`docker run`, ...). `server.restart` is `<<disconnect, stop, start, bridge,
connect>>`, `client.reconnect` `<<disconnect, connect>>` with a connect whose
failure may be allowed. Every other action and every assertion is a `probe`, which
returns or throws at any time: the properties below ask only how it ended, and
nothing is claimed of what it does; actions nested in another one stand in its
place in the list. Task 0 is the runner, task i the actions of step i; a timeout
moves the runner on and leaves the task running. Continuations that are due run
before the next event or timer (`Quiet`). `results` tells a timeout from a
failure, which the code writes alike, so that properties can speak of it;
`drained` is the end of the process by an event loop with nothing left in it.

`docker[t]` is the Docker command that task t waits for. What Docker does
(`DockerMakes`, `DockerRemoves`) and what the task does once it hears of it
(`DockerRun`, `Forget`, `RemovalFails`) are two steps, and so are the three awaits
of `cleanupService()`: `services.get`, `docker logs` and the log file (`LogsWritten`),
`docker rm`, `services.delete`. Removals by lingering steps and by the cleanup
therefore overlap in every way. `registered` is `context.services`, `containers`
what Docker holds. A client in `signalled` was killed by a `disconnect()` or a failed
`connect()`, which do not wait for it for longer than their timeout: it is still in
`clients` until `ClientEnds`.

### ProtocolClient

A promise that settles puts an `answer` in the call that awaits it, and
`Resume` is the continuation. `on` is the child a call holds, `to` the child its
request was written to, which differ when another task has replaced the child.
Pipes are sequences, read in order, and outlive the exit event. Handlers of old
children act on the shared fields exactly as in the code. `proc[c] = "over"`
stands for a process that prints nothing more until its exit event: dead, or
hung on its way out.

### Waits

One wait at a time, of one of seven kinds; what it waits for (`holds`) may
change with every tick, `since` tells how long it has held. A timer fires up to
`Lag` late and an answer takes up to `Work`, during which what the answer says
(`seen`) grows stale. The order in which each loop looks, reads the clock and
sleeps is that of the code, which differs from loop to loop: `waitUntilReady()`
alone reads the clock before it looks, so that it does not look again after its
last pause (`Blind`). `Overrun` is what an attempt to connect may take beyond
its budget, the disconnect of a `reconnect` and the kill of a failed attempt.

### HarnessBridge and CofferProviderControl

Each request has an HTTP thread (`thread`) and a client that may abort it
(`answer`); its task waits in `queue` whether or not anybody still waits for it,
and runs on the server thread (`running`) up to its end, in the steps of
`CofferProviderControl`: capture and publish, load the file, empty it, write it.
The client's abort comes at any time, also before the bridge has queued the
task, which is then queued all the same. Each may fail, and `Die` may cut the process between any two; `Start` applies the
file. The provider control stands for every task of the bridge: it is the one
operation that keeps state and a file of its own. `before[r]` and `kept` are
history: what the bridge had queued, waited for or answered when r was made, and
what is saved.

### PatrolEvidence and EvidenceLog

`registered[p]` counts how often protocol object p calls `capture()` for one
event, which is more than once after a subscription that was not closed.
`capture()` takes the lock, evicts one event per step and appends; `gone` holds
what the eviction under way has taken, so that the mapping to `EvidenceLog`
shows the log as it was before. The abstract specification says in one step what
the loop must come to: no older event goes without need, the newest is kept.
What is published has no variable: `provider()` may meet any object whenever it
looks. The v2 and v3 clients are two independent instances. A protocol object that
does not have its functions leaves the subscription as it is.

### DownloadCache

A file is a sequence of chunks, each of which is one of the file that some artifact
stands for, of none, or not written. A download truncates and writes chunk by
chunk, a checksum and a copy read; any two invocations may do so at once, and one
may die at any step. `Source` gives each artifact its file: for a download that of
its URL's base name, which it may share with others; a `Supplied` one (`--artifact`,
`path`, the bridge) is read where it lies. `Target` is the file it is copied to, by
base name again, or "none"; the launcher is copied last. `overlapped` and
`interrupted` are history. The copy to the run directory is one step: files of the
run directory are private. Nobody else writes a supplied file during a run. Sums
are compared as given: the schema admits upper-case digits, which never match.

### ProductionManifest, RaidSafetyMatrix, LogMonitor, Portfolio, Documents

Pure operators with the names of the source's functions and findings. File
patterns are the sets of names they match, texts are sequences of a few symbols
that the rules tell apart, and what the machine answers (is there a directory,
does a build succeed, can its log be written) is part of a portfolio's input.
Loops of the code are recursive functions of the number of turns. The log
monitor decodes each chunk for itself (`chunk.toString()`), so a character of
several bytes (`"b1"`, `"b2"`) that a cut divides is damaged (`"bad"`);
`ChunkingDoesNotMatter` says that this is all that a cut can do.

`Documents` has the sets of inputs as constants, with the assumption that they
are what the schemas and types of the source admit (`ValidMods`, `ValidMatrix`,
`ValidCatalog`, sequences of symbols), and one question about an input of one of
them as its state. `MCDocuments` gives the constants small sets.

## Runs

| Run | Instance | Question |
|---|---|---|
| `server` | 2 tasks, 3 spawns, 1 error line | safety of the supervisor, and that calls return |
| `runner` | 4 scenarios of 3 steps (restart; a client that comes and goes; Docker service; service stopped and started again), 1 client, 2 spawns, 1 error line; 451,387 states | step order, first error, verdict, leaks, what is forgotten, end of the run |
| `client` | 2 tasks (interchangeable), 2 spawns, 2 requests besides those of `connect`, `chorusUi` | pending table, answers, processes left behind |
| `client_returns` | 1 task, same bounds | every call returns |
| `waits` | timeouts 0, 1, 3, 7; pauses of 2; answers up to 2, timers 1 and attempts 3 late | waits end, in time, and never give up on a change that came in time |
| `bridge` | 2 requests, 6 operations on 2 providers, one replacement that cannot be built, 1 tick, 2 starts; 329,957 states | originals, file and acknowledged controls through failures, stops, deaths and restarts; threads come back |
| `patrol` | 2 threads (interchangeable), 4 events of different sizes and one refused, 2 protocol objects of which one is faulty, logs of 2 events, 6 characters, 6 nodes | one registration, true sums, and refinement of `EvidenceLog` |
| `cache` | 2 invocations, beside or after each other, a launcher without a sum, a pinned mod, a pinned download with the launcher's base name, a pinned supplied file that is not installed, 2 chunks; 163,318 states | pinned files, emitted sums, holes, and that preparation ends |
| `documents` | 3 mods with 3 jars; 1 mod with every drift and a changing directory; a case of 2 artifacts over 4 documents; texts of up to 5 symbols, of either of two alphabets, cut twice; portfolios of 2 targets | the algorithms against a statement of what they promise |
| `runner_leak`, `runner_premature_exit`, `runner_exit_zero` | the smallest instance that shows it | a statement of the repository's documents that the code does not keep; see *Findings* |

**Why the bounds are enough.** The hazards of the supervisor need two calls and
a replaced child: two tasks and three spawns give one replacement more than any
trace needs. In the runner three steps let a step time out, a second one run
beside it and a third be skipped or run as `always`; the scenarios have the
shapes of those under `scenarios/`: boot, restart and a last `always` stop, a
client that comes and goes, a service around a server, and a service started
again, in which a removal by a step, one by a later step and one by the cleanup
may all be under way. Two spawns give a boot and one restart. In the client
two tasks and two children give every meeting of an old child's handler with a
new child's state; a third child meets the second as the second meets the first.
`MaxFindings = 1` suffices as findings are only compared with zero. The timeouts
of the waits are zero, shorter than a pause, longer than one and longer than
three attempts to connect. A request given up and one made after it are all that
the queue of the bridge can put in a wrong order; two starts give one restart.
Three events are too many by number alone, two of them by characters alone and
two by nodes alone, and one event evicts none, one or two others. Two chunks let a file be partly
written; two downloads show what sharing a file does; the second
invocation meets what the first one leaves, in whatever state it is. The
properties of documents are proved for all of them. Deadlock is not
checked: the models stop at their bounds, and a run ends.

**Bounds in the guards.** `MaxSpawns` (spawn actions), `MaxFindings` (`Log`),
`MaxRequests` (`BeginRequest`, `BeginDisconnect`), `MaxSteps` (the scenarios),
`MaxRuns` (`Start` of the cache), `MaxTicks` (`TickEnds`), `MaxStarts` (`Start`
of the bridge), `MaxRegistered` (`Subscribe`).

**Fairness.** Node runs every continuation that is due and fires every timer
that is due as long as its event loop lives; that, and the runner's own
progress, is all that is assumed of it (`WF_vars(Runner)`, and
`WF_vars(\E i \in StepIds : Continuation(i))` for the tasks of the steps). Nothing is assumed of a server, a
client's process, Docker or a probe: each may hang for ever. In
`MinecraftServer` the timers are fair only while some child is alive, because
they are `unref()`'d; so `CallsReturn` has to except calls whose child died of a
signal, and in the runner `EveryRunEnds` counts the drained loop as an end. In
`ProtocolClient` the timers are fair without condition: a server's process holds
the loop while its clients are used. In `HarnessBridge` the HTTP threads and
their timeouts are fair, the server thread is not. In `DownloadCache` an
invocation that runs goes on (every request has a timeout), and nothing makes
one begin or crash. `Waits` assumes that time passes, timers fire within `Lag`
and answers come within `Work`.

Every property has a mutant in `PROJECT.json`: a plausible slip in one of the
mapped definitions with which TLC finds the property violated. The mutated forms
stand before the definitions they change and are named in their comments.

## Findings

Each is a run that TLC finds violated, in a trace the code can follow.

* **Exit code 0 without a report** (`runner_exit_zero`). After a signal death of
  the server, a wait holds only an `unref()`'d timer; the loop drains and the
  process ends with 0.
* **A server started after the cleanup** (`runner_leak`). A `server.restart` that
  timed out in its stop goes on once the cleanup has stopped the server.
* **A premature server exit** (`runner_premature_exit`) fails no run by itself.

Further configurations, which are no runs of the list, show in the same way

* `MCMinecraftServerRunning.cfg`: `running` tests `exitCode === null` only; after
  a SIGKILL `start()` refuses with "already running" (`RefusedOnlyWhileAlive`);
* `MCScenarioRunnerFindings.cfg`: error lines of the shutdown are in the report
  of a run that passed (`PassedReportHasNoFindings`);
* `MCScenarioRunnerCleanupErrors.cfg`: a cleanup error after an earlier error is
  kept in `context.values` and shown nowhere (`CleanupErrorsAttached`);
* `MCProtocolClientEvents.cfg`: the exit of an old process disconnects the client
  whose new one plays on (`ConnectionFollowsEvents`);
* `MCScenarioRunnerServiceLeak.cfg`: a `docker run` that fails, or is killed by its
  timeout, with the container made registers no service, and the cleanup removes
  what is registered (`NoContainerForgotten`; `docs/architecture.md`, line 57: "World,
  config, player data, logs, and ports do not leak between invocations");
* `MCDownloadCacheNames.cfg`: of two pinned downloads with one base name the second
  overwrites the first after it was verified; the run installs its content in both
  places and emits its sum for both (`ChecksumsEnforced`; `docs/architecture.md`,
  line 50: "checksums are enforced").

What the models show besides, without a document that says otherwise: an
artifact that no sum pins, the launcher among them, is installed incomplete
after an interrupted download (`README.md` line 20 says "cached and checksum
verified"); invocations that overlap on one cache may install a pinned file with a
hole, or fail with `CHECKSUM_MISMATCH` though nothing is wrong; a service that is
started again by a step that timed out may be forgotten with its container up, when
an earlier removal of it, by the cleanup, comes to its `services.delete` only then
(so `ForgottenOnlyWhenRemoved` speaks of services started once, or of runs without
a timed-out step); a request given up before the bridge has queued its task, with a
short `timeoutMs` (`runner.ts`, line 417; `bridge-client.ts`, line 18), may be queued
after a later one and undo it although that was acknowledged (so `AcknowledgedHolds`
speaks of requests made when those before them had been queued); a save of the
Coffer controls that breaks off loses those of other providers; `waitUntilReady()` may give up on a bridge that was
ready before its deadline; a chunk of output that ends inside a character of
several bytes damages that character in `lines` and `findings` (`logStream`,
which gets the bytes, has it whole).

## Proofs

Constants: any sets of tasks, services, clients, scenarios, requests, providers,
events and files, any bounds; only the named `ASSUME`s of the modules are used.
Fairness is not.

*Supervisor.* The invariant is `TypeOK /\ OnlyCurrentAlive /\ WaitersOnCurrent`.
`AtMostOneAlive` is not inductive: a spawn preserves it only if no child but
`this.process` is alive, which is `OnlyCurrentAlive`. `WaitersOnCurrent` (a
waiting call waits on `this.process`, for which Node shows no exit code) is what
makes `KillsOwnChild` hold: `forceStop` reads `this.process`, and it has not
changed since, because a new spawn needs `~Running`. `OneServer`,
`NoOrphanedWait`, `KillsOwn` and `StopOk` follow.

*Runner.* `RunsTheServer` shows that every step of the runner is a step of the
supervisor or leaves its variables alone: the theorems about the supervisor hold
of a run at once (`OneServerPerRun`). The control state is proved apart from the
rest (`ControlInv`: where the loop stands, the discipline of the results, the
first error, the errors of the cleanup and the report), which gives
`StepsInOrder`, `FirstError` and `SoundVerdict`. Then the tasks (`TaskInv`)
and the services and clients (`ResourceInv`) give `OnlyTimedOutLinger`.
`ForgottenWithContainer`, an action property, has to exclude that a
`services.delete` comes after a container was made again: `CommandInv` says which
commands a task may wait for, `StartInv` that a service started once is made at
most once, because its start is either still to come or under way or over
(`ToStart` only shrinks), and `GoneInv` that from `docker rm` on the container is
gone as long as nobody may start it; without a timeout, one command is under way
at a time. `NothingLeaks` needs the stages of the cleanup (`LeakInv`), the runner's
own calls (`CallInv`), that a task threw only in a step that failed (`ThrewInv`),
and that in a run that went well so far every container is registered or about to
be (`KnownInv`).

*Client.* `PendingIsExact` needs that ids are handed out once (every id in the
table or in a call is below the next one, and two waiting calls differ);
`NobodyWaitsOnTheDead` and `OwnAnswers` that the lines in the pipe of a child
carry ids written to that child; `NothingLeftBehind` that a wait for an exit
ends with the exit or with a signal.

*Waits.* `WaitsEndInTime` rests on where the timer of each state may lie
relative to the deadline, and for `place` to the number of placements;
`NothingMissed`, an action property, on when the look that is about to give up
was taken: `seen` false means that nothing held without a break since before
that look.

*Bridge.* The invariant of `WayBack` and `FileIsBuildable` joins the state of
the share with where the running task stands: a control on its way to the file
has been built, and what is about to be written was loaded or built; the queue
holds controls only. `AcknowledgedControlsHold` needs more (`AInv`): a request
is queued once, or runs, or is done (`Tasks`); what the bridge had handled when a
request was made is not handled once more (`HandledBefore`), and is before it in
the queue or out of it, given up or not (`InOrder`); the
task under way has published what it asks (`UnderWay`); and what was saved, if
only older requests touch its providers, is published as long as the server
runs, in the file unless a save is half done, and in what that save is about to
write (`Saved`). `TypeCorrect` is proved from the same parts.

*Patrol.* `OneRegistration` holds of protocols whose handles work: between the
steps of `provider()` the old one is closed and the new one is not yet known.
`TrueSums` joins the fields with the log while an eviction is under way: only the
holder of the lock has anything in `gone`, and the sums are those of the events
that are left. `ImplementsEvidenceLog` is the refinement, step by step: a capture
that returns is one step of `EvidenceLog`, everything before it a stutter, for
which it must be known that no fewer evictions would have made room
(`NoEarlierRoom`).

*Cache.* `HolesBeingWritten` is inductive with the fact that a download is at
the position up to which its own chunks are written. The two others need, for a
time without overlap, `SerialInv`: one invocation at most is under way; only
downloads write (`SuppliedIsRead`); what was accepted stays as pinned unless another
artifact is downloaded to its file (`AcceptedIsFull`, from `OwnFileIsApart`); what
was read of a file that is being hashed is as it was (`ReadIsGood`); and sums and
copies follow the files (`SummedIsCached`, `InPlaceIsSummed`, `PinnedInPlace`). The
theorems speak of any sharing of files; `OwnFile` and `OwnCopy` say of which
artifacts, and `MCDownloadCacheNames.cfg` shows why.

*Documents.* All five properties hold of any sets of inputs that the source
admits (`EveryDirectory`, `EveryInterop`, `EveryMatrix`, `EveryOutput`,
`EveryPortfolio`). `AuditedDirectoryResolves`, `InteropLaunchesTested` and
`MatrixVerdictsHold` go by cases over the findings an audit without findings
excludes. The other two are about loops. As no induction theorem of the library
can be used, `UpTo` gets induction over the turns of a loop from the least
element of a set of numbers; `Iterated` gives the loop a value after each turn,
`LoopKeeps` what its turns keep.

* `ChunksMakeNoDifference`: the log *tells* of the first n symbols of a text
  (`Tells`) when its lines are those ended by the line feeds among them, numbered
  by counting, and `partial` is the rest. `accept()` goes back to the symbols it
  kept and tells of them again (`ChunkAccepted`). Then the text that was read is
  compared with the one that was sent (`ReadAlike`), symbol by symbol: they
  differ only in damaged characters, and line feeds are never among those.
* `PortfolioIsEarned`: after each target the report says of it and of those
  before it what happened (`Told`), and the cache of Java inspections holds what
  the machine answers. Exit code 0 is then a statement about the report.

Every safety invariant and action property of a passing run is a theorem.
Model-checked only is liveness (`CallsReturn` of the supervisor and of the
client, `EveryRunEnds`, `HandlersReturn`, `PreparationEnds`, `WaitsEnd`), which
needs fairness and is outside of what the prover does.

## Not modelled

* *Scenario loading and validation, reports, comparison of reports, the rest of
  the CLI and the repository's scripts* are parsing, schema validation by a
  library and rendering, without state.
* *Game state in `main.rs`* mirrors the server through a library.
* *The other operations of the bridge and the adapters* are calls into Minecraft
  and other mods on the server thread; break protection is a switch of Fabric.
* *Rooms* reads all pages of a snapshot in one task of the server thread, and
  what could change in between lies in the Rooms mod. *Parcels* publishes and
  saves as the Coffer adapter does. *Status, replay and reconcile* of the Patrol
  adapter validate answers of that mod.
* *The ring of tick samples* is read without a lock while it is written, a race
  whose harm is one stale sample.
* *`getFreePort()`*: another process may take the port; the run then fails.
* *An EPIPE error on the stdin of a process that died a moment ago, and a log
  chunk after the log was closed*, are uncaught errors of the runner; the second
  is recorded (`lateWrite`), and no statement of the repository speaks of either.

## Plan

Every module of the plan is written, and every safety property proved. What is
left: the ring of samples with its percentiles as an algorithm; the availability
file of Parcels; lemmas for liveness (what stays enabled until it is taken), as
far as they can be stated without `ENABLED`.
