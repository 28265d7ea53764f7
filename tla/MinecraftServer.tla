--------------------------- MODULE MinecraftServer ---------------------------
(***************************************************************************)
(* The supervisor of the dedicated server process: class MinecraftServer   *)
(* of src/server.ts.  Tasks are the coroutines of the harness that call    *)
(* start() and stop(); Node interleaves them at their awaits, so a call    *)
(* that waits is a state of its task and every event-loop callback is an   *)
(* action.  The promise reactions that one exit event sets off run before  *)
(* the next callback and never read `this.process` after another task has  *)
(* replaced it, so they are part of the action of that event.              *)
(***************************************************************************)
EXTENDS Naturals

CONSTANTS
  Tasks,        \* the coroutines that may call the supervisor
  MaxSpawns,    \* bound: how many times a child process is spawned
  MaxFindings   \* bound: error lines a child prints beyond those found so far

ASSUME BoundsAssumption == MaxSpawns \in Nat /\ MaxFindings \in Nat

VARIABLES
  process,      \* this.process: the last child spawned, 0 for undefined
  child,        \* what Node knows of each child process
  stopSent,     \* the children whose stdin was sent "stop"
  call,         \* where each task's call stands
  unread,       \* error lines each child printed that the loop has not read
  findings,     \* this.monitor.findings
  logClosed,    \* this.logClosed
  lateWrite     \* a chunk reached logStream.write() after logStream.end()

processVars == <<process, child, stopSent>>
logVars     == <<unread, findings, logClosed, lateWrite>>
vars        == <<processVars, call, logVars>>

ChildIds == 1..MaxSpawns

\* "exited" and "failed" leave a number in child.exitCode; a child ended by a
\* signal ("killed") leaves exitCode null and sets signalCode.
ChildStates == {"none", "booting", "ready", "exited", "killed", "failed"}
Waits       == {"starting", "stopping", "startForce", "stopForce"}
Outcomes    == {"none", "ok", "alreadyRunning", "failed"}

Idle(outcome)   == [pc |-> "idle", on |-> 0, outcome |-> outcome]
Waiting(pc, c)  == [pc |-> pc, on |-> c, outcome |-> "none"]

Alive(c) == child[c] \in {"booting", "ready"}

ExitCodeNull(c) == child[c] \in {"booting", "ready", "killed"}

\* Mutant of Running: a server that has not printed its ready line is not
\* taken for a running one.
RunningOnceReady == process # 0 /\ child[process] = "ready"

\* `get running()`, and the test stop() and forceStop() open with.
Running == process # 0 /\ ExitCodeNull(process)

-----------------------------------------------------------------------------
\* A call returns or throws: its outcome waits for the caller to collect it.
Return(t, outcome) == call' = [call EXCEPT ![t] = Idle(outcome)]

Free(t) == call[t] = Idle("none")

StartRefused(t) ==
  /\ Free(t)
  /\ Running
  /\ Return(t, "alreadyRunning")
  /\ UNCHANGED <<processVars, logVars>>

\* start(): spawn() assigns this.process at once and waits for readiness.
StartSpawns(t) ==
  /\ Free(t)
  /\ ~Running
  /\ process < MaxSpawns
  /\ process' = process + 1
  /\ child' = [child EXCEPT ![process + 1] = "booting"]
  /\ call' = [call EXCEPT ![t] = Waiting("starting", process + 1)]
  /\ UNCHANGED <<stopSent, logVars>>

\* No executable: the "error" event comes on the next tick, with a negative
\* exitCode, before any other task can run; forceStop() then returns early.
StartSpawnFails(t) ==
  /\ Free(t)
  /\ ~Running
  /\ process < MaxSpawns
  /\ process' = process + 1
  /\ child' = [child EXCEPT ![process + 1] = "failed"]
  /\ Return(t, "failed")
  /\ UNCHANGED <<stopSent, logVars>>

\* forceStop() as the catch blocks of start() and stop() call it: it acts on
\* this.process, whichever child the caller had spawned.
ForceStop(t, pc) ==
  IF Running
    THEN call' = [call EXCEPT ![t] = Waiting(pc, process)]
    ELSE Return(t, "failed")

StartTimesOut(t) ==
  /\ call[t].pc = "starting"
  /\ ForceStop(t, "startForce")
  /\ UNCHANGED <<processVars, logVars>>

\* stop() with no process, or one that left an exit code, returns at once.
StopReturnsAtOnce(t) ==
  /\ Free(t)
  /\ ~Running
  /\ Return(t, "ok")
  /\ UNCHANGED <<processVars, logVars>>

StopWrites(t) ==
  /\ Free(t)
  /\ Running
  /\ stopSent' = stopSent \union {process}
  /\ call' = [call EXCEPT ![t] = Waiting("stopping", process)]
  /\ UNCHANGED <<process, child, logVars>>

\* Mutant of StopTimesOut: the timeout of the shutdown is swallowed.
StopGivesUp(t) ==
  /\ call[t].pc = "stopping"
  /\ Return(t, "ok")
  /\ UNCHANGED <<processVars, logVars>>

StopTimesOut(t) ==
  /\ call[t].pc = "stopping"
  /\ ForceStop(t, "stopForce")
  /\ UNCHANGED <<processVars, logVars>>

\* Mutant of ForceTimesOut: forceStop() waits for the exit alone.
ForceWaitsForExit(t) == FALSE /\ UNCHANGED vars

\* forceStop() waits ten seconds for the exit and swallows its own timeout;
\* the caller rethrows the error that led to it.
ForceTimesOut(t) ==
  /\ call[t].pc \in {"startForce", "stopForce"}
  /\ Return(t, "failed")
  /\ UNCHANGED <<processVars, logVars>>

Collect(t) ==
  /\ call[t].pc = "idle"
  /\ call[t].outcome # "none"
  /\ Return(t, "none")
  /\ UNCHANGED <<processVars, logVars>>

-----------------------------------------------------------------------------
\* The ready line settles the readiness promise of the call that spawned c.
Ready(c) ==
  /\ child[c] = "booting"
  /\ child' = [child EXCEPT ![c] = "ready"]
  /\ call' = [t \in Tasks |->
                IF call[t].pc = "starting" /\ call[t].on = c
                  THEN Idle("ok") ELSE call[t]]
  /\ UNCHANGED <<process, stopSent, logVars>>

\* What the exit event of the child a call waits on makes of the call.  A
\* start() whose child died of a signal finds exitCode null in forceStop() and
\* waits there for an exit event that has been and gone.
AfterExit(wait, how) ==
  CASE wait.pc = "starting" -> IF how = "killed"
                                 THEN Waiting("startForce", wait.on)
                                 ELSE Idle("failed")
    [] wait.pc = "stopping" -> Idle("ok")
    [] OTHER                -> Idle("failed")

\* The child ends, by itself, on "stop", by SIGKILL or by another signal.
Exit(c, how) ==
  /\ Alive(c)
  /\ child' = [child EXCEPT ![c] = how]
  /\ call' = [t \in Tasks |->
                IF call[t].pc # "idle" /\ call[t].on = c
                  THEN AfterExit(call[t], how) ELSE call[t]]
  /\ UNCHANGED <<process, stopSent, logVars>>

\* The child prints a line with an error no allowlist pattern matches.
Log(c) ==
  /\ Alive(c)
  /\ findings + unread[c] < MaxFindings
  /\ unread' = [unread EXCEPT ![c] = @ + 1]
  /\ UNCHANGED <<processVars, call, findings, logClosed, lateWrite>>

\* Mutant of Data: the chunk is taken off the pipe once by each of two listeners.
DataTakenTwice(c) ==
  /\ unread[c] > 0
  /\ unread' = [unread EXCEPT ![c] = @ - 2]
  /\ findings' = findings + 2
  /\ UNCHANGED <<processVars, call, logClosed, lateWrite>>

\* onData: the pipe may hold output when the exit event fires, and is read on.
\* The monitor takes the line even when the log stream was ended.
Data(c) ==
  /\ unread[c] > 0
  /\ unread' = [unread EXCEPT ![c] = @ - 1]
  /\ findings' = findings + 1
  /\ lateWrite' = (lateWrite \/ logClosed)
  /\ UNCHANGED <<processVars, call, logClosed>>

CloseLog ==
  /\ logClosed' = TRUE
  /\ UNCHANGED <<processVars, call, unread, findings, lateWrite>>

-----------------------------------------------------------------------------
Init ==
  /\ process = 0
  /\ child = [c \in ChildIds |-> "none"]
  /\ stopSent = {}
  /\ call = [t \in Tasks |-> Idle("none")]
  /\ unread = [c \in ChildIds |-> 0]
  /\ findings = 0
  /\ logClosed = FALSE
  /\ lateWrite = FALSE

Start(t) == StartRefused(t) \/ StartSpawns(t) \/ StartSpawnFails(t)

Stop(t) == StopReturnsAtOnce(t) \/ StopWrites(t)

Timeout(t) == StartTimesOut(t) \/ StopTimesOut(t) \/ ForceTimesOut(t)

\* What the child process and the event loop do by themselves.
Environment ==
  \/ \E c \in ChildIds : Ready(c) \/ Log(c) \/ Data(c)
  \/ \E c \in ChildIds, how \in {"exited", "killed"} : Exit(c, how)

Next ==
  \/ \E t \in Tasks : Start(t) \/ Stop(t) \/ Timeout(t) \/ Collect(t)
  \/ Environment
  \/ CloseLog

\* Node fires every timer that is due, but the timers of withTimeout() are
\* unref()'d: none is sure to fire when no child keeps the event loop alive.
\* Nothing is assumed of the child.
Fairness == \A t \in Tasks : WF_vars((\E c \in ChildIds : Alive(c)) /\ Timeout(t))

Spec == Init /\ [][Next]_vars /\ Fairness

-----------------------------------------------------------------------------
\* The type invariant.
TypeOK ==
  /\ process \in 0..MaxSpawns
  /\ child \in [ChildIds -> ChildStates]
  /\ stopSent \subseteq ChildIds
  /\ call \in [Tasks -> [pc : Waits \union {"idle"}, on : 0..MaxSpawns, outcome : Outcomes]]
  /\ unread \in [ChildIds -> Nat]
  /\ findings \in Nat
  /\ logClosed \in BOOLEAN
  /\ lateWrite \in BOOLEAN

\* Two server processes never run at once in the one run directory, whatever
\* the tasks call and whenever their timeouts fire: start() goes by the exit
\* code of the last child alone (server.ts:34).
AtMostOneAlive == \A c, d \in ChildIds : Alive(c) /\ Alive(d) => c = d

\* forceStop() signals this.process rather than the child its caller waited
\* for (server.ts:105); the two are the same child whenever it is reached.
KillsOwnChild ==
  [][\A t \in Tasks :
       /\ call[t].pc \in {"starting", "stopping"}
       /\ call'[t].pc \in {"startForce", "stopForce"}
       => call'[t].on = call[t].on]_vars

\* A stop() that returns without an error leaves the process it had found
\* dead, even when another task started the next one at that moment.
StopOkMeansDown ==
  [][\A t \in Tasks :
       call[t].pc = "stopping" /\ call'[t] = Idle("ok")
       => child'[call[t].on] \notin {"booting", "ready"}]_vars

\* A task waits on a child only while that child is this.process and Node
\* shows no exit code for it: no call is left waiting for a replaced child.
WaitersOnCurrent ==
  \A t \in Tasks : call[t].pc # "idle" => call[t].on = process /\ Running

\* Every start() and stop() comes back to its caller, if only by a timeout,
\* unless the server died of a signal: Node shows no exit code for it then, and
\* the call waits for an exit event that has been and gone.
CallsReturn ==
  \A t \in Tasks :
    call[t].pc # "idle" ~> call[t].pc = "idle" \/ child[call[t].on] = "killed"

\* What SERVER_ALREADY_RUNNING says when start() throws it (server.ts:34,
\* "Minecraft server is already running"): the server process is alive.
RefusedOnlyWhileAlive ==
  [][\A t \in Tasks :
       /\ call[t].outcome # "alreadyRunning"
       /\ call'[t].outcome = "alreadyRunning"
       => Alive(process)]_vars
=============================================================================
