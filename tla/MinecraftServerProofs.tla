------------------------ MODULE MinecraftServerProofs ------------------------
(***************************************************************************)
(* The safety of the server supervisor, for any set of tasks, any number   *)
(* of generations of the child process and any number of log lines.        *)
(***************************************************************************)
EXTENDS MinecraftServer, TLAPS

\* The specification without its fairness: all that the safety rests on.
SafeSpec == Init /\ [][Next]_vars

\* Only the last child spawned can be alive, and those to come do not exist.
OnlyCurrentAlive ==
  /\ \A c \in ChildIds : Alive(c) => c = process
  /\ \A c \in ChildIds : c > process => child[c] = "none"

\* The inductive invariant.  AtMostOneAlive is not inductive by itself: that
\* start() may spawn rests on the last child being the only one alive, and
\* that no call waits on an older one rests on WaitersOnCurrent.
IInv == TypeOK /\ OnlyCurrentAlive /\ WaitersOnCurrent

\* The states of one task's call.
Calls == [pc : Waits \union {"idle"}, on : 0..MaxSpawns, outcome : Outcomes]

USE BoundsAssumption

LEMMA IdleIsCall == ASSUME NEW outcome \in Outcomes PROVE Idle(outcome) \in Calls
BY DEF Calls, Idle

LEMMA WaitingIsCall ==
  ASSUME NEW wait \in Waits, NEW c \in 0..MaxSpawns
  PROVE  Waiting(wait, c) \in Calls /\ Waiting(wait, c).on = c
BY DEF Calls, Waiting, Outcomes

LEMMA InitInv == Init => IInv
<1> SUFFICES ASSUME Init PROVE IInv
  OBVIOUS
<1>1. call \in [Tasks -> Calls]
  BY IdleIsCall DEF Init, Outcomes
<1>2. TypeOK
  <2>1. child \in [ChildIds -> ChildStates]
    BY DEF Init, ChildStates
  <2>2. unread \in [ChildIds -> Nat]
    BY DEF Init
  <2>3. process \in 0..MaxSpawns /\ stopSent \subseteq ChildIds /\ findings \in Nat
    BY DEF Init
  <2> QED
    BY <1>1, <2>1, <2>2, <2>3 DEF Init, TypeOK, Calls
<1>3. OnlyCurrentAlive
  BY DEF Init, OnlyCurrentAlive, Alive, ChildIds
<1>4. WaitersOnCurrent
  BY DEF Init, WaitersOnCurrent, Idle
<1> QED
  BY <1>2, <1>3, <1>4 DEF IInv

\* A call that neither spawns nor ends a child changes one task, which is then
\* idle or waits on the last child, and that one shows no exit code.
LEMMA CallKeepsInv ==
  ASSUME IInv, NEW t \in Tasks, NEW state \in Calls,
         state.pc # "idle" => state.on = process /\ Running,
         call' = [call EXCEPT ![t] = state],
         UNCHANGED <<process, child>>, stopSent' \subseteq ChildIds,
         UNCHANGED logVars
  PROVE  IInv'
<1>1. TypeOK'
  BY DEF IInv, TypeOK, Calls, ChildIds, logVars
<1>2. OnlyCurrentAlive'
  BY DEF IInv, OnlyCurrentAlive, Alive, ChildIds
<1>3. WaitersOnCurrent'
  BY DEF IInv, TypeOK, WaitersOnCurrent, Running, ExitCodeNull
<1> QED
  BY <1>1, <1>2, <1>3 DEF IInv

\* start() replaces this.process only when no task waits and none is alive.
LEMMA SpawnKeepsInv ==
  ASSUME IInv, ~Running, process < MaxSpawns,
         NEW t \in Tasks, NEW state \in Calls, NEW how \in {"booting", "failed"},
         state.pc # "idle" => state.on = process + 1 /\ how = "booting",
         process' = process + 1,
         child' = [child EXCEPT ![process + 1] = how],
         call' = [call EXCEPT ![t] = state],
         UNCHANGED <<stopSent, logVars>>
  PROVE  IInv'
<1>1. \A u \in Tasks : call[u].pc = "idle"
  BY DEF IInv, WaitersOnCurrent
<1>2. \A c \in ChildIds : ~Alive(c)
  BY DEF IInv, TypeOK, OnlyCurrentAlive, Running, ExitCodeNull, Alive, ChildIds
<1>3. TypeOK'
  BY DEF IInv, TypeOK, Calls, ChildIds, ChildStates, logVars
<1>4. OnlyCurrentAlive'
  BY <1>2 DEF IInv, TypeOK, OnlyCurrentAlive, Alive, ChildIds
<1>5. WaitersOnCurrent'
  BY <1>1 DEF IInv, TypeOK, WaitersOnCurrent, Running, ExitCodeNull, ChildIds
<1> QED
  BY <1>3, <1>4, <1>5 DEF IInv

LEMMA StartKeepsInv ==
  ASSUME IInv, NEW t \in Tasks, Start(t)
  PROVE  IInv'
<1>1. CASE StartRefused(t)
  BY <1>1, CallKeepsInv, IdleIsCall
  DEF StartRefused, Return, processVars, logVars, IInv, TypeOK, Outcomes, Idle
<1>2. CASE StartSpawns(t)
  <2>1. Waiting("starting", process + 1) \in Calls
    BY <1>2 DEF StartSpawns, Calls, Waiting, Waits, Outcomes, IInv, TypeOK
  <2> QED
    BY <1>2, <2>1, SpawnKeepsInv DEF StartSpawns, logVars, Waiting
<1>3. CASE StartSpawnFails(t)
  BY <1>3, SpawnKeepsInv, IdleIsCall DEF StartSpawnFails, Return, Outcomes, Idle
<1> QED
  BY <1>1, <1>2, <1>3 DEF Start

LEMMA StopKeepsInv ==
  ASSUME IInv, NEW t \in Tasks, Stop(t)
  PROVE  IInv'
<1>1. CASE StopReturnsAtOnce(t)
  BY <1>1, CallKeepsInv, IdleIsCall
  DEF StopReturnsAtOnce, Return, processVars, logVars, IInv, TypeOK, Outcomes, Idle
<1>2. CASE StopWrites(t)
  <2>1. Waiting("stopping", process) \in Calls
    BY DEF Calls, Waiting, Waits, Outcomes, IInv, TypeOK
  <2>2. stopSent' \subseteq ChildIds
    BY <1>2 DEF StopWrites, Running, IInv, TypeOK, ChildIds
  <2> QED
    BY <1>2, <2>1, <2>2, CallKeepsInv DEF StopWrites, Waiting
<1> QED
  BY <1>1, <1>2 DEF Stop

LEMMA TimeoutKeepsInv ==
  ASSUME IInv, NEW t \in Tasks, Timeout(t)
  PROVE  IInv'
<1>1. ASSUME NEW wait \in {"startForce", "stopForce"}, ForceStop(t, wait),
             UNCHANGED <<processVars, logVars>>
      PROVE  IInv'
  <2>1. CASE Running
    <3>1. Waiting(wait, process) \in Calls
      BY DEF Calls, Waiting, Waits, Outcomes, IInv, TypeOK
    <3> QED
      BY <1>1, <2>1, <3>1, CallKeepsInv DEF ForceStop, processVars, Waiting, IInv, TypeOK
  <2>2. CASE ~Running
    BY <1>1, <2>2, CallKeepsInv, IdleIsCall
    DEF ForceStop, Return, processVars, Outcomes, Idle, IInv, TypeOK
  <2> QED
    BY <2>1, <2>2
<1>2. CASE StartTimesOut(t)
  BY <1>1, <1>2 DEF StartTimesOut
<1>3. CASE StopTimesOut(t)
  BY <1>1, <1>3 DEF StopTimesOut
<1>4. CASE ForceTimesOut(t)
  BY <1>4, CallKeepsInv, IdleIsCall
  DEF ForceTimesOut, Return, processVars, Outcomes, Idle, IInv, TypeOK
<1> QED
  BY <1>2, <1>3, <1>4 DEF Timeout

LEMMA CollectKeepsInv ==
  ASSUME IInv, NEW t \in Tasks, Collect(t)
  PROVE  IInv'
BY CallKeepsInv, IdleIsCall DEF Collect, Return, processVars, Outcomes, Idle, IInv, TypeOK

\* A child ends, or gets ready, only if it is the last one spawned: every call
\* that waits waits on it.
LEMMA ChildKeepsInv ==
  ASSUME IInv, NEW c \in ChildIds, Alive(c),
         NEW how \in {"ready", "exited", "killed"},
         child' = [child EXCEPT ![c] = how],
         UNCHANGED <<process, stopSent, logVars>>,
         call' \in [Tasks -> Calls],
         \A t \in Tasks : call'[t].pc # "idle" =>
            /\ call[t].pc # "idle"
            /\ call'[t].on = call[t].on
            /\ how # "exited"
  PROVE  IInv'
<1>1. c = process /\ process # 0
  BY DEF IInv, OnlyCurrentAlive, ChildIds
<1>2. TypeOK'
  BY DEF IInv, TypeOK, Calls, ChildStates, logVars
<1>3. OnlyCurrentAlive'
  BY <1>1 DEF IInv, TypeOK, OnlyCurrentAlive, Alive, ChildIds
<1>4. WaitersOnCurrent'
  BY <1>1 DEF IInv, TypeOK, WaitersOnCurrent, Running, ExitCodeNull
<1> QED
  BY <1>2, <1>3, <1>4 DEF IInv

LEMMA ReadyKeepsInv ==
  ASSUME IInv, NEW c \in ChildIds, Ready(c)
  PROVE  IInv'
<1>1. call' \in [Tasks -> Calls]
  BY IdleIsCall DEF Ready, IInv, TypeOK, Calls, Outcomes
<1>2. \A t \in Tasks : call'[t].pc # "idle" => call'[t] = call[t]
  BY DEF Ready, Idle
<1> QED
  BY <1>1, <1>2, ChildKeepsInv DEF Ready, Alive

\* What an exit makes of the call that waited for it.
LEMMA AfterExitIsCall ==
  ASSUME NEW state \in Calls, NEW how \in {"exited", "killed"}
  PROVE  /\ AfterExit(state, how) \in Calls
         /\ AfterExit(state, how).pc # "idle" =>
              AfterExit(state, how) = Waiting("startForce", state.on) /\ how = "killed"
<1>1. Idle("ok") \in Calls /\ Idle("failed") \in Calls
  BY IdleIsCall DEF Outcomes
<1>2. Waiting("startForce", state.on) \in Calls
  BY DEF Calls, Waiting, Waits, Outcomes
<1> QED
  BY <1>1, <1>2 DEF AfterExit, Idle

LEMMA ExitKeepsInv ==
  ASSUME IInv, NEW c \in ChildIds, NEW how \in {"exited", "killed"}, Exit(c, how)
  PROVE  IInv'
<1>1. ASSUME NEW t \in Tasks
      PROVE  /\ call'[t] \in Calls
             /\ call'[t].pc # "idle" =>
                  /\ call[t].pc # "idle"
                  /\ call'[t].on = call[t].on
                  /\ how # "exited"
  <2>1. call[t] \in Calls
    BY DEF IInv, TypeOK, Calls
  <2>2. CASE call[t].pc = "idle"
    BY <2>1, <2>2 DEF Exit
  <2>3. CASE call[t].pc # "idle"
    <3>1. call[t].on = c
      BY <2>3 DEF Exit, IInv, OnlyCurrentAlive, WaitersOnCurrent
    <3>2. call'[t] = AfterExit(call[t], how)
      BY <2>3, <3>1 DEF Exit
    <3> QED
      BY <2>1, <2>3, <3>2, AfterExitIsCall DEF Waiting
  <2> QED
    BY <2>2, <2>3
<1>2. call' \in [Tasks -> Calls]
  BY <1>1 DEF Exit
<1> QED
  BY <1>1, <1>2, ChildKeepsInv DEF Exit

LEMMA LogKeepsInv ==
  ASSUME IInv, UNCHANGED <<processVars, call>>,
         unread' \in [ChildIds -> Nat], findings' \in Nat,
         logClosed' \in BOOLEAN, lateWrite' \in BOOLEAN
  PROVE  IInv'
BY DEF IInv, TypeOK, OnlyCurrentAlive, WaitersOnCurrent, Running, Alive, ExitCodeNull,
       processVars

LEMMA NextKeepsInv == IInv /\ [Next]_vars => IInv'
<1> SUFFICES ASSUME IInv, [Next]_vars PROVE IInv'
  OBVIOUS
<1>1. CASE UNCHANGED vars
  BY <1>1, LogKeepsInv DEF vars, logVars, IInv, TypeOK
<1>2. ASSUME NEW t \in Tasks, Start(t) \/ Stop(t) \/ Timeout(t) \/ Collect(t)
      PROVE  IInv'
  BY <1>2, StartKeepsInv, StopKeepsInv, TimeoutKeepsInv, CollectKeepsInv
<1>3. ASSUME NEW c \in ChildIds, Ready(c) PROVE IInv'
  BY <1>3, ReadyKeepsInv
<1>4. ASSUME NEW c \in ChildIds, Log(c) PROVE IInv'
  BY <1>4, LogKeepsInv DEF Log, IInv, TypeOK
<1>5. ASSUME NEW c \in ChildIds, Data(c) PROVE IInv'
  <2>1. unread' \in [ChildIds -> Nat]
    BY <1>5 DEF Data, IInv, TypeOK
  <2> QED
    BY <1>5, <2>1, LogKeepsInv DEF Data, IInv, TypeOK
<1>6. ASSUME NEW c \in ChildIds, NEW how \in {"exited", "killed"}, Exit(c, how)
      PROVE  IInv'
  BY <1>6, ExitKeepsInv
<1>7. CASE CloseLog
  BY <1>7, LogKeepsInv DEF CloseLog, IInv, TypeOK
<1> QED
  BY <1>1, <1>2, <1>3, <1>4, <1>5, <1>6, <1>7 DEF Next, Environment

-----------------------------------------------------------------------------
\* The inductive invariant holds in every state the supervisor reaches, in
\* whatever order its tasks call start() and stop(), its children end and its
\* timers fire; the theorems below follow from it.
THEOREM Invariance == SafeSpec => []IInv
BY InitInv, NextKeepsInv, PTL DEF SafeSpec

\* Type correctness of the supervisor.
THEOREM TypeCorrect == Spec => []TypeOK
<1>1. IInv => TypeOK
  BY DEF IInv
<1> QED
  BY <1>1, Invariance, PTL DEF Spec, SafeSpec

\* start() by any number of tasks never has two server processes running at
\* once in the run directory (server.ts:34).
THEOREM OneServer == Spec => []AtMostOneAlive
<1>1. IInv => AtMostOneAlive
  BY DEF IInv, OnlyCurrentAlive, AtMostOneAlive
<1> QED
  BY <1>1, Invariance, PTL DEF Spec, SafeSpec

\* No call is left waiting on a child that start() has replaced.
THEOREM NoOrphanedWait == Spec => []WaitersOnCurrent
<1>1. IInv => WaitersOnCurrent
  BY DEF IInv
<1> QED
  BY <1>1, Invariance, PTL DEF Spec, SafeSpec

-----------------------------------------------------------------------------
\* What a step makes of the call of a task that waits: only its own timeout
\* and the events of the child it waits on change it.
LEMMA StepOfWaiter ==
  ASSUME IInv, [Next]_vars, NEW t \in Tasks, call[t].pc # "idle"
  PROVE  \/ call'[t] = call[t]
         \/ Timeout(t)
         \/ call[t].pc = "starting" /\ call'[t] = Idle("ok")
         \/ \E how \in {"exited", "killed"} :
              /\ Exit(call[t].on, how)
              /\ call'[t] = AfterExit(call[t], how)
<1>1. CASE UNCHANGED vars
  BY <1>1 DEF vars
<1>2. ASSUME NEW u \in Tasks, Start(u) \/ Stop(u) \/ Timeout(u) \/ Collect(u), u # t
      PROVE  call'[t] = call[t]
  BY <1>2 DEF Start, StartRefused, StartSpawns, StartSpawnFails, Stop, StopReturnsAtOnce,
              StopWrites, Timeout, StartTimesOut, StopTimesOut, ForceTimesOut, ForceStop,
              Collect, Return, IInv, TypeOK
<1>3. ~Start(t) /\ ~Stop(t) /\ ~Collect(t)
  BY DEF Start, StartRefused, StartSpawns, StartSpawnFails, Stop, StopReturnsAtOnce,
         StopWrites, Collect, Free, Idle
<1>4. ASSUME NEW c \in ChildIds, Ready(c)
      PROVE  call'[t] = call[t] \/ (call[t].pc = "starting" /\ call'[t] = Idle("ok"))
  BY <1>4 DEF Ready
<1>5. ASSUME NEW c \in ChildIds, Log(c) \/ Data(c)
      PROVE  call'[t] = call[t]
  BY <1>5 DEF Log, Data
<1>6. ASSUME NEW c \in ChildIds, NEW how \in {"exited", "killed"}, Exit(c, how)
      PROVE  Exit(call[t].on, how) /\ call'[t] = AfterExit(call[t], how)
  <2>1. call[t].on = c
    BY <1>6 DEF Exit, IInv, OnlyCurrentAlive, WaitersOnCurrent
  <2> QED
    BY <1>6, <2>1 DEF Exit
<1>7. CASE CloseLog
  BY <1>7 DEF CloseLog
<1> QED
  BY <1>1, <1>2, <1>3, <1>4, <1>5, <1>6, <1>7 DEF Next, Environment

LEMMA KillStep ==
  ASSUME IInv, [Next]_vars, NEW t \in Tasks,
         call[t].pc \in {"starting", "stopping"},
         call'[t].pc \in {"startForce", "stopForce"}
  PROVE  call'[t].on = call[t].on
<1>1. call[t].on = process /\ Running
  BY DEF IInv, WaitersOnCurrent
<1>2. CASE Timeout(t)
  BY <1>1, <1>2
  DEF Timeout, StartTimesOut, StopTimesOut, ForceTimesOut, ForceStop, Waiting, IInv, TypeOK
<1>3. ASSUME NEW how \in {"exited", "killed"}, call'[t] = AfterExit(call[t], how)
      PROVE  call'[t].on = call[t].on
  BY <1>3 DEF AfterExit, Idle, Waiting
<1> QED
  BY <1>2, <1>3, StepOfWaiter DEF Idle

\* forceStop() kills the child its caller had waited for, although it takes
\* it from this.process (server.ts:105).
THEOREM KillsOwn == Spec => KillsOwnChild
<1>1. IInv /\ [Next]_vars =>
        [\A t \in Tasks :
           /\ call[t].pc \in {"starting", "stopping"}
           /\ call'[t].pc \in {"startForce", "stopForce"}
           => call'[t].on = call[t].on]_vars
  BY KillStep
<1> QED
  BY <1>1, Invariance, PTL DEF Spec, SafeSpec, KillsOwnChild

LEMMA StopStep ==
  ASSUME IInv, [Next]_vars, NEW t \in Tasks,
         call[t].pc = "stopping", call'[t] = Idle("ok")
  PROVE  child'[call[t].on] \notin {"booting", "ready"}
<1>1. ~Timeout(t)
  BY DEF Timeout, StartTimesOut, StopTimesOut, ForceTimesOut, ForceStop, Return, Waiting, Idle,
         IInv, TypeOK
<1>2. PICK how \in {"exited", "killed"} : Exit(call[t].on, how)
  BY <1>1, StepOfWaiter DEF Idle
<1>3. call[t].on \in ChildIds
  BY DEF IInv, TypeOK, WaitersOnCurrent, Running, ChildIds
<1> QED
  BY <1>2, <1>3 DEF Exit, IInv, TypeOK

\* A stop() that returns without an error leaves the process it found dead.
THEOREM StopOk == Spec => StopOkMeansDown
<1>1. IInv /\ [Next]_vars =>
        [\A t \in Tasks :
           call[t].pc = "stopping" /\ call'[t] = Idle("ok")
           => child'[call[t].on] \notin {"booting", "ready"}]_vars
  BY StopStep
<1> QED
  BY <1>1, Invariance, PTL DEF Spec, SafeSpec, StopOkMeansDown
=============================================================================
