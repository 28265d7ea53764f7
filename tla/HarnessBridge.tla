----------------------------- MODULE HarnessBridge -----------------------------
(***************************************************************************)
(* The bridge mod, HarnessBridgeMod.java, with its client,                 *)
(* src/bridge-client.ts, and the Coffer adapter behind it.  Each request   *)
(* has an HTTP thread of its own.  It hands its task to the server thread  *)
(* and waits 15 s for it (onServer()), or waits for ticks to end; the      *)
(* client aborts after 15 s of its own.  Tasks stay in the queue of the    *)
(* server whoever still waits for them.                                    *)
(***************************************************************************)
EXTENDS CofferProviderControl, Sequences

CONSTANTS
  Requests,     \* bound: the requests made
  Ops,          \* what they ask: provider controls, and the wait for a tick
  MaxTicks,     \* bound
  MaxStarts     \* bound: how often the server is started

Tick == [provider |-> "tick", mode |-> "tick"]

ASSUME BridgeAssumption ==
  /\ Ops \subseteq ControlOps \union {Tick}
  /\ "tick" \notin Providers /\ "none" \notin Requests
  /\ MaxTicks \in Nat /\ MaxStarts \in Nat

VARIABLES
  server,      \* "down", "running", or "stopping": after SERVER_STOPPING
  starts,
  ticks,       \* HarnessMetrics.ticks
  queue,       \* tasks handed to the server thread
  running,     \* the request whose task runs on it, if there is one
  thread,      \* the HTTP thread of each request
  op,          \* what it asks, once sent
  future,      \* its CompletableFuture
  answer,      \* what its client was told
  from,        \* the tick counter when its wait for a tick began
  before,      \* the requests the bridge had handled when it was made
  kept         \* requests whose control is saved, and that no broken save has lost

requestVars == <<thread, op, future, answer, from, before>>
bridgeVars  == <<server, starts, ticks, queue, running, requestVars, kept>>
vars        == <<controlVars, bridgeVars>>

None == "none"
Open(r)  == thread[r] \in {"received", "waiting", "ticking"}
Idle     == running = None /\ step = "idle"
Controls == {r \in Requests : op[r] # Tick}

Tell(r, what) ==
  answer' = IF answer[r] = None THEN [answer EXCEPT ![r] = what] ELSE answer

\* The thread answers and ends; what it alone knew is gone.
Close(r, what) ==
  /\ thread' = [thread EXCEPT ![r] = "closed"]
  /\ future' = [future EXCEPT ![r] = None] /\ from' = [from EXCEPT ![r] = 0]
  /\ Tell(r, what)

-----------------------------------------------------------------------------
(* Requests *)

\* A step of the scenario, or one left over by an earlier one, asks.
Send(r) ==
  /\ thread[r] = "unsent" /\ server = "running"
  /\ thread' = [thread EXCEPT ![r] = "received"]
  /\ \E o \in Ops : op' = [op EXCEPT ![r] = o]
  /\ before' = [before EXCEPT ![r] = {q \in Requests : thread[q] \notin {"unsent", "received"}}]
  /\ UNCHANGED <<controlVars, server, starts, ticks, queue, running, future, answer, from, kept>>

\* handle(): a tick wait goes on in HarnessMetrics.await(), whatever becomes of
\* the server; a task is queued by onServer(), unless the bridge has stopped.
\* A request whose client has given up is handled all the same, if it was sent
\* in full.
Handle(r) ==
  /\ thread[r] = "received"
  /\ \/ /\ op[r] = Tick
        /\ thread' = [thread EXCEPT ![r] = "ticking"]
        /\ from' = [from EXCEPT ![r] = ticks]
        /\ UNCHANGED <<queue, future, answer>>
     \/ /\ op[r] # Tick /\ server = "running"
        /\ thread' = [thread EXCEPT ![r] = "waiting"]
        /\ queue' = Append(queue, r)
        /\ UNCHANGED <<future, answer, from>>
     \/ /\ answer[r] = "aborted" \/ (op[r] # Tick /\ server = "stopping")
        /\ Close(r, "error")
        /\ UNCHANGED queue
  /\ UNCHANGED <<controlVars, server, starts, ticks, running, op, before, kept>>

\* The future is complete, and the thread still waits for it.
Respond(r) ==
  /\ thread[r] = "waiting" /\ future[r] # None
  /\ Close(r, future[r])
  /\ UNCHANGED <<controlVars, server, starts, ticks, queue, running, op, before, kept>>

\* Mutant of GiveUp: future.get() without a timeout.
WaitForever(r) == FALSE /\ Close(r, "error") /\ UNCHANGED bridgeVars

\* future.get(15, SECONDS) times out; the task stays where it is.
GiveUp(r) ==
  /\ thread[r] = "waiting" /\ future[r] = None
  /\ Close(r, "error")
  /\ UNCHANGED <<controlVars, server, starts, ticks, queue, running, op, before, kept>>

\* waitTicks(): the counter has reached its target, or the wait times out.
Ticked(r) ==
  /\ thread[r] = "ticking" /\ ticks > from[r]
  /\ Close(r, "ok")
  /\ UNCHANGED <<controlVars, server, starts, ticks, queue, running, op, before, kept>>

TickTimeout(r) ==
  /\ thread[r] = "ticking" /\ ticks <= from[r]
  /\ Close(r, "error")
  /\ UNCHANGED <<controlVars, server, starts, ticks, queue, running, op, before, kept>>

\* AbortSignal.timeout() of the client, after any time its caller names: before
\* the bridge has handled the request, or while it does.
Abort(r) ==
  /\ Open(r) /\ answer[r] = None
  /\ Tell(r, "aborted")
  /\ UNCHANGED <<controlVars, server, starts, ticks, queue, running, thread, op, future, from,
                 before, kept>>

-----------------------------------------------------------------------------
(* The server thread *)

\* A future that nobody waits for any more is garbage.
Complete(what) ==
  /\ future' = IF thread[running] = "waiting" THEN [future EXCEPT ![running] = what] ELSE future
  /\ running' = None

\* Mutant of Take: the last task first.
TakeLast ==
  /\ server # "down" /\ Idle /\ queue # <<>>
  /\ running' = queue[Len(queue)] /\ queue' = SubSeq(queue, 1, Len(queue) - 1)

\* The next task of the server's queue.
Take ==
  /\ server # "down" /\ Idle /\ queue # <<>>
  /\ running' = Head(queue) /\ queue' = Tail(queue)

TakeTask ==
  /\ Take
  /\ UNCHANGED <<controlVars, server, starts, ticks, requestVars, kept>>

\* The task calls requireServer(), which throws once stop() has run, and then
\* the adapter, which may throw at once.
RunTask ==
  /\ running # None /\ step = "idle"
  /\ IF server = "running" THEN BeginControl(op[running]) ELSE UNCHANGED controlVars
  /\ IF step' = "idle" THEN Complete("error") ELSE UNCHANGED <<future, running>>
  /\ UNCHANGED <<server, starts, ticks, queue, thread, op, answer, from, before, kept>>

\* The task goes on, to its end or to an error of the file.
StepTask ==
  /\ running # None
  /\ \/ Load(op[running]) /\ UNCHANGED <<future, running, kept>>
     \/ Truncate /\ UNCHANGED <<future, running, kept>>
     \/ (Delete \/ Write) /\ Complete("ok") /\ kept' = kept \union {running}
     \/ /\ FileFails
        /\ Complete("error")
        /\ kept' = IF step = "write" THEN {} ELSE kept
  /\ UNCHANGED <<server, starts, ticks, queue, thread, op, answer, from, before>>

\* endTick(); ticks end while no task runs.
TickEnds ==
  /\ server = "running" /\ Idle /\ ticks < MaxTicks
  /\ ticks' = ticks + 1
  /\ UNCHANGED <<controlVars, server, starts, queue, running, requestVars, kept>>

\* stop() on SERVER_STOPPING closes every exchange; the threads run on.
Stop ==
  /\ server = "running" /\ Idle
  /\ server' = "stopping"
  /\ answer' = [r \in Requests |-> IF Open(r) /\ answer[r] = None THEN "lost" ELSE answer[r]]
  /\ UNCHANGED <<controlVars, starts, ticks, queue, running, thread, op, future, from, before, kept>>

\* The process ends, after stop() or killed at any moment.  A save it was in
\* the middle of leaves an empty file.
Die ==
  /\ server # "down"
  /\ server' = "down" /\ queue' = <<>> /\ running' = None /\ ticks' = 0
  /\ thread' = [r \in Requests |-> IF Open(r) THEN "closed" ELSE thread[r]]
  /\ answer' = [r \in Requests |-> IF Open(r) /\ answer[r] = None THEN "lost" ELSE answer[r]]
  /\ kept' = IF step = "write" THEN {} ELSE kept
  /\ future' = [r \in Requests |-> None] /\ from' = [r \in Requests |-> 0]
  /\ ForgetControls
  /\ UNCHANGED <<starts, op, before>>

\* The next server of the same run directory; SERVER_STARTED applies the file
\* before the server thread runs a task.
Start ==
  /\ server = "down" /\ starts < MaxStarts
  /\ server' = "running" /\ starts' = starts + 1
  /\ ApplyPersisted
  /\ UNCHANGED <<ticks, queue, running, requestVars, kept>>

-----------------------------------------------------------------------------
Init ==
  /\ ControlInit
  /\ server = "down" /\ starts = 0 /\ ticks = 0 /\ queue = <<>> /\ running = None
  /\ thread = [r \in Requests |-> "unsent"]
  /\ op = [r \in Requests |-> Tick]
  /\ future = [r \in Requests |-> None]
  /\ answer = [r \in Requests |-> None]
  /\ from = [r \in Requests |-> 0]
  /\ before = [r \in Requests |-> {}]
  /\ kept = {}

HandlerStep(r) == Handle(r) \/ Respond(r) \/ GiveUp(r) \/ Ticked(r) \/ TickTimeout(r)

Next ==
  \/ \E r \in Requests : Send(r) \/ HandlerStep(r) \/ Abort(r)
  \/ TakeTask \/ RunTask \/ StepTask \/ TickEnds \/ Stop \/ Die \/ Start

\* HTTP threads run and their timeouts expire; of the server thread nothing is
\* assumed, it may hang.
Fairness == \A r \in Requests : WF_vars(HandlerStep(r))

Spec == Init /\ [][Next]_vars /\ Fairness

-----------------------------------------------------------------------------
TypeOK ==
  /\ ControlTypeOK
  /\ server \in {"down", "running", "stopping"} /\ starts \in 0..MaxStarts
  /\ ticks \in 0..MaxTicks
  /\ queue \in Seq(Controls) /\ running \in Controls \union {None}
  /\ thread \in [Requests -> {"unsent", "received", "waiting", "ticking", "closed"}]
  /\ op \in [Requests -> Ops \union {Tick}]
  /\ future \in [Requests -> {None, "ok", "error"}]
  /\ answer \in [Requests -> {None, "ok", "error", "aborted", "lost"}]
  /\ from \in [Requests -> 0..MaxTicks]
  /\ before \in [Requests -> SUBSET Requests]
  /\ kept \subseteq Controls
  /\ step # "idle" => running # None

\* An acknowledged control holds, on this server and on the next one, unless
\* the bridge comes to handle another request for its provider after it was
\* made: a later one, or an earlier one still on its way.  A task that was
\* queued before does not come after it, although its own client and its own
\* thread may have given it up.  Only a save that breaks off loses what others
\* had asked (saveProviderControls()).
AcknowledgedHolds ==
  \A r \in kept :
    answer[r] = "ok" =>
    LET rivals == {q \in Controls \ {r} : \E p \in Providers :
                     Touches(op[q], p) /\ Touches(op[r], p)}
    IN  server # "down" /\ rivals \subseteq before[r] =>
          \A p \in Providers : Touches(op[r], p) =>
            published[p] = IF op[r].mode = "original" THEN "real" ELSE op[r].mode

\* Every HTTP thread comes back, whatever becomes of the server thread.
HandlersReturn == \A r \in Requests : Open(r) ~> ~Open(r)
===============================================================================
