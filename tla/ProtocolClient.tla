---------------------------- MODULE ProtocolClient ----------------------------
(***************************************************************************)
(* One protocol client of the harness: class ProtocolClient of             *)
(* src/client.ts and the process it drives, client/src/main.rs.  Tasks are *)
(* the coroutines that call connect(), disconnect() and the commands; they *)
(* share the fields of the one object.  Each child has its own pipes and   *)
(* event handlers, and the handlers of an old child stay in place when a   *)
(* new one is spawned.                                                     *)
(*                                                                         *)
(* A promise that settles puts an answer in the call that awaits it; the   *)
(* continuations run before the next event or timer (Quiet).  A task may   *)
(* begin a call between two continuations, being one of them.              *)
(***************************************************************************)
EXTENDS Naturals, Sequences

CONSTANTS
  Tasks,        \* the coroutines that may call the client
  ChorusUi,     \* spec.chorusUi: connect() ends with a request of its own
  MaxSpawns,    \* bound: how many times a child process is spawned
  MaxRequests   \* bound: requests made by commands and disconnect()

ASSUME ClientAssumption ==
  /\ ChorusUi \in BOOLEAN
  /\ MaxSpawns \in Nat
  /\ MaxRequests \in Nat

VARIABLES
  child,            \* this.child: 0 for undefined
  isConnected,      \* this.isConnected
  expectedExit,     \* this.expectedExit
  requestSequence,  \* this.requestSequence
  pending,          \* the keys of this.pending
  call,             \* where each task's call stands
  spawns,           \* how many children were spawned
  proc,             \* each child process
  exited,           \* the children Node has set an exit or signal code for
  killed,           \* the children sent a signal
  stdin,            \* requests each child has not read
  stdout            \* lines of each child the event loop has not read

clientVars == <<child, isConnected, expectedExit, requestSequence, pending>>
procVars   == <<spawns, proc, exited, killed, stdin, stdout>>
vars       == <<clientVars, call, procVars>>

ChildIds == 1..MaxSpawns

\* "over": out of the main loop of main.rs or dead; the process reads and prints
\* nothing more, and its exit event comes sooner or later.
ProcStates   == {"none", "joining", "playing", "over"}
RequestWaits == {"requesting", "negotiating", "disconnecting"}
ExitWaits    == {"cleaning", "closing"}
Pcs          == {"idle", "checking", "joining"} \union RequestWaits \union ExitWaits

\* `on` is the child the call holds, `to` the one its request was written to.
Idle     == [pc |-> "idle", on |-> 0, to |-> 0, id |-> 0, answer |-> "none"]
Line(kind)       == [kind |-> kind, id |-> 0]
Response(id, ok) == [kind |-> IF ok THEN "ok" ELSE "error-response", id |-> id]

Quiet == \A t \in Tasks : call[t].answer = "none"

-----------------------------------------------------------------------------
(* Calls *)

Return(t) == call' = [call EXCEPT ![t] = Idle]

\* `child.stdin.writable`: Node destroys the stream as the exit event fires.
Writable == child # 0 /\ child \notin exited

\* request(): on this.child, whichever child the caller holds.
Ask(t, pc, on, command) ==
  LET id == requestSequence + 1 IN
  /\ requestSequence' = id
  /\ pending' = pending \union {id}
  /\ stdin' = [stdin EXCEPT ![child] = Append(@, [id |-> id, command |-> command])]
  /\ call' = [call EXCEPT ![t] =
                [pc |-> pc, on |-> on, to |-> child, id |-> id, answer |-> "none"]]

\* A command of a scenario; with no child to write to it throws at once.
BeginRequest(t) ==
  /\ call[t].pc = "idle"
  /\ requestSequence < MaxRequests
  /\ Writable
  /\ Ask(t, "requesting", child, "other")
  /\ UNCHANGED <<child, isConnected, expectedExit, spawns, proc, exited, killed, stdout>>

\* connect() returns at once when connected; else it first awaits fileExists().
BeginConnect(t) ==
  /\ call[t].pc = "idle"
  /\ ~isConnected
  /\ call' = [call EXCEPT ![t].pc = "checking"]
  /\ UNCHANGED <<clientVars, procVars>>

BinaryMissing(t) ==
  /\ call[t].pc = "checking" /\ Quiet
  /\ Return(t)
  /\ UNCHANGED <<clientVars, procVars>>

\* Mutant of Spawn: the ids of the requests start anew with each child.
SpawnRestartsIds(t) ==
  LET c == spawns + 1 IN
  /\ call[t].pc = "checking" /\ Quiet
  /\ spawns < MaxSpawns
  /\ spawns' = c
  /\ child' = c
  /\ expectedExit' = FALSE
  /\ proc' = [proc EXCEPT ![c] = "joining"]
  /\ call' = [call EXCEPT ![t].pc = "joining", ![t].on = c]
  /\ requestSequence' = 0
  /\ UNCHANGED <<exited, isConnected, pending, killed, stdin, stdout>>

\* No child the client had before is looked at.  A spawn() that fails leaves a
\* child with an exit code and no exit event, and settles the promise at once.
Spawn(t) ==
  LET c == spawns + 1 IN
  /\ call[t].pc = "checking" /\ Quiet
  /\ spawns < MaxSpawns
  /\ spawns' = c
  /\ child' = c
  /\ expectedExit' = FALSE
  /\ \/ /\ proc' = [proc EXCEPT ![c] = "joining"]
        /\ call' = [call EXCEPT ![t].pc = "joining", ![t].on = c]
        /\ UNCHANGED exited
     \/ /\ proc' = [proc EXCEPT ![c] = "over"]
        /\ exited' = exited \union {c}
        /\ call' = [call EXCEPT ![t].pc = "joining", ![t].on = c, ![t].answer = "failed"]
  /\ UNCHANGED <<isConnected, requestSequence, pending, killed, stdin, stdout>>

\* disconnect() with no child returns at once.  A request that cannot be
\* written throws, and the catch block kills the child.
BeginDisconnect(t) ==
  /\ call[t].pc = "idle"
  /\ child # 0
  /\ expectedExit' = TRUE
  /\ \/ /\ Writable
        /\ requestSequence < MaxRequests
        /\ Ask(t, "disconnecting", child, "disconnect")
        /\ UNCHANGED <<isConnected, killed>>
     \/ /\ ~Writable
        /\ killed' = killed \union {child}
        /\ isConnected' = FALSE
        /\ UNCHANGED <<requestSequence, pending, stdin, call>>
  /\ UNCHANGED <<child, spawns, proc, exited, stdout>>

-----------------------------------------------------------------------------
(* Continuations *)

Answered(t, pcs, answer) == call[t].pc \in pcs /\ call[t].answer = answer

\* Mutant of Forget: request() has no finally block.
KeepPending(t) == UNCHANGED pending

\* `finally { this.pending.delete(id) }`
Forget(t) == pending' = pending \ {call[t].id}

\* Mutant of Kill: the child is left to end by itself.
KillNothing(t) == UNCHANGED killed

Kill(t) == killed' = killed \union {call[t].on}

\* Wait for the exit of the child the call holds, unless Node knows of it.
AwaitExit(t, pc) ==
  call' = IF call[t].on \in exited
            THEN [call EXCEPT ![t] = Idle]
            ELSE [call EXCEPT ![t] = [Idle EXCEPT !.pc = pc, !.on = call[t].on]]

\* connect() after "spawn": with chorusUi it goes on to request(), inside the
\* same try; when that cannot write, the catch block is entered.
Joined(t) ==
  /\ Answered(t, {"joining"}, "ok")
  /\ IF ~ChorusUi
       THEN Return(t) /\ UNCHANGED <<clientVars, stdin, killed>>
       ELSE IF Writable
         THEN /\ Ask(t, "negotiating", call[t].on, "other")
              /\ UNCHANGED <<child, isConnected, expectedExit, killed>>
         ELSE /\ expectedExit' = TRUE
              /\ Kill(t)
              /\ AwaitExit(t, "cleaning")
              /\ UNCHANGED <<child, isConnected, requestSequence, pending, stdin>>
  /\ UNCHANGED <<spawns, proc, exited, stdout>>

\* The catch block of connect().
ConnectFails(t) ==
  /\ Answered(t, {"joining", "negotiating"}, "failed")
  /\ expectedExit' = TRUE
  /\ Kill(t)
  /\ AwaitExit(t, "cleaning")
  /\ Forget(t)
  /\ UNCHANGED <<child, isConnected, requestSequence, spawns, proc, exited, stdin, stdout>>

RequestReturns(t) ==
  /\ \/ call[t].pc = "requesting" /\ call[t].answer # "none"
     \/ Answered(t, {"negotiating"}, "ok")
  /\ Return(t)
  /\ Forget(t)
  /\ UNCHANGED <<child, isConnected, expectedExit, requestSequence, procVars>>

\* disconnect() after its request: a refusal or a timeout kills the child.
DisconnectAnswered(t) ==
  /\ call[t].pc = "disconnecting" /\ call[t].answer # "none"
  /\ IF call[t].answer = "failed" THEN Kill(t) ELSE UNCHANGED killed
  /\ AwaitExit(t, "closing")
  /\ Forget(t)
  /\ isConnected' = (isConnected /\ call[t].on \notin exited)
  /\ UNCHANGED <<child, expectedExit, requestSequence, spawns, proc, exited, stdin, stdout>>

\* The wait for the exit is over; its timeout sends a signal and waits no more.
\* disconnect() ends with isConnected false, connect() rethrows.
ExitWaitEnds(t) ==
  /\ call[t].pc \in ExitWaits /\ call[t].answer # "none"
  /\ IF call[t].answer = "failed" THEN Kill(t) ELSE UNCHANGED killed
  /\ Return(t)
  /\ isConnected' = (isConnected /\ call[t].pc # "closing")
  /\ UNCHANGED <<child, expectedExit, requestSequence, pending, spawns, proc, exited,
                 stdin, stdout>>

Resume(t) ==
  \/ Joined(t) \/ ConnectFails(t) \/ RequestReturns(t)
  \/ DisconnectAnswered(t) \/ ExitWaitEnds(t)

-----------------------------------------------------------------------------
(* Events *)

Joining(c)  == {t \in Tasks : call[t].pc = "joining" /\ call[t].on = c}
Asking(ids) == {t \in Tasks : call[t].pc \in RequestWaits /\ call[t].id \in ids}
Closing(c)  == {t \in Tasks : call[t].pc \in ExitWaits /\ call[t].on = c}

Answer(ok, failed) ==
  call' = [t \in Tasks |-> IF t \in ok THEN [call[t] EXCEPT !.answer = "ok"]
                           ELSE IF t \in failed THEN [call[t] EXCEPT !.answer = "failed"]
                           ELSE call[t]]

\* Mutant of TimesOut: only the wait for a connection is limited.
OnlyJoiningTimesOut(t) ==
  /\ Quiet
  /\ call[t].pc = "joining"
  /\ Answer({}, {t})
  /\ UNCHANGED <<clientVars, procVars>>

\* withTimeout() around every wait of a call.
TimesOut(t) ==
  /\ Quiet
  /\ call[t].pc \in {"joining"} \union RequestWaits \union ExitWaits
  /\ Answer({}, {t})
  /\ UNCHANGED <<clientVars, procVars>>

\* Mutant of Exit: the requests are rejected by the current child alone.
ExitOfCurrentOnly(c) ==
  /\ Quiet
  /\ proc[c] = "over" /\ c \notin exited
  /\ exited' = exited \union {c}
  /\ isConnected' = FALSE
  /\ child' = IF child = c THEN 0 ELSE child
  /\ Answer(Closing(c), IF child = c THEN Asking(pending) \union Joining(c) ELSE {})
  /\ pending' = IF child = c THEN {} ELSE pending
  /\ UNCHANGED <<expectedExit, requestSequence, spawns, proc, killed, stdin, stdout>>

\* The exit handler of connect(): isConnected, expectedExit and pending are the
\* client's, whichever child they are about; only this.child is compared.
Exit(c) ==
  /\ Quiet
  /\ proc[c] = "over" /\ c \notin exited
  /\ exited' = exited \union {c}
  /\ isConnected' = FALSE
  /\ child' = IF child = c THEN 0 ELSE child
  /\ Answer(Closing(c), Asking(pending) \union
              (IF isConnected \/ expectedExit THEN {} ELSE Joining(c)))
  /\ pending' = {}
  /\ UNCHANGED <<expectedExit, requestSequence, spawns, proc, killed, stdin, stdout>>

\* handleMessage() on the next line of child c; readline goes on after the exit.
ReadLine(c) ==
  LET line == Head(stdout[c]) IN
  /\ Quiet
  /\ stdout[c] # <<>>
  /\ stdout' = [stdout EXCEPT ![c] = Tail(@)]
  /\ isConnected' = CASE line.kind = "spawn" -> TRUE
                      [] line.kind = "end"   -> FALSE
                      [] OTHER               -> isConnected
  /\ CASE line.kind = "ok"             -> Answer(Asking({line.id} \intersect pending), {})
       [] line.kind = "error-response" -> Answer({}, Asking({line.id} \intersect pending))
       [] line.kind = "spawn"          -> Answer(Joining(c), {})
       [] line.kind \in {"end", "error"} ->
            Answer({}, IF isConnected THEN {} ELSE Joining(c))
       [] line.kind = "fatal"          -> Answer({}, Joining(c) \union Asking(pending))
       [] line.kind = "garbled"        -> Answer({}, Joining(c))
  /\ UNCHANGED <<child, expectedExit, requestSequence, pending, spawns, proc, exited, killed,
                 stdin>>

-----------------------------------------------------------------------------
(* The process of a child, main.rs *)

Emit(c, line) == stdout' = [stdout EXCEPT ![c] = Append(@, line)]

Become(c, state) == proc' = [proc EXCEPT ![c] = state]

\* The server lets the player in, ends or refuses the connection; or the join
\* itself fails.
ServerEvent(c) ==
  /\ \/ proc[c] = "joining" /\ Become(c, "playing") /\ Emit(c, Line("spawn"))
     \/ proc[c] \in {"joining", "playing"} /\ Become(c, "over") /\ Emit(c, Line("end"))
     \/ /\ proc[c] = "joining" /\ Become(c, "over")
        /\ \E kind \in {"error", "fatal"} : Emit(c, Line(kind))
  /\ UNCHANGED <<clientVars, call, spawns, exited, killed, stdin>>

\* The next request; "disconnect" is answered, then the loop is left.
Execute(c) ==
  /\ proc[c] \in {"joining", "playing"}
  /\ stdin[c] # <<>>
  /\ stdin' = [stdin EXCEPT ![c] = Tail(@)]
  /\ LET request == Head(stdin[c]) IN
     IF request.command = "disconnect"
       THEN Become(c, "over") /\ Emit(c, Response(request.id, TRUE))
       ELSE UNCHANGED proc /\ \E ok \in BOOLEAN : Emit(c, Response(request.id, ok))
  /\ UNCHANGED <<clientVars, call, spawns, exited, killed>>

\* The process crashes or dies of a signal, at times in the middle of a line.
Die(c) ==
  /\ proc[c] \in {"joining", "playing"}
  /\ Become(c, "over")
  /\ UNCHANGED stdout \/ Emit(c, Line("garbled"))
  /\ UNCHANGED <<clientVars, call, spawns, exited, killed, stdin>>

-----------------------------------------------------------------------------
Init ==
  /\ child = 0
  /\ isConnected = FALSE
  /\ expectedExit = FALSE
  /\ requestSequence = 0
  /\ pending = {}
  /\ call = [t \in Tasks |-> Idle]
  /\ spawns = 0
  /\ proc = [c \in ChildIds |-> "none"]
  /\ exited = {}
  /\ killed = {}
  /\ stdin = [c \in ChildIds |-> <<>>]
  /\ stdout = [c \in ChildIds |-> <<>>]

Begin(t) == BeginRequest(t) \/ BeginConnect(t) \/ BeginDisconnect(t)

Checked(t) == BinaryMissing(t) \/ Spawn(t)

Next ==
  \/ \E t \in Tasks : Begin(t) \/ Checked(t) \/ Resume(t) \/ TimesOut(t)
  \/ \E c \in ChildIds : Exit(c) \/ ReadLine(c) \/ ServerEvent(c) \/ Execute(c) \/ Die(c)

\* Continuations run and timers fire, as long as something else (the server's
\* process) keeps Node's loop alive; nothing is assumed of the children.
Fairness == \A t \in Tasks : WF_vars(Checked(t)) /\ WF_vars(Resume(t)) /\ WF_vars(TimesOut(t))

Spec == Init /\ [][Next]_vars /\ Fairness

-----------------------------------------------------------------------------
LineKinds == {"spawn", "end", "error", "fatal", "garbled", "ok", "error-response"}

\* The type invariant.
TypeOK ==
  /\ child \in 0..spawns
  /\ isConnected \in BOOLEAN
  /\ expectedExit \in BOOLEAN
  /\ requestSequence \in Nat
  /\ pending \subseteq 1..requestSequence
  /\ call \in [Tasks -> [pc : Pcs, on : 0..MaxSpawns, to : 0..MaxSpawns,
                         id : 0..requestSequence, answer : {"none", "ok", "failed"}]]
  /\ spawns \in 0..MaxSpawns
  /\ proc \in [ChildIds -> ProcStates]
  /\ exited \subseteq ChildIds
  /\ killed \subseteq ChildIds
  /\ stdin \in [ChildIds -> Seq([id : 1..requestSequence, command : {"other", "disconnect"}])]
  /\ stdout \in [ChildIds -> Seq([kind : LineKinds, id : 0..requestSequence])]

\* this.pending holds the requests that wait for an answer and no other: a
\* timeout leaves no entry behind, and no exit, fatal line or reconnect of
\* another task takes away the entry of a request that still waits.
PendingRequestsWait ==
  /\ \A t \in Tasks : call[t].pc \in RequestWaits /\ call[t].answer = "none"
                        => call[t].id \in pending
  /\ \A id \in pending : \E t \in Tasks : call[t].pc \in RequestWaits /\ call[t].id = id

\* Once Node has fired the exit of a child no request written to it waits on,
\* even when another child had taken its place before.
NoWaitOnExitedChild ==
  \A t \in Tasks :
    call[t].pc \in RequestWaits /\ call[t].answer = "none" => call[t].to \notin exited

\* A request is answered by the child it was written to: a line an old child
\* left in its pipe never answers a request made to the next one.
AnsweredByOwnChild ==
  [][\A t \in Tasks :
       /\ call[t].pc \in RequestWaits
       /\ call[t].answer = "none" /\ call'[t].answer = "ok"
       => stdout'[call[t].to] # stdout[call[t].to]]_vars

\* A connect() that fails and a disconnect() that returns leave no process of
\* theirs to itself: it has ended, has been sent a signal, or is on its way out.
NoProcessLeftToItself ==
  [][\A t \in Tasks :
       /\ \/ Answered(t, {"joining", "negotiating"}, "failed")
          \/ call[t].pc \in ExitWaits \union {"disconnecting"}
       /\ call'[t].pc = "idle"
       => call[t].on \in exited \union killed']_vars

\* Every connect(), disconnect() and command comes back to its caller.
CallsReturn == \A t \in Tasks : call[t].pc # "idle" ~> call[t].pc = "idle"

\* "client connection state follows spawn and server disconnect events"
\* (client.test.ts:5): a client whose process plays on, and has had its "spawn"
\* read, is disconnected by a line or a disconnect() of its own, and not by the
\* exit of a process it had before.
ConnectionFollowsEvents ==
  [][(/\ isConnected /\ ~isConnected'
      /\ child # 0 /\ proc[child] = "playing" /\ stdout[child] = <<>>)
       => \/ stdout' # stdout
          \/ \E t \in Tasks : call[t].pc \in {"disconnecting", "closing"}]_vars
=============================================================================
