-------------------------- MODULE HarnessBridgeProofs --------------------------
(***************************************************************************)
(* For any number of requests, providers, modes and starts: a provider's   *)
(* original is never lost, the file never asks for a replacement that      *)
(* cannot be built, and a control that was acknowledged stays in force     *)
(* until another takes its place, through failures and restarts.           *)
(***************************************************************************)
EXTENDS HarnessBridge, TLAPS

\* What the operation is about to save can be built.
ControlsBuildable ==
  \A p \in Providers : controls[p] # "original" => Buildable(p, controls[p])

Controlled ==
  ControlTypeOK /\ OriginalsKept /\ PersistedIsBuildable /\ ControlsBuildable

\* An operation that has come past its replacement.
Loadable(o) ==
  o.provider \in Providers /\ (o.mode # "original" => Buildable(o.provider, o.mode))

\* What the control of the providers needs to know of the bridge.
QueueOK ==
  /\ queue \in Seq(Controls) /\ running \in Controls \union {None}
  /\ op \in [Requests -> Ops \union {Tick}]
  /\ thread \in [Requests -> {"unsent", "received", "waiting", "ticking", "closed"}]
  /\ \A r \in Requests : thread[r] = "unsent" => op[r] = Tick
  /\ step # "idle" => running # None
  /\ step = "load" => Loadable(op[running])

\* A process that is not there has replaced nothing.
DownIsFresh ==
  server = "down" =>
    captured = {} /\ published = [p \in Providers |-> "real"] /\ step = "idle"

IInv == Controlled /\ QueueOK /\ DownIsFresh

USE ControlAssumption, BridgeAssumption

-----------------------------------------------------------------------------
(* The operation provider-control *)

LEMMA OpsAreControls ==
  ASSUME QueueOK, NEW r \in Controls
  PROVE  op[r] \in ControlOps
BY DEF QueueOK, Controls

LEMMA RestoreKeeps ==
  ASSUME Controlled, NEW ps \in SUBSET Providers, Restore(ps)
  PROVE  /\ published' \in [Providers -> Modes \union {"real"}]
         /\ captured' \subseteq Providers
         /\ originals' \in [Providers -> Modes \union {"real", "none"}]
         /\ OriginalsKept'
<1>1. \A p \in Providers : published[p] \in Modes \union {"real"}
                             /\ originals[p] \in Modes \union {"real", "none"}
  BY DEF Controlled, ControlTypeOK
<1>2. \A p \in Providers : p \in captured => originals[p] = "real"
  BY DEF Controlled, OriginalsKept
<1>3. \A p \in Providers : p \notin captured => published[p] = "real"
  BY DEF Controlled, OriginalsKept
<1>4. published' \in [Providers -> Modes \union {"real"}]
  BY <1>1, <1>2 DEF Restore
<1>5. captured' \subseteq Providers
  BY DEF Restore, Controlled, ControlTypeOK
<1>6. originals' \in [Providers -> Modes \union {"real", "none"}]
  BY <1>1 DEF Restore
<1>7. OriginalsKept'
  BY <1>2, <1>3 DEF Restore, OriginalsKept
<1> QED
  BY <1>4, <1>5, <1>6, <1>7

LEMMA PublishKeeps ==
  ASSUME Controlled, NEW o \in ControlOps, o.mode # "original", Publish(o)
  PROVE  /\ published' \in [Providers -> Modes \union {"real"}]
         /\ captured' \subseteq Providers
         /\ originals' \in [Providers -> Modes \union {"real", "none"}]
         /\ OriginalsKept'
         /\ step' = step \/ (step' = "load" /\ Loadable(o))
<1>1. o.provider \in Providers /\ o.mode \in Modes
  BY DEF ControlOps
<1>2. /\ published \in [Providers -> Modes \union {"real"}]
      /\ originals \in [Providers -> Modes \union {"real", "none"}]
      /\ captured \subseteq Providers
  BY DEF Controlled, ControlTypeOK
<1>3. \A p \in Providers : IF p \in captured THEN originals[p] = "real" ELSE published[p] = "real"
  BY DEF Controlled, OriginalsKept
<1>4. captured' = captured \union {o.provider}
  BY DEF Publish, Capture
<1>5. originals' = IF o.provider \in captured THEN originals
                     ELSE [originals EXCEPT ![o.provider] = published[o.provider]]
  BY DEF Publish, Capture
<1>6. /\ published' \in [Providers -> Modes \union {"real"}]
      /\ \A p \in Providers \ {o.provider} : published'[p] = published[p]
  BY <1>1, <1>2 DEF Publish
<1>7. originals' \in [Providers -> Modes \union {"real", "none"}]
  BY <1>1, <1>2, <1>5
<1>8. \A p \in Providers : IF p \in captured' THEN originals'[p] = "real" ELSE published'[p] = "real"
  BY <1>1, <1>2, <1>3, <1>4, <1>5, <1>6
<1>9. step' = step \/ (step' = "load" /\ Loadable(o))
  BY <1>1 DEF Publish, Loadable
<1> QED
  BY <1>1, <1>2, <1>4, <1>6, <1>7, <1>8, <1>9 DEF OriginalsKept

LEMMA BeginKeeps ==
  ASSUME Controlled, NEW o \in ControlOps, BeginControl(o), step = "idle"
  PROVE  Controlled' /\ (step' = "load" => Loadable(o))
<1> DEFINE Frame == file' = file /\ (controls' = controls \/ controls' = NoControls)
<1>1. ASSUME /\ published' \in [Providers -> Modes \union {"real"}]
             /\ captured' \subseteq Providers
             /\ originals' \in [Providers -> Modes \union {"real", "none"}]
             /\ OriginalsKept'
             /\ step' \in {"idle", "load", "truncate"}
             /\ Frame
      PROVE  Controlled'
  <2>1. ControlTypeOK'
    BY <1>1 DEF Controlled, ControlTypeOK, NoControls
  <2>2. PersistedIsBuildable'
    BY <1>1 DEF Controlled, PersistedIsBuildable, Buildable
  <2>3. ControlsBuildable'
    BY <1>1 DEF Controlled, ControlsBuildable, Buildable, NoControls
  <2> QED
    BY <1>1, <2>1, <2>2, <2>3 DEF Controlled
<1>2. CASE o.provider = "all" /\ o.mode = "original"
  <2>1. Restore(Providers) /\ step' = "truncate" /\ Frame
    BY <1>2 DEF BeginControl, ControlOps
  <2> QED
    BY <1>1, <2>1, RestoreKeeps
<1>3. CASE o.provider # "all" /\ o.mode = "original"
  <2>1. Restore({o.provider}) /\ step' = "load" /\ Frame /\ o.provider \in Providers
    BY <1>3 DEF BeginControl, ControlOps
  <2> QED
    BY <1>1, <1>3, <2>1, RestoreKeeps DEF Loadable
<1>4. CASE o.mode # "original"
  <2>1. Publish(o) /\ Frame
    BY <1>4 DEF BeginControl, ControlOps, Publish
  <2>2. step' \in {"idle", "load"} /\ (step' = "load" => Loadable(o))
    BY <1>4, <2>1, PublishKeeps
  <2> QED
    BY <1>1, <1>4, <2>1, <2>2, PublishKeeps
<1> QED
  BY <1>2, <1>3, <1>4 DEF ControlOps

LEMMA LoadKeeps ==
  ASSUME Controlled, NEW o \in ControlOps, Loadable(o), Load(o)
  PROVE  Controlled'
<1>1. o.mode \in Modes \union {"original"} /\ o.provider \in Providers
  BY DEF ControlOps, Loadable
<1>2. file \in [Providers -> Modes \union {"original"}]
  BY DEF Controlled, ControlTypeOK
<1>3. controls' = [file EXCEPT ![o.provider] = o.mode]
  BY DEF Load
<1>4. ControlTypeOK'
  BY <1>1, <1>2, <1>3 DEF Load, shareVars, Controlled, ControlTypeOK
<1>5. ControlsBuildable'
  BY <1>1, <1>2, <1>3 DEF Loadable, Controlled, PersistedIsBuildable, ControlsBuildable, Buildable
<1> QED
  BY <1>4, <1>5 DEF Load, shareVars, Controlled, OriginalsKept, PersistedIsBuildable, Buildable

LEMMA SaveKeeps ==
  ASSUME Controlled, Delete \/ Truncate \/ Write \/ FileFails
  PROVE  Controlled'
<1>1. UNCHANGED shareVars /\ step' \in {"idle", "write"}
  BY DEF Delete, Truncate, Write, FileFails
<1>2. file' \in {file, controls, NoControls} /\ controls' \in {controls, NoControls}
  BY DEF Delete, Truncate, Write, FileFails
<1>3. ControlTypeOK'
  BY <1>1, <1>2 DEF shareVars, Controlled, ControlTypeOK, NoControls
<1>4. PersistedIsBuildable' /\ ControlsBuildable'
  BY <1>2 DEF Controlled, PersistedIsBuildable, ControlsBuildable, Buildable, NoControls
<1> QED
  BY <1>1, <1>3, <1>4 DEF shareVars, Controlled, OriginalsKept

LEMMA ForgetKeeps ==
  ASSUME Controlled, ForgetControls
  PROVE  Controlled'
<1>1. ControlTypeOK'
  BY DEF ForgetControls, Controlled, ControlTypeOK, NoControls
<1> QED
  BY <1>1 DEF ForgetControls, Controlled, OriginalsKept, PersistedIsBuildable, ControlsBuildable,
              Buildable, NoControls

LEMMA ApplyKeeps ==
  ASSUME Controlled, captured = {}, published = [p \in Providers |-> "real"], ApplyPersisted
  PROVE  Controlled'
<1>1. /\ file \in [Providers -> Modes \union {"original"}]
      /\ originals \in [Providers -> Modes \union {"real", "none"}]
  BY DEF Controlled, ControlTypeOK
<1>2. captured' = {p \in Providers : file[p] # "original"}
  BY DEF ApplyPersisted
<1>3. originals' = [p \in Providers |-> IF p \in captured' THEN "real" ELSE originals[p]]
  BY DEF ApplyPersisted
<1>4. published' = [p \in Providers |-> IF p \in captured' THEN file[p] ELSE "real"]
  BY DEF ApplyPersisted
<1>5. published' \in [Providers -> Modes \union {"real"}]
  BY <1>1, <1>2, <1>4
<1>6. originals' \in [Providers -> Modes \union {"real", "none"}]
  BY <1>1, <1>3
<1>7. ControlTypeOK'
  BY <1>2, <1>5, <1>6 DEF ApplyPersisted, Controlled, ControlTypeOK
<1>8. OriginalsKept'
  BY <1>3, <1>4 DEF OriginalsKept
<1> QED
  BY <1>7, <1>8 DEF ApplyPersisted, Controlled, PersistedIsBuildable, ControlsBuildable, Buildable

-----------------------------------------------------------------------------
(* The bridge *)

LEMMA InitIInv == Init => IInv
<1> SUFFICES ASSUME Init PROVE IInv
  OBVIOUS
<1>1. Controlled
  BY DEF Init, ControlInit, Controlled, ControlTypeOK, OriginalsKept, PersistedIsBuildable,
         ControlsBuildable, Buildable, NoControls
<1>2. QueueOK
  BY DEF Init, ControlInit, QueueOK
<1>3. DownIsFresh
  BY DEF Init, ControlInit, DownIsFresh
<1> QED
  BY <1>1, <1>2, <1>3 DEF IInv

LEMMA ControlledFrame ==
  ASSUME Controlled, UNCHANGED controlVars
  PROVE  Controlled'
BY DEF controlVars, shareVars, Controlled, ControlTypeOK, OriginalsKept, PersistedIsBuildable,
       ControlsBuildable, Buildable

LEMMA NextIInv == IInv /\ [Next]_vars => IInv'
<1> SUFFICES ASSUME IInv, [Next]_vars PROVE IInv'
  OBVIOUS
<1> USE DEF IInv
\* A step that leaves the operation alone, and the queue to requests of before.
<1>1. ASSUME /\ UNCHANGED <<controlVars, op, server>>
             /\ thread' \in [Requests -> {"unsent", "received", "waiting", "ticking", "closed"}]
             /\ \A r \in Requests : thread'[r] = "unsent" => thread[r] = "unsent"
             /\ queue' \in Seq(Controls)
             /\ running' = running \/ (step = "idle" /\ running' \in Controls \union {None})
      PROVE  IInv'
  <2>1. Controlled'
    BY <1>1, ControlledFrame
  <2>2. Controls' = Controls
    BY <1>1 DEF Controls
  <2>3. QueueOK'
    BY <1>1, <2>2 DEF QueueOK, controlVars, Loadable, Buildable
  <2>4. DownIsFresh'
    BY <1>1 DEF DownIsFresh, controlVars, shareVars
  <2> QED
    BY <2>1, <2>3, <2>4
<1>2. ASSUME NEW r \in Requests, Send(r) PROVE IInv'
  <2>1. PICK o \in Ops : op' = [op EXCEPT ![r] = o]
    BY <1>2 DEF Send
  <2>2. op[r] = Tick /\ r \notin Controls
    BY <1>2 DEF Send, QueueOK, Controls
  <2>3. Controls \subseteq Controls' /\ \A q \in Controls : op'[q] = op[q]
    BY <2>1, <2>2 DEF Controls, QueueOK
  <2>4. /\ UNCHANGED <<controlVars, server, queue, running>>
        /\ thread' = [thread EXCEPT ![r] = "received"]
    BY <1>2 DEF Send
  <2>5. queue' \in Seq(Controls')
    BY <2>3, <2>4 DEF QueueOK
  <2>6. step' = step /\ UNCHANGED <<captured, published>>
    BY <2>4 DEF controlVars, shareVars
  <2>7. QueueOK'
    BY <2>1, <2>3, <2>4, <2>5, <2>6 DEF QueueOK, Loadable, Buildable
  <2>8. Controlled' /\ DownIsFresh'
    BY <2>4, <2>6, ControlledFrame DEF DownIsFresh
  <2> QED
    BY <2>7, <2>8
<1>3. ASSUME NEW r \in Requests, HandlerStep(r) \/ Abort(r) PROVE IInv'
  <2>1. UNCHANGED <<controlVars, op, server, running>>
    BY <1>3 DEF HandlerStep, Handle, Respond, GiveUp, Ticked, TickTimeout, Abort
  <2>2. /\ thread' \in [Requests -> {"unsent", "received", "waiting", "ticking", "closed"}]
        /\ \A q \in Requests : thread'[q] = "unsent" => thread[q] = "unsent"
    BY <1>3 DEF HandlerStep, Handle, Respond, GiveUp, Ticked, TickTimeout, Abort, Close, QueueOK
  <2>3. queue' = queue \/ (r \in Controls /\ queue' = Append(queue, r))
    BY <1>3 DEF HandlerStep, Handle, Respond, GiveUp, Ticked, TickTimeout, Abort, Controls
  <2>4. queue' \in Seq(Controls)
    BY <2>3 DEF QueueOK
  <2> QED
    BY <1>1, <2>1, <2>2, <2>4
<1>4. CASE TakeTask
  <2>1. running' \in Controls /\ queue' \in Seq(Controls) /\ step = "idle"
    BY <1>4 DEF TakeTask, Take, Idle, QueueOK
  <2>2. UNCHANGED <<controlVars, op, server, thread>>
    BY <1>4 DEF TakeTask, requestVars
  <2> QED
    BY <1>1, <2>1, <2>2 DEF QueueOK
<1>5. CASE RunTask
  <2>1. running \in Controls /\ op[running] \in ControlOps /\ step = "idle"
    BY <1>5, OpsAreControls DEF RunTask, QueueOK
  <2>2. UNCHANGED <<server, queue, thread, op>>
    BY <1>5 DEF RunTask
  <2>3. Controlled' /\ (step' = "load" => Loadable(op[running]))
    BY <1>5, <2>1, BeginKeeps, ControlledFrame DEF RunTask, controlVars
  <2>4. running' = running \/ (step' = "idle" /\ running' = None)
    BY <1>5 DEF RunTask, Complete
  <2>5. QueueOK'
    <3>1. Controls' = Controls
      BY <2>2 DEF Controls
    <3>2. running # None
      BY <2>1 DEF Controls, None
    <3>3. step' # "idle" => running' = running
      BY <2>4
    <3>4. step' = "load" => Loadable(op[running])'
      BY <2>2, <2>3, <3>3 DEF Loadable, Buildable
    <3> QED
      BY <2>1, <2>2, <2>4, <3>1, <3>2, <3>3, <3>4 DEF QueueOK
  <2>6. DownIsFresh'
    BY <1>5, <2>2 DEF RunTask, DownIsFresh, controlVars, shareVars
  <2> QED
    BY <2>3, <2>5, <2>6
<1>6. CASE StepTask
  <2>1. running \in Controls /\ op[running] \in ControlOps
    BY <1>6, OpsAreControls DEF StepTask, QueueOK
  <2>2. UNCHANGED <<server, queue, thread, op>> /\ step # "idle"
    BY <1>6 DEF StepTask, Load, Delete, Truncate, Write, FileFails
  <2>3. Controlled' /\ step' # "load"
    <3>1. CASE Load(op[running])
      BY <2>1, <3>1, LoadKeeps DEF QueueOK, Load
    <3>2. CASE Delete \/ Truncate \/ Write \/ FileFails
      BY <3>2, SaveKeeps DEF Delete, Truncate, Write, FileFails
    <3> QED
      BY <1>6, <3>1, <3>2 DEF StepTask
  <2>4. running' = running \/ (step' = "idle" /\ running' = None)
    BY <1>6 DEF StepTask, Complete, Delete, Write, FileFails
  <2>5. QueueOK'
    BY <2>1, <2>2, <2>3, <2>4 DEF QueueOK, Controls
  <2>6. DownIsFresh'
    BY <2>2 DEF DownIsFresh
  <2> QED
    BY <2>3, <2>5, <2>6
<1>7. CASE TickEnds
  BY <1>1, <1>7 DEF TickEnds, requestVars, QueueOK
<1>8. CASE Stop
  <2>1. UNCHANGED <<controlVars, op, thread, queue, running>> /\ server' = "stopping"
    BY <1>8 DEF Stop
  <2>2. QueueOK'
    BY <2>1 DEF QueueOK, Controls, controlVars, Loadable, Buildable
  <2> QED
    BY <2>1, <2>2, ControlledFrame DEF DownIsFresh
<1>9. CASE Die
  <2>1. /\ queue' = <<>> /\ running' = None /\ op' = op
        /\ thread' = [r \in Requests |-> IF Open(r) THEN "closed" ELSE thread[r]]
        /\ ForgetControls
    BY <1>9 DEF Die
  <2>2. QueueOK'
    BY <2>1 DEF QueueOK, Controls, ForgetControls
  <2>3. DownIsFresh'
    BY <2>1 DEF DownIsFresh, ForgetControls
  <2> QED
    BY <2>1, <2>2, <2>3, ForgetKeeps
<1>10. CASE Start
  <2>1. /\ server = "down" /\ server' = "running" /\ ApplyPersisted
        /\ UNCHANGED <<queue, running, thread, op>>
    BY <1>10 DEF Start, requestVars
  <2>2. Controlled'
    BY <2>1, ApplyKeeps DEF DownIsFresh
  <2>3. QueueOK'
    BY <2>1 DEF QueueOK, Controls, ApplyPersisted, Loadable, Buildable
  <2> QED
    BY <2>1, <2>2, <2>3 DEF DownIsFresh
<1>11. CASE UNCHANGED vars
  BY <1>1, <1>11 DEF vars, bridgeVars, requestVars, QueueOK
<1> QED
  BY <1>2, <1>3, <1>4, <1>5, <1>6, <1>7, <1>8, <1>9, <1>10, <1>11 DEF Next

LEMMA Invariance == Spec => []IInv
<1>1. Init => IInv
  BY InitIInv
<1>2. IInv /\ [Next]_vars => IInv'
  BY NextIInv
<1> QED
  BY <1>1, <1>2, PTL DEF Spec

\* The way back to what another mod published is never lost (restoreProvider()
\* of CofferHarnessAdapterMod.java), whatever is asked, fails or is killed.
THEOREM WayBack == Spec => []OriginalsKept
<1>1. IInv => OriginalsKept
  BY DEF IInv, Controlled
<1> QED
  BY <1>1, Invariance, PTL

\* The file never keeps the next server from starting
\* (applyPersistedProviderControls() of CofferHarnessAdapterMod.java).
THEOREM FileIsBuildable == Spec => []PersistedIsBuildable
<1>1. IInv => PersistedIsBuildable
  BY DEF IInv, Controlled
<1> QED
  BY <1>1, Invariance, PTL

-----------------------------------------------------------------------------
(* Acknowledged controls *)

Queued(r) == \E i \in 1..Len(queue) : queue[i] = r
AtWork(r) == Queued(r) \/ running = r
Handled   == {"waiting", "ticking", "closed"}

\* A request is queued once, has run, or is none of both; whatever has been
\* queued has been handled.
Tasks ==
  /\ \A r \in Requests : AtWork(r) \/ r \in kept => thread[r] \in Handled
  /\ \A i, j \in 1..Len(queue) : queue[i] = queue[j] => i = j
  /\ running # None => ~Queued(running)
  /\ \A r \in kept : ~AtWork(r)

\* What was handled when a request was made is not handled once more.
HandledBefore == \A r \in Requests : \A q \in before[r] : thread[q] \in Handled

\* The queue is in order: whatever was handled before a request was made comes
\* before it, or not at all.
InOrder ==
  /\ \A i, j \in 1..Len(queue) : queue[j] \in before[queue[i]] => j < i
  /\ \A r \in Requests : running = r \/ r \in kept => \A q \in before[r] : ~AtWork(q)

Rivals(r) ==
  {q \in Controls \ {r} : \E p \in Providers : Touches(op[q], p) /\ Touches(op[r], p)}
Want(o) == IF o.mode = "original" THEN "real" ELSE o.mode

\* The operation under way has published what it asks, and is about to save it.
UnderWay ==
  step # "idle" => \A p \in Providers : Touches(op[running], p) =>
    /\ published[p] = Want(op[running])
    /\ step # "load" => controls[p] = op[running].mode

\* What was saved stays published, in the file, and in what is saved next.
Saved ==
  \A r \in kept : Rivals(r) \subseteq before[r] =>
    \A p \in Providers : Touches(op[r], p) =>
      /\ server # "down" => published[p] = Want(op[r])
      /\ step # "write" => file[p] = op[r].mode
      /\ step \in {"truncate", "write"} => controls[p] = op[r].mode

AInv == Tasks /\ HandledBefore /\ InOrder /\ UnderWay /\ Saved

LEMMA InitTypeOK == Init => TypeOK
BY DEF Init, ControlInit, TypeOK, ControlTypeOK, NoControls

LEMMA CloseType ==
  ASSUME TypeOK, NEW r \in Requests, NEW what \in {"ok", "error"}, Close(r, what)
  PROVE  /\ thread' \in [Requests -> {"unsent", "received", "waiting", "ticking", "closed"}]
         /\ future' \in [Requests -> {None, "ok", "error"}]
         /\ from' \in [Requests -> 0..MaxTicks]
         /\ answer' \in [Requests -> {None, "ok", "error", "aborted", "lost"}]
<1>1. 0 \in 0..MaxTicks
  OBVIOUS
<1> QED
  BY <1>1 DEF Close, Tell, TypeOK

LEMMA HandlerType ==
  ASSUME TypeOK, NEW r \in Requests, HandlerStep(r)
  PROVE  /\ thread' \in [Requests -> {"unsent", "received", "waiting", "ticking", "closed"}]
         /\ future' \in [Requests -> {None, "ok", "error"}]
         /\ from' \in [Requests -> 0..MaxTicks]
         /\ answer' \in [Requests -> {None, "ok", "error", "aborted", "lost"}]
<1>1. CASE Handle(r)
  <2>1. CASE thread' = [thread EXCEPT ![r] = "ticking"] /\ from' = [from EXCEPT ![r] = ticks]
             /\ UNCHANGED <<future, answer>>
    BY <2>1 DEF TypeOK
  <2>2. CASE thread' = [thread EXCEPT ![r] = "waiting"] /\ UNCHANGED <<future, answer, from>>
    BY <2>2 DEF TypeOK
  <2>3. CASE Close(r, "error")
    BY <2>3, CloseType
  <2> QED
    BY <1>1, <2>1, <2>2, <2>3 DEF Handle
<1>2. CASE Respond(r)
  <2>1. Close(r, future[r]) /\ future[r] \in {"ok", "error"}
    BY <1>2 DEF Respond, TypeOK
  <2> QED
    BY <2>1, CloseType
<1>3. CASE GiveUp(r) \/ TickTimeout(r)
  BY <1>3, CloseType DEF GiveUp, TickTimeout
<1>4. CASE Ticked(r)
  BY <1>4, CloseType DEF Ticked
<1> QED
  BY <1>1, <1>2, <1>3, <1>4 DEF HandlerStep

LEMMA NextTypeOK == IInv /\ TypeOK /\ [Next]_vars => TypeOK'
<1> SUFFICES ASSUME IInv, TypeOK, [Next]_vars PROVE TypeOK'
  OBVIOUS
<1> DEFINE Threads == {"unsent", "received", "waiting", "ticking", "closed"}
           Futures == {None, "ok", "error"}
           Told    == {None, "ok", "error", "aborted", "lost"}
<1>1. IInv'
  BY NextIInv
<1>2. /\ ControlTypeOK' /\ queue' \in Seq(Controls') /\ running' \in Controls' \union {None}
      /\ op' \in [Requests -> Ops \union {Tick}] /\ thread' \in [Requests -> Threads]
      /\ (step' # "idle" => running' # None)
  BY <1>1 DEF IInv, Controlled, QueueOK
<1>3. ASSUME /\ server' \in {"down", "running", "stopping"} /\ starts' \in 0..MaxStarts
             /\ ticks' \in 0..MaxTicks /\ future' \in [Requests -> Futures]
             /\ answer' \in [Requests -> Told] /\ from' \in [Requests -> 0..MaxTicks]
             /\ before' \in [Requests -> SUBSET Requests] /\ kept' \subseteq Controls'
      PROVE  TypeOK'
  BY <1>2, <1>3 DEF TypeOK
<1>4. ASSUME NEW r \in Requests, Send(r) PROVE TypeOK'
  <2>1. /\ UNCHANGED <<server, starts, ticks, future, answer, from, kept>>
        /\ \E o \in Ops : op' = [op EXCEPT ![r] = o]
        /\ before' = [before EXCEPT ![r] = {q \in Requests : thread[q] \notin {"unsent", "received"}}]
        /\ op[r] = Tick
    BY <1>4 DEF Send, IInv, QueueOK
  <2>2. before' \in [Requests -> SUBSET Requests]
    BY <2>1 DEF TypeOK
  <2>3. Controls \subseteq Controls'
    BY <2>1 DEF Controls, TypeOK
  <2> QED
    BY <1>3, <2>1, <2>2, <2>3 DEF TypeOK
<1>5. ASSUME NEW r \in Requests, HandlerStep(r) PROVE TypeOK'
  <2>1. UNCHANGED <<server, starts, ticks, before, kept, op>>
    BY <1>5 DEF HandlerStep, Handle, Respond, GiveUp, Ticked, TickTimeout
  <2> QED
    BY <1>3, <1>5, <2>1, HandlerType DEF TypeOK, Controls
<1>6. ASSUME NEW r \in Requests, Abort(r) PROVE TypeOK'
  <2>1. UNCHANGED <<server, starts, ticks, before, kept, op, future, from>>
    BY <1>6 DEF Abort
  <2>2. answer' \in [Requests -> Told]
    BY <1>6 DEF Abort, Tell, TypeOK
  <2> QED
    BY <1>3, <2>1, <2>2 DEF TypeOK, Controls
<1>7. CASE TakeTask
  BY <1>3, <1>7 DEF TakeTask, requestVars, TypeOK, Controls
<1>8. CASE RunTask
  <2>1. UNCHANGED <<server, starts, ticks, before, kept, op, answer, from>>
    BY <1>8 DEF RunTask
  <2>2. future' \in [Requests -> Futures]
    BY <1>8 DEF RunTask, Complete, TypeOK
  <2> QED
    BY <1>3, <2>1, <2>2 DEF TypeOK, Controls
<1>9. CASE StepTask
  <2>1. UNCHANGED <<server, starts, ticks, before, op, answer, from>>
    BY <1>9 DEF StepTask
  <2>2. future' \in [Requests -> Futures]
    BY <1>9 DEF StepTask, Complete, TypeOK
  <2>3. kept' \subseteq Controls
    BY <1>9 DEF StepTask, TypeOK
  <2> QED
    BY <1>3, <2>1, <2>2, <2>3 DEF TypeOK, Controls
<1>10. CASE TickEnds
  <2>1. UNCHANGED <<server, starts, before, op, answer, from, future, kept>>
    BY <1>10 DEF TickEnds, requestVars
  <2>2. ticks' \in 0..MaxTicks
    BY <1>10 DEF TickEnds, TypeOK
  <2> QED
    BY <1>3, <2>1, <2>2 DEF TypeOK, Controls
<1>11. CASE Stop
  <2>1. /\ UNCHANGED <<starts, ticks, before, op, from, future, kept>> /\ server' = "stopping"
        /\ answer' \in [Requests -> Told]
    BY <1>11 DEF Stop, TypeOK
  <2> QED
    BY <1>3, <2>1 DEF TypeOK, Controls
<1>12. CASE Die
  <2>1. /\ UNCHANGED <<starts, before, op>> /\ server' = "down" /\ ticks' = 0
        /\ from' = [r \in Requests |-> 0] /\ future' = [r \in Requests |-> None]
        /\ answer' \in [Requests -> Told] /\ kept' \subseteq kept
    BY <1>12 DEF Die, TypeOK
  <2>2. 0 \in 0..MaxTicks
    OBVIOUS
  <2> QED
    BY <1>3, <2>1, <2>2 DEF TypeOK, Controls
<1>13. CASE Start
  <2>1. /\ UNCHANGED <<ticks, before, op, answer, from, future, kept>>
        /\ server' = "running" /\ starts' = starts + 1 /\ starts < MaxStarts
    BY <1>13 DEF Start, requestVars
  <2> QED
    BY <1>3, <2>1 DEF TypeOK, Controls
<1>14. CASE UNCHANGED vars
  BY <1>3, <1>14 DEF vars, bridgeVars, requestVars, TypeOK, Controls
<1> QED
  BY <1>4, <1>5, <1>6, <1>7, <1>8, <1>9, <1>10, <1>11, <1>12, <1>13, <1>14 DEF Next

Order == Tasks /\ HandledBefore /\ InOrder

LEMMA QueueFacts ==
  ASSUME IInv
  PROVE  /\ Len(queue) \in Nat
         /\ \A i \in 1..Len(queue) : queue[i] \in Controls /\ queue[i] \in Requests
         /\ running # None => running \in Controls /\ running \in Requests
         /\ None \notin Requests
BY DEF IInv, QueueOK, Controls, None

\* Steps of threads and clients alone: no thread falls back.
LEMMA ThreadsMoveOn ==
  ASSUME IInv, TypeOK, Order, UNCHANGED <<queue, running, before, kept>>,
         \A x \in Requests : thread[x] \in Handled => thread'[x] \in Handled
  PROVE  Order'
<1>1. \A x : AtWork(x)' <=> AtWork(x)
  BY DEF AtWork, Queued
<1>2. Tasks'
  <2>1. \A r \in Requests : AtWork(r) \/ r \in kept => thread'[r] \in Handled
    BY DEF Order, Tasks
  <2> QED
    BY <1>1, <2>1 DEF Order, Tasks, Queued
<1>3. HandledBefore'
  <2>1. \A r \in Requests : before'[r] = before[r] /\ before[r] \subseteq Requests
    BY DEF TypeOK
  <2> QED
    BY <2>1 DEF Order, HandledBefore
<1>4. InOrder'
  BY <1>1 DEF Order, InOrder
<1> QED
  BY <1>2, <1>3, <1>4 DEF Order

LEMMA SendKeepsOrder ==
  ASSUME IInv, TypeOK, Order, NEW r \in Requests, Send(r)
  PROVE  Order'
<1>1. /\ thread[r] = "unsent" /\ thread' = [thread EXCEPT ![r] = "received"]
      /\ before' = [before EXCEPT ![r] = {q \in Requests : thread[q] \notin {"unsent", "received"}}]
      /\ UNCHANGED <<queue, running, kept>>
  BY DEF Send
<1>2. thread[r] \notin Handled
  BY <1>1 DEF Handled
<1>3. ~AtWork(r) /\ r \notin kept
  BY <1>2 DEF Order, Tasks
<1>4. \A q \in Requests : r \notin before[q]
  BY <1>2 DEF Order, HandledBefore
<1>5. \A q \in Requests \ {r} : thread'[q] = thread[q] /\ before'[q] = before[q]
  BY <1>1 DEF TypeOK
<1>6. before'[r] = {q \in Requests : thread[q] \in Handled}
  BY <1>1 DEF TypeOK, Handled
<1>7. \A q : AtWork(q)' <=> AtWork(q)
  BY <1>1 DEF AtWork, Queued
<1>8. \A q \in Requests : AtWork(q) \/ q \in kept => q # r
  BY <1>3
<1>9. Tasks'
  <2>1. \A q \in Requests : AtWork(q) \/ q \in kept => thread'[q] \in Handled
    BY <1>5, <1>8 DEF Order, Tasks
  <2> QED
    BY <1>1, <1>7, <2>1 DEF Order, Tasks, Queued
<1>10. HandledBefore'
  <2>1. \A q \in Requests : \A x \in before[q] : thread'[x] \in Handled
    BY <1>4, <1>5 DEF Order, HandledBefore, TypeOK
  <2>2. \A x \in before'[r] : thread'[x] \in Handled
    BY <1>2, <1>5, <1>6
  <2> QED
    BY <1>5, <2>1, <2>2 DEF HandledBefore
<1>11. InOrder'
  <2>1. \A i \in 1..Len(queue) : before'[queue[i]] = before[queue[i]]
    BY <1>3, <1>5, QueueFacts DEF AtWork, Queued
  <2>2. \A q \in Requests : running = q \/ q \in kept => before'[q] = before[q]
    BY <1>5, <1>8 DEF AtWork
  <2> QED
    BY <1>1, <1>7, <2>1, <2>2 DEF Order, InOrder
<1> QED
  BY <1>9, <1>10, <1>11 DEF Order

\* The task of a request that is handled comes last.
LEMMA QueueingKeepsOrder ==
  ASSUME IInv, TypeOK, Order, NEW r \in Requests, thread[r] = "received",
         queue' = Append(queue, r),
         thread' = [thread EXCEPT ![r] = "waiting"],
         UNCHANGED <<running, before, kept>>
  PROVE  Order'
<1>1. thread[r] \notin Handled
  BY DEF Handled
<1>2. ~AtWork(r) /\ r \notin kept
  BY <1>1 DEF Order, Tasks
<1>3. \A q \in Requests : r \notin before[q]
  BY <1>1 DEF Order, HandledBefore
<1>4. /\ Len(queue) \in Nat /\ Len(queue') = Len(queue) + 1 /\ queue'[Len(queue')] = r
      /\ \A i \in 1..Len(queue) : queue'[i] = queue[i]
  BY DEF TypeOK
<1>5. \A i \in 1..Len(queue') : i \in 1..Len(queue) \/ i = Len(queue')
  BY <1>4
<1>6. \A q : Queued(q)' <=> Queued(q) \/ q = r
  <2>1. 1..Len(queue) \subseteq 1..Len(queue') /\ Len(queue') \in 1..Len(queue')
    BY <1>4
  <2> QED
    BY <1>4, <1>5, <2>1 DEF Queued
<1>7. \A q : AtWork(q)' <=> AtWork(q) \/ q = r
  BY <1>6 DEF AtWork
<1>8. thread'[r] \in Handled /\ \A q \in Requests \ {r} : thread'[q] = thread[q]
  BY DEF TypeOK, Handled
<1>9. Tasks'
  <2>1. \A q \in Requests : AtWork(q)' \/ q \in kept => thread'[q] \in Handled
    BY <1>7, <1>8 DEF Order, Tasks
  <2>2. \A i, j \in 1..Len(queue') : queue'[i] = queue'[j] => i = j
    <3>1. \A i \in 1..Len(queue) : queue[i] # r
      BY <1>2 DEF AtWork, Queued
    <3> QED
      BY <1>4, <1>5, <3>1 DEF Order, Tasks
  <2>3. running # None => ~Queued(running)'
    BY <1>2, <1>6 DEF Order, Tasks, AtWork
  <2>4. \A q \in kept : ~AtWork(q)'
    BY <1>2, <1>7 DEF Order, Tasks
  <2> QED
    BY <2>1, <2>2, <2>3, <2>4 DEF Tasks
<1>10. HandledBefore'
  <2>1. \A q \in Requests : \A x \in before[q] : x \in Requests /\ thread'[x] \in Handled
    BY <1>8 DEF Order, HandledBefore, TypeOK
  <2> QED
    BY <2>1 DEF HandledBefore
<1>11. InOrder'
  <2>1. \A i, j \in 1..Len(queue') : queue'[j] \in before[queue'[i]] => j < i
    <3>1. SUFFICES ASSUME NEW i \in 1..Len(queue'), NEW j \in 1..Len(queue'),
                          queue'[j] \in before[queue'[i]]
          PROVE  j < i
      OBVIOUS
    <3>2. queue'[i] \in Requests
      BY <1>4, <1>5, QueueFacts
    <3>3. j \in 1..Len(queue)
      BY <1>3, <1>4, <1>5, <3>1, <3>2
    <3>4. CASE i = Len(queue')
      BY <1>4, <3>3, <3>4
    <3>5. CASE i \in 1..Len(queue)
      BY <1>4, <3>1, <3>3, <3>5 DEF Order, InOrder
    <3> QED
      BY <1>5, <3>4, <3>5
  <2>2. \A q \in Requests : running = q \/ q \in kept => \A x \in before[q] : ~AtWork(x)'
    BY <1>3, <1>7 DEF Order, InOrder
  <2> QED
    BY <2>1, <2>2 DEF InOrder
<1> QED
  BY <1>9, <1>10, <1>11 DEF Order

\* The server thread takes the oldest task.
LEMMA TakingKeepsOrder ==
  ASSUME IInv, TypeOK, Order, TakeTask
  PROVE  Order'
<1>1. /\ running = None /\ queue # <<>> /\ running' = queue[1] /\ queue' = Tail(queue)
      /\ UNCHANGED <<thread, before, kept>>
  BY DEF TakeTask, Take, Idle, requestVars
<1>2. /\ Len(queue) \in Nat /\ 1 \in 1..Len(queue) /\ Len(queue') = Len(queue) - 1
      /\ \A i \in 1..Len(queue') : i + 1 \in 1..Len(queue) /\ queue'[i] = queue[i + 1]
  BY <1>1 DEF TypeOK
<1>3. \A i \in 1..Len(queue) : i = 1 \/ (i - 1 \in 1..Len(queue') /\ queue'[i - 1] = queue[i])
  BY <1>2
<1>4. \A q : Queued(q) <=> Queued(q)' \/ q = queue[1]
  BY <1>2, <1>3 DEF Queued
<1>5. \A q \in Requests : AtWork(q)' <=> AtWork(q)
  BY <1>1, <1>4, QueueFacts DEF AtWork
<1>6. queue[1] \in Requests /\ queue[1] # None
  BY <1>2, QueueFacts
<1>7. Tasks'
  <2>1. \A i, j \in 1..Len(queue') : queue'[i] = queue'[j] => i = j
    <3>1. \A i, j \in 1..Len(queue') : queue'[i] = queue'[j] => i + 1 = j + 1
      BY <1>2 DEF Order, Tasks
    <3> QED
      BY <1>2, <3>1
  <2>2. ~Queued(running)'
    <3>1. \A i \in 1..Len(queue') : i + 1 # 1 /\ queue[i + 1] # queue[1]
      BY <1>2 DEF Order, Tasks
    <3> QED
      BY <1>1, <1>2, <3>1 DEF Queued
  <2>3. \A q \in kept : q \in Requests
    BY DEF TypeOK, Controls
  <2> QED
    BY <1>1, <1>5, <2>1, <2>2, <2>3 DEF Order, Tasks
<1>8. HandledBefore'
  BY <1>1 DEF Order, HandledBefore
<1>9. InOrder'
  <2>1. \A i, j \in 1..Len(queue') : queue'[j] \in before[queue'[i]] => j < i
    <3>1. \A i, j \in 1..Len(queue') : queue'[j] \in before[queue'[i]] => j + 1 < i + 1
      BY <1>2 DEF Order, InOrder
    <3> QED
      BY <1>2, <3>1
  <2>2. \A q \in Requests : \A x \in before[q] : x \in Requests
    BY DEF TypeOK
  <2>3. \A x \in before[queue[1]] : ~AtWork(x)
    <3>1. \A j \in 1..Len(queue) : queue[j] \in before[queue[1]] => j < 1
      BY <1>2 DEF Order, InOrder
    <3>2. \A x \in before[queue[1]] : ~Queued(x)
      BY <1>2, <3>1 DEF Queued
    <3> QED
      BY <1>1, <1>6, <2>2, <3>2, QueueFacts DEF AtWork
  <2>4. \A q \in Requests : q = queue[1] \/ q \in kept => \A x \in before[q] : ~AtWork(x)'
    BY <1>5, <2>2, <2>3 DEF Order, InOrder
  <2> QED
    BY <1>1, <2>1, <2>4 DEF InOrder
<1> QED
  BY <1>7, <1>8, <1>9 DEF Order

\* A task of its own runs, or ends: what it saves is asked for by no request
\* that came before it and is still to come.
LEMMA WorkKeepsOrder ==
  ASSUME IInv, TypeOK, Order, running # None,
         UNCHANGED <<queue, thread, before>>,
         \/ running' = running /\ kept' \subseteq kept
         \/ running' = None /\ kept' \subseteq kept \union {running}
  PROVE  Order'
<1>1. \A q : AtWork(q)' => AtWork(q) \/ q = None
  BY DEF AtWork, Queued
<1>2. running \in Requests /\ None \notin Requests /\ kept \subseteq Requests
  BY QueueFacts DEF TypeOK, Controls
<1>3. kept' \subseteq kept \union {running} /\ (running' # running => running' = None)
  OBVIOUS
<1>4. Tasks'
  <2>1. \A q \in Requests : AtWork(q)' \/ q \in kept' => AtWork(q) \/ q \in kept
    BY <1>1, <1>2, <1>3 DEF AtWork
  <2>2. \A q \in kept' : ~AtWork(q)'
    <3>1. SUFFICES ASSUME NEW q \in kept' PROVE ~AtWork(q)'
      OBVIOUS
    <3>2. CASE q \in kept
      BY <1>1, <1>2, <3>2 DEF Order, Tasks
    <3>3. CASE q = running /\ running' = None
      BY <1>2, <3>3 DEF Order, Tasks, AtWork, Queued
    <3> QED
      BY <3>1, <3>2, <3>3
  <2> QED
    BY <2>1, <2>2 DEF Order, Tasks, Queued
<1>5. HandledBefore'
  BY DEF Order, HandledBefore
<1>6. InOrder'
  <2>1. \A q \in Requests : \A x \in before[q] : x \in Requests
    BY DEF TypeOK
  <2>2. \A q \in Requests : running' = q \/ q \in kept' => running = q \/ q \in kept
    BY <1>2, <1>3
  <2>3. \A q \in Requests : running' = q \/ q \in kept' => \A x \in before[q] : ~AtWork(x)'
    BY <1>1, <1>2, <2>1, <2>2 DEF Order, InOrder
  <2> QED
    BY <2>3 DEF Order, InOrder
<1> QED
  BY <1>4, <1>5, <1>6 DEF Order

LEMMA OrderStep == IInv /\ TypeOK /\ Order /\ [Next]_vars => Order'
<1> SUFFICES ASSUME IInv, TypeOK, Order, [Next]_vars PROVE Order'
  OBVIOUS
<1>1. ASSUME NEW r \in Requests, Handle(r) PROVE Order'
  <2>1. UNCHANGED <<running, before, kept>> /\ thread[r] = "received"
    BY <1>1 DEF Handle
  <2>2. CASE queue' = Append(queue, r) /\ thread' = [thread EXCEPT ![r] = "waiting"]
    BY <2>1, <2>2, QueueingKeepsOrder
  <2>3. CASE queue' = queue /\ thread'[r] \in {"ticking", "closed"}
    <3>1. \A x \in Requests \ {r} : thread'[x] = thread[x]
      BY <1>1 DEF Handle, Close, TypeOK
    <3> QED
      BY <2>1, <2>3, <3>1, ThreadsMoveOn DEF Handled
  <2> QED
    BY <1>1, <2>2, <2>3 DEF Handle, Close, TypeOK
<1>2. ASSUME NEW r \in Requests, Respond(r) \/ GiveUp(r) \/ Ticked(r) \/ TickTimeout(r)
      PROVE  Order'
  <2>1. UNCHANGED <<queue, running, before, kept>>
    BY <1>2 DEF Respond, GiveUp, Ticked, TickTimeout
  <2>2. thread'[r] = "closed" /\ \A x \in Requests \ {r} : thread'[x] = thread[x]
    BY <1>2 DEF Respond, GiveUp, Ticked, TickTimeout, Close, TypeOK
  <2> QED
    BY <2>1, <2>2, ThreadsMoveOn DEF Handled
<1>3. ASSUME NEW r \in Requests, Abort(r) PROVE Order'
  BY <1>3, ThreadsMoveOn DEF Abort
<1>4. CASE RunTask
  <2>1. /\ UNCHANGED <<queue, thread, before, kept>> /\ running # None
        /\ running' \in {running, None}
    BY <1>4 DEF RunTask, Complete
  <2> QED
    BY <2>1, WorkKeepsOrder
<1>5. CASE StepTask
  <2>1. UNCHANGED <<queue, thread, before>> /\ running # None
    BY <1>5 DEF StepTask
  <2>2. \/ running' = running /\ kept' \subseteq kept
        \/ running' = None /\ kept' \subseteq kept \union {running}
    BY <1>5 DEF StepTask, Complete
  <2> QED
    BY <2>1, <2>2, WorkKeepsOrder
<1>6. CASE TickEnds \/ UNCHANGED vars
  BY <1>6, ThreadsMoveOn DEF TickEnds, vars, bridgeVars, requestVars
<1>7. CASE Stop
  BY <1>7, ThreadsMoveOn DEF Stop
<1>8. CASE Die
  <2>1. /\ queue' = <<>> /\ running' = None /\ kept' \subseteq kept /\ before' = before
        /\ thread' = [r \in Requests |-> IF Open(r) THEN "closed" ELSE thread[r]]
    BY <1>8 DEF Die
  <2>2. /\ kept \subseteq Requests /\ \A r \in Requests : before[r] \subseteq Requests
        /\ None \notin Requests
    BY QueueFacts DEF TypeOK, Controls
  <2>3. \A r \in Requests : ~AtWork(r)'
    BY <2>1, <2>2 DEF AtWork, Queued
  <2>4. \A r \in Requests : thread[r] \in Handled \union {"received"} => thread'[r] \in Handled
    BY <2>1 DEF Handled, Open
  <2>5. Tasks'
    BY <2>1, <2>2, <2>3, <2>4 DEF Order, Tasks, Queued
  <2>6. HandledBefore'
    BY <2>1, <2>2, <2>4 DEF Order, HandledBefore
  <2>7. InOrder'
    BY <2>1, <2>2, <2>3 DEF InOrder
  <2> QED
    BY <2>5, <2>6, <2>7 DEF Order
<1>9. CASE Start
  BY <1>9, ThreadsMoveOn DEF Start, requestVars
<1> QED
  BY <1>1, <1>2, <1>3, <1>4, <1>5, <1>6, <1>7, <1>8, <1>9, SendKeepsOrder, TakingKeepsOrder
     DEF Next, HandlerStep

\* The operation under way is asked for by no rival of a request all of whose
\* rivals had been queued when it was made.
LEMMA NoRivalAtWork ==
  ASSUME IInv, Order, running # None, NEW r \in kept, Rivals(r) \subseteq before[r],
         r \in Controls, NEW p \in Providers, Touches(op[r], p)
  PROVE  ~Touches(op[running], p)
<1>1. running # r
  BY DEF Order, Tasks, AtWork
<1>2. running \in Controls /\ r \in Requests
  BY QueueFacts DEF Controls
<1>3. running \notin before[r]
  BY <1>2 DEF Order, InOrder, AtWork
<1> QED
  BY <1>1, <1>2, <1>3 DEF Rivals

\* Steps that leave the operation and what the providers publish as they are.
LEMMA ControlsStay ==
  ASSUME TypeOK, UnderWay, Saved, UNCHANGED <<controlVars, op, before>>,
         server' # "down" => server # "down", kept' \subseteq kept,
         running' = running \/ step = "idle"
  PROVE  UnderWay' /\ Saved'
<1>1. UNCHANGED <<published, file, step, controls>>
  BY DEF controlVars, shareVars
<1>2. \A r : Rivals(r)' = Rivals(r)
  BY DEF Rivals, Controls, Touches
<1>3. UnderWay'
  BY <1>1 DEF UnderWay, Touches, Want
<1>4. Saved'
  BY <1>1, <1>2 DEF Saved, Touches, Want
<1> QED
  BY <1>3, <1>4

\* The operation up to the first access to its file.
LEMMA BeginPublishes ==
  ASSUME Controlled, NEW o \in ControlOps, BeginControl(o), step = "idle"
  PROVE  /\ file' = file /\ step' \in {"idle", "load", "truncate"}
         /\ step' = "truncate" => o.provider = "all"
         /\ \A p \in Providers : ~Touches(o, p) => published'[p] = published[p]
         /\ step' # "idle" => \A p \in Providers : Touches(o, p) =>
              /\ published'[p] = Want(o)
              /\ step' = "truncate" => controls'[p] = o.mode
<1>1. \A p \in Providers : IF p \in captured THEN originals[p] = "real" ELSE published[p] = "real"
  BY DEF Controlled, OriginalsKept
<1>2. published \in [Providers -> Modes \union {"real"}]
  BY DEF Controlled, ControlTypeOK
<1>3. CASE o.provider = "all"
  <2>1. /\ o.mode = "original" /\ Restore(Providers) /\ file' = file
        /\ controls' = NoControls /\ step' = "truncate"
    BY <1>3 DEF BeginControl, ControlOps
  <2>2. \A p \in Providers : published'[p] = "real" /\ controls'[p] = "original"
    BY <1>1, <2>1 DEF Restore, NoControls
  <2> QED
    BY <1>3, <2>1, <2>2 DEF Touches, Want
<1>4. CASE o.provider # "all" /\ o.mode = "original"
  <2>1. Restore({o.provider}) /\ file' = file /\ step' = "load" /\ o.provider \in Providers
    BY <1>4 DEF BeginControl, ControlOps
  <2>2. published'[o.provider] = "real"
    BY <1>1, <2>1 DEF Restore
  <2>3. \A p \in Providers \ {o.provider} : published'[p] = published[p]
    BY <2>1 DEF Restore
  <2> QED
    BY <1>4, <2>1, <2>2, <2>3 DEF Touches, Want
<1>5. CASE o.provider # "all" /\ o.mode # "original"
  <2>1. /\ file' = file /\ step' \in {"idle", "load"} /\ o.provider \in Providers
        /\ \/ published' = [published EXCEPT ![o.provider] = o.mode]
           \/ published' = published /\ step' = "idle"
    BY <1>5 DEF BeginControl, ControlOps, Publish
  <2> QED
    BY <1>2, <1>5, <2>1 DEF Touches, Want
<1> QED
  BY <1>3, <1>4, <1>5

LEMMA RunTaskSaves ==
  ASSUME IInv, TypeOK, Order, UnderWay, Saved, RunTask
  PROVE  UnderWay' /\ Saved'
<1>1. /\ running # None /\ step = "idle" /\ UNCHANGED <<server, op, before, kept>>
      /\ step' # "idle" => running' = running
  BY DEF RunTask
<1>2. CASE server # "running"
  BY <1>1, <1>2, ControlsStay DEF RunTask
<1>3. CASE server = "running"
  <2>1. running \in Controls /\ op[running] \in ControlOps /\ BeginControl(op[running])
    BY <1>1, <1>3, QueueFacts, OpsAreControls DEF RunTask, IInv
  <2> DEFINE o == op[running]
  <2>2. /\ file' = file /\ step' \in {"idle", "load", "truncate"}
        /\ step' = "truncate" => o.provider = "all"
        /\ \A p \in Providers : ~Touches(o, p) => published'[p] = published[p]
        /\ step' # "idle" => \A p \in Providers : Touches(o, p) =>
             /\ published'[p] = Want(o)
             /\ step' = "truncate" => controls'[p] = o.mode
    BY <1>1, <2>1, BeginPublishes DEF IInv
  <2>3. UnderWay'
    BY <1>1, <2>2 DEF UnderWay, Touches, Want
  <2>4. Saved'
    <3>1. SUFFICES ASSUME NEW r \in kept, Rivals(r) \subseteq before[r],
                          NEW p \in Providers, Touches(op[r], p)
          PROVE  /\ server # "down" => published'[p] = Want(op[r])
                 /\ step' # "write" => file'[p] = op[r].mode
                 /\ step' \in {"truncate", "write"} => controls'[p] = op[r].mode
      <4>1. \A r : Rivals(r)' = Rivals(r)
        BY <1>1 DEF Rivals, Controls, Touches
      <4> QED
        BY <1>1, <4>1 DEF Saved, Touches, Want
    <3>2. r \in Controls
      BY DEF TypeOK
    <3>3. ~Touches(o, p)
      BY <1>1, <3>1, <3>2, NoRivalAtWork
    <3>4. step' # "truncate"
      BY <2>2, <3>3 DEF Touches
    <3> QED
      BY <1>1, <2>2, <3>1, <3>3, <3>4 DEF Saved
  <2> QED
    BY <2>3, <2>4
<1> QED
  BY <1>2, <1>3

LEMMA StepTaskSaves ==
  ASSUME IInv, TypeOK, Order, UnderWay, Saved, StepTask
  PROVE  UnderWay' /\ Saved'
<1> DEFINE o == op[running]
<1>1. /\ running \in Controls /\ running # None /\ o \in ControlOps
      /\ UNCHANGED <<server, op, before, published>>
  BY QueueFacts, OpsAreControls DEF StepTask, IInv, Load, Truncate, Delete, Write, FileFails, shareVars
<1>2. /\ file \in [Providers -> Modes \union {"original"}]
      /\ kept \subseteq Controls
  BY DEF TypeOK, ControlTypeOK
<1>3. \A r : Rivals(r)' = Rivals(r)
  BY <1>1 DEF Rivals, Controls, Touches
<1>4. \A r \in kept : Rivals(r) \subseteq before[r] =>
        \A p \in Providers : Touches(op[r], p) => ~Touches(o, p)
  BY <1>1, <1>2, NoRivalAtWork
<1>5. CASE Load(o) /\ UNCHANGED <<running, kept>>
  <2>1. o.provider \in Providers /\ o.provider # "all"
    BY <1>5 DEF Load, IInv, QueueOK, Loadable
  <2>2. /\ step = "load" /\ step' = "truncate" /\ file' = file
        /\ controls' = [file EXCEPT ![o.provider] = o.mode]
    BY <1>5 DEF Load
  <2>3. \A p \in Providers : Touches(o, p) => p = o.provider /\ controls'[p] = o.mode
    BY <1>2, <2>1, <2>2 DEF Touches
  <2>4. \A p \in Providers : ~Touches(o, p) => controls'[p] = file[p]
    BY <1>2, <2>2 DEF Touches
  <2>5. UnderWay'
    BY <1>1, <1>5, <2>2, <2>3 DEF UnderWay, Touches, Want
  <2>6. Saved'
    <3>1. \A r \in kept : Rivals(r) \subseteq before[r] =>
            \A p \in Providers : Touches(op[r], p) =>
              /\ server # "down" => published[p] = Want(op[r])
              /\ file[p] = op[r].mode /\ controls'[p] = op[r].mode
      BY <1>4, <2>2, <2>4 DEF Saved
    <3> QED
      BY <1>1, <1>3, <1>5, <2>2, <3>1 DEF Saved, Touches, Want
  <2> QED
    BY <2>5, <2>6
<1>6. CASE Truncate /\ UNCHANGED <<running, kept>>
  <2>1. step = "truncate" /\ step' = "write" /\ controls' = controls
    BY <1>6 DEF Truncate
  <2>2. UnderWay'
    BY <1>1, <1>6, <2>1 DEF UnderWay, Touches, Want
  <2>3. Saved'
    BY <1>1, <1>3, <1>6, <2>1 DEF Saved, Touches, Want
  <2> QED
    BY <2>2, <2>3
<1>7. CASE (Delete \/ Write) /\ kept' = kept \union {running}
  <2>1. step \in {"truncate", "write"} /\ step' = "idle" /\ file' = controls
    BY <1>7 DEF Delete, Write
  <2>2. \A p \in Providers : Touches(o, p) => published[p] = Want(o) /\ controls[p] = o.mode
    BY <2>1 DEF UnderWay
  <2>3. \A r \in kept : Rivals(r) \subseteq before[r] =>
          \A p \in Providers : Touches(op[r], p) =>
            /\ server # "down" => published[p] = Want(op[r])
            /\ controls[p] = op[r].mode
    BY <2>1 DEF Saved
  <2>4. Saved'
    BY <1>1, <1>3, <1>7, <2>1, <2>2, <2>3 DEF Saved, Touches, Want
  <2> QED
    BY <2>1, <2>4 DEF UnderWay
<1>8. CASE FileFails /\ kept' = IF step = "write" THEN {} ELSE kept
  <2>1. step' = "idle" /\ file' = file
    BY <1>8 DEF FileFails
  <2>2. Saved'
    BY <1>1, <1>3, <1>8, <2>1 DEF Saved, Touches, Want
  <2> QED
    BY <2>1, <2>2 DEF UnderWay
<1> QED
  BY <1>5, <1>6, <1>7, <1>8 DEF StepTask

\* A new request may be one more rival of those before it.
LEMMA SendSaves ==
  ASSUME IInv, TypeOK, Order, UnderWay, Saved, NEW r \in Requests, Send(r)
  PROVE  UnderWay' /\ Saved'
<1>1. /\ thread[r] = "unsent" /\ UNCHANGED <<controlVars, server, running, kept>>
      /\ \E o \in Ops : op' = [op EXCEPT ![r] = o]
      /\ before' = [before EXCEPT ![r] = {q \in Requests : thread[q] \notin {"unsent", "received"}}]
  BY DEF Send
<1>2. UNCHANGED <<published, file, step, controls>>
  BY <1>1 DEF controlVars, shareVars
<1>3. op[r] = Tick /\ r \notin Controls
  BY <1>1 DEF IInv, QueueOK, Controls
<1>4. \A q \in Controls : q # r /\ q \in Requests /\ q \in Controls' /\ op'[q] = op[q]
                           /\ before'[q] = before[q]
  BY <1>1, <1>3 DEF TypeOK, Controls
<1>5. \A q \in Controls : Rivals(q) \subseteq Rivals(q)'
  BY <1>4 DEF Rivals, Touches
<1>6. step # "idle" => running \in Controls
  BY QueueFacts DEF TypeOK
<1>7. UnderWay'
  BY <1>1, <1>2, <1>4, <1>6 DEF UnderWay, Touches, Want
<1>8. Saved'
  <2>1. kept \subseteq Controls
    BY DEF TypeOK
  <2>2. ASSUME NEW q \in kept, Rivals(q)' \subseteq before'[q]
        PROVE  Rivals(q) \subseteq before[q] /\ op'[q] = op[q]
    BY <1>4, <1>5, <2>1, <2>2
  <2> QED
    BY <1>1, <1>2, <2>2 DEF Saved, Touches, Want
<1> QED
  BY <1>7, <1>8

LEMMA SavedStep ==
  IInv /\ TypeOK /\ Order /\ UnderWay /\ Saved /\ [Next]_vars => UnderWay' /\ Saved'
<1> SUFFICES ASSUME IInv, TypeOK, Order, UnderWay, Saved, [Next]_vars PROVE UnderWay' /\ Saved'
  OBVIOUS
<1>1. ASSUME NEW r \in Requests, HandlerStep(r) \/ Abort(r) PROVE UnderWay' /\ Saved'
  <2>1. UNCHANGED <<controlVars, op, before, server, kept, running>>
    BY <1>1 DEF HandlerStep, Handle, Respond, GiveUp, Ticked, TickTimeout, Abort
  <2> QED
    BY <2>1, ControlsStay
<1>2. CASE TakeTask
  <2>1. UNCHANGED <<controlVars, op, before, server, kept>> /\ step = "idle"
    BY <1>2 DEF TakeTask, Take, Idle, requestVars
  <2> QED
    BY <2>1, ControlsStay
<1>3. CASE TickEnds \/ UNCHANGED vars
  <2>1. UNCHANGED <<controlVars, op, before, server, kept, running>>
    BY <1>3 DEF TickEnds, vars, bridgeVars, requestVars
  <2> QED
    BY <2>1, ControlsStay
<1>4. CASE Stop
  <2>1. UNCHANGED <<controlVars, op, before, kept, running>> /\ server # "down"
    BY <1>4 DEF Stop
  <2> QED
    BY <2>1, ControlsStay
<1>5. CASE Die
  <2>1. /\ step' = "idle" /\ server' = "down" /\ UNCHANGED <<file, op, before>>
        /\ kept' = IF step = "write" THEN {} ELSE kept
    BY <1>5 DEF Die, ForgetControls
  <2>2. \A r : Rivals(r)' = Rivals(r)
    BY <2>1 DEF Rivals, Controls, Touches
  <2>3. Saved'
    BY <2>1, <2>2 DEF Saved, Touches, Want
  <2> QED
    BY <2>1, <2>3 DEF UnderWay
<1>6. CASE Start
  <2>1. /\ server = "down" /\ ApplyPersisted /\ UNCHANGED <<file, step, op, before, kept>>
    BY <1>6 DEF Start, requestVars, ApplyPersisted
  <2>2. step = "idle" /\ published = [p \in Providers |-> "real"]
    BY <2>1 DEF IInv, DownIsFresh
  <2>3. \A p \in Providers : published'[p] = IF file[p] # "original" THEN file[p] ELSE "real"
    BY <2>1, <2>2 DEF ApplyPersisted
  <2>4. \A r : Rivals(r)' = Rivals(r)
    BY <2>1 DEF Rivals, Controls, Touches
  <2>5. Saved'
    BY <2>1, <2>2, <2>3, <2>4 DEF Saved, Touches, Want
  <2> QED
    BY <2>1, <2>2, <2>5 DEF UnderWay
<1> QED
  BY <1>1, <1>2, <1>3, <1>4, <1>5, <1>6, SendSaves, RunTaskSaves, StepTaskSaves DEF Next

LEMMA InitAInv == Init => AInv
<1> SUFFICES ASSUME Init PROVE AInv
  OBVIOUS
<1>1. /\ Len(queue) = 0 /\ running = None /\ kept = {} /\ step = "idle"
      /\ \A r \in Requests : before[r] = {}
  BY DEF Init, ControlInit
<1>2. \A r \in Requests : ~AtWork(r)
  BY <1>1, None \notin Requests DEF AtWork, Queued, None
<1>3. Tasks /\ InOrder
  BY <1>1, <1>2 DEF Tasks, InOrder
<1>4. HandledBefore
  BY <1>1 DEF HandledBefore
<1> QED
  BY <1>1, <1>3, <1>4 DEF AInv, UnderWay, Saved

LEMMA FullInvariance == Spec => [](IInv /\ TypeOK /\ AInv)
<1>1. Init => IInv /\ TypeOK /\ AInv
  BY InitIInv, InitTypeOK, InitAInv
<1>2. IInv /\ TypeOK /\ AInv /\ [Next]_vars => (IInv /\ TypeOK /\ AInv)'
  BY NextIInv, NextTypeOK, OrderStep, SavedStep DEF AInv, Order
<1> QED
  BY <1>1, <1>2, PTL DEF Spec

\* Every variable of the bridge and its requests keeps its type.
THEOREM TypeCorrect == Spec => []TypeOK
BY FullInvariance, PTL

\* A provider control that the bridge has acknowledged stays in force, on this
\* server and on those after it, unless the bridge handles another request for
\* its provider after it was made; those it had handled before, given up since
\* or not, do not come after it (onServer() of HarnessBridgeMod.java queues tasks in order;
\* saveProviderControls() of CofferHarnessAdapterMod.java).
THEOREM AcknowledgedControlsHold == Spec => []AcknowledgedHolds
<1>1. AInv => AcknowledgedHolds
  BY DEF AInv, Saved, AcknowledgedHolds, Rivals, Want
<1> QED
  BY <1>1, FullInvariance, PTL
===============================================================================
