-------------------------- MODULE ProtocolClientProofs --------------------------
(***************************************************************************)
(* For any number of coroutines, generations of the child and requests:    *)
(* the table of pending requests is exact, no request waits on a child     *)
(* whose exit was seen, answers come from the child that was asked, and no *)
(* process is left to itself.                                              *)
(***************************************************************************)
EXTENDS ProtocolClient, TLAPS

Calls    == [pc : Pcs, on : 0..MaxSpawns, to : 0..MaxSpawns, id : Nat,
             answer : {"none", "ok", "failed"}]
Requests(n) == [id : 1..n, command : {"other", "disconnect"}]
Lines(n)    == [kind : LineKinds, id : 0..n]

Waits(t) == call[t].pc \in RequestWaits

FieldsOK ==
  /\ child \in 0..spawns /\ spawns \in 0..MaxSpawns
  /\ isConnected \in BOOLEAN /\ expectedExit \in BOOLEAN
  /\ requestSequence \in Nat
  /\ proc \in [ChildIds -> ProcStates]
  /\ exited \subseteq ChildIds /\ killed \subseteq ChildIds
PipesOK ==
  /\ stdin \in [ChildIds -> Seq(Requests(requestSequence))]
  /\ stdout \in [ChildIds -> Seq(Lines(requestSequence))]

\* A call that waits for an answer, and no other, has an id and a child.
IdsOK ==
  \A t \in Tasks : IF Waits(t) THEN call[t].id \in 1..requestSequence /\ call[t].to \in 1..spawns
                               ELSE call[t].id = 0

IdsDiffer == \A t, u \in Tasks : Waits(t) /\ Waits(u) /\ call[t].id = call[u].id => t = u

\* Whatever is in the pipes of a child about a request that still waits is
\* about a request to that child.
OwnPipes ==
  \A t \in Tasks, c \in ChildIds : Waits(t) =>
    /\ \A i \in 1..Len(stdin[c])  : stdin[c][i].id = call[t].id => call[t].to = c
    /\ \A i \in 1..Len(stdout[c]) : stdout[c][i].id = call[t].id => call[t].to = c

ExitSeen ==
  \A t \in Tasks : call[t].pc \in ExitWaits /\ call[t].answer = "ok" => call[t].on \in exited

\* What a call may have to kill is a child.
Held == {"joining", "negotiating", "disconnecting"} \union ExitWaits
HeldOK == \A t \in Tasks : call[t].pc \in Held => call[t].on \in ChildIds

CallsOK ==
  /\ call \in [Tasks -> Calls]
  /\ IdsOK /\ IdsDiffer /\ PendingRequestsWait /\ NoWaitOnExitedChild /\ ExitSeen /\ HeldOK

IInv == FieldsOK /\ PipesOK /\ CallsOK /\ OwnPipes

USE ClientAssumption DEF ChildIds, RequestWaits, ExitWaits

LEMMA PcsAre ==
  Pcs = {"idle", "checking", "joining", "requesting", "negotiating", "disconnecting",
         "cleaning", "closing"}
BY DEF Pcs

LEMMA InitIInv == Init => IInv
<1> SUFFICES ASSUME Init PROVE IInv
  OBVIOUS
<1>1. FieldsOK
  <2>1. isConnected \in BOOLEAN /\ expectedExit \in BOOLEAN
    BY DEF Init
  <2>2. child \in 0..spawns /\ spawns \in 0..MaxSpawns /\ requestSequence \in Nat
    BY DEF Init
  <2>3. proc \in [ChildIds -> ProcStates] /\ exited \subseteq ChildIds /\ killed \subseteq ChildIds
    BY DEF Init, ProcStates
  <2> QED
    BY <2>1, <2>2, <2>3 DEF FieldsOK
<1>2. PipesOK
  BY DEF Init, PipesOK
<1>3. CallsOK
  <2>1. Idle \in Calls
    BY PcsAre DEF Idle, Calls
  <2>2. call \in [Tasks -> Calls] /\ \A t \in Tasks : call[t] = Idle
    BY <2>1 DEF Init
  <2>3. \A t \in Tasks : ~Waits(t) /\ call[t].id = 0 /\ call[t].pc \notin Held
    <3>1. Idle.pc = "idle" /\ Idle.id = 0
      BY DEF Idle
    <3> QED
      BY <2>2, <3>1 DEF Waits, Held
  <2>4. pending = {}
    BY DEF Init
  <2> QED
    BY <2>2, <2>3, <2>4 DEF CallsOK, IdsOK, IdsDiffer, PendingRequestsWait, NoWaitOnExitedChild,
                            ExitSeen, HeldOK, Held, Waits
<1>4. OwnPipes
  BY DEF Init, Idle, OwnPipes, Waits
<1> QED
  BY <1>1, <1>2, <1>3, <1>4 DEF IInv

-----------------------------------------------------------------------------
(* What can become of the calls: one asks, one is released, some are       *)
(* answered.                                                               *)

LEMMA AskKeeps ==
  ASSUME IInv, NEW t \in Tasks, ~Waits(t), Writable,
         NEW pc \in RequestWaits, NEW on \in ChildIds, NEW command \in {"other", "disconnect"},
         Ask(t, pc, on, command), UNCHANGED <<spawns, exited, stdout>>
  PROVE  PipesOK' /\ CallsOK' /\ OwnPipes' /\ requestSequence' \in Nat
<1> DEFINE id == requestSequence + 1
<1> DEFINE made == [pc |-> pc, on |-> on, to |-> child, id |-> id, answer |-> "none"]
<1> DEFINE request == [id |-> id, command |-> command]
<1> USE DEF IInv
<1>1. /\ requestSequence \in Nat /\ child \in 1..spawns /\ child \in ChildIds
      /\ child \in 0..MaxSpawns /\ child \notin exited
  BY DEF FieldsOK, Writable
<1>2. /\ requestSequence' = id /\ pending' = pending \union {id}
      /\ stdin' = [stdin EXCEPT ![child] = Append(@, request)]
      /\ call' = [call EXCEPT ![t] = made]
  BY DEF Ask
<1>3. call \in [Tasks -> Calls]
  BY DEF CallsOK
<1>4. made \in Calls
  BY <1>1, PcsAre DEF Calls
<1>5. /\ call'[t] = made
      /\ \A u \in Tasks : u # t => call'[u] = call[u]
      /\ call' \in [Tasks -> Calls]
  BY <1>2, <1>3, <1>4
<1>6. Waits(t)' /\ \A u \in Tasks : u # t => (Waits(u)' <=> Waits(u))
  BY <1>5 DEF Waits
<1>7. \A u \in Tasks : Waits(u) => call[u].id \in 1..requestSequence /\ call[u].to \in 1..spawns
  BY DEF CallsOK, IdsOK
<1>8. IdsOK'
  BY <1>1, <1>2, <1>5, <1>6 DEF CallsOK, IdsOK
<1>9. IdsDiffer'
  BY <1>1, <1>5, <1>6, <1>7 DEF CallsOK, IdsDiffer
<1>10. PendingRequestsWait'
  <2>1. \A u \in Tasks : Waits(u)' /\ call'[u].answer = "none" => call'[u].id \in pending'
    BY <1>2, <1>5, <1>6 DEF CallsOK, PendingRequestsWait, Waits
  <2>2. ASSUME NEW i \in pending' PROVE \E u \in Tasks : Waits(u)' /\ call'[u].id = i
    <3>1. CASE i = id
      BY <1>5, <1>6, <3>1
    <3>2. CASE i \in pending
      <4>1. PICK u \in Tasks : Waits(u) /\ call[u].id = i
        BY <3>2 DEF CallsOK, PendingRequestsWait, Waits
      <4>2. u # t
        BY <4>1
      <4> QED
        BY <1>5, <1>6, <4>1, <4>2
    <3> QED
      BY <1>2, <3>1, <3>2
  <2> QED
    BY <2>1, <2>2 DEF PendingRequestsWait, Waits
<1>11. NoWaitOnExitedChild' /\ ExitSeen' /\ HeldOK'
  BY <1>1, <1>5 DEF CallsOK, NoWaitOnExitedChild, ExitSeen, HeldOK
<1>12. request \in Requests(id)
  BY <1>1 DEF Requests
<1>13. \A c \in ChildIds : stdin[c] \in Seq(Requests(id)) /\ stdout[c] \in Seq(Lines(id))
  <2>1. Requests(requestSequence) \subseteq Requests(id) /\ Lines(requestSequence) \subseteq Lines(id)
    BY <1>1 DEF Requests, Lines
  <2> QED
    BY <2>1 DEF PipesOK
<1>14. PipesOK'
  <2>1. Append(stdin[child], request) \in Seq(Requests(id))
    BY <1>1, <1>12, <1>13
  <2>2. stdin' \in [ChildIds -> Seq(Requests(id))]
    BY <1>2, <1>13, <2>1 DEF PipesOK
  <2>3. stdout' \in [ChildIds -> Seq(Lines(id))]
    BY <1>13 DEF PipesOK
  <2> QED
    BY <1>2, <2>2, <2>3 DEF PipesOK
<1>15. OwnPipes'
  <2> SUFFICES ASSUME NEW u \in Tasks, NEW c \in ChildIds, Waits(u)'
               PROVE  /\ \A i \in 1..Len(stdin'[c])  : stdin'[c][i].id = call'[u].id => call'[u].to = c
                      /\ \A i \in 1..Len(stdout'[c]) : stdout'[c][i].id = call'[u].id => call'[u].to = c
    BY DEF OwnPipes
  <2>1. /\ stdin[c] \in Seq(Requests(requestSequence)) /\ stdout[c] \in Seq(Lines(requestSequence))
        /\ stdout' = stdout /\ stdin \in [ChildIds -> Seq(Requests(requestSequence))]
    BY DEF PipesOK
  <2>2. /\ \A i \in 1..Len(stdin[c]) : stdin[c][i].id \in 1..requestSequence
        /\ \A i \in 1..Len(stdout[c]) : stdout[c][i].id \in 0..requestSequence
    <3>1. \A i \in 1..Len(stdin[c]) : stdin[c][i] \in Requests(requestSequence)
      BY <2>1
    <3>2. \A i \in 1..Len(stdout[c]) : stdout[c][i] \in Lines(requestSequence)
      BY <2>1
    <3> QED
      BY <3>1, <3>2 DEF Requests, Lines
  <2>3. \/ c # child /\ stdin'[c] = stdin[c]
        \/ c = child /\ stdin'[c] = Append(stdin[c], request)
    BY <1>2, <2>1
  <2>4. CASE u = t
    <3>1. call'[u].id = id /\ call'[u].to = child
      BY <1>5, <2>4
    <3>2. \A i \in 1..Len(stdout'[c]) : stdout'[c][i].id # id
      BY <1>1, <2>1, <2>2
    <3>3. CASE c = child
      BY <3>1, <3>2, <3>3
    <3>4. CASE c # child
      BY <1>1, <2>2, <2>3, <3>1, <3>2, <3>4
    <3> QED
      BY <3>3, <3>4
  <2>5. CASE u # t
    <3>1. /\ call'[u] = call[u] /\ Waits(u) /\ call[u].id \in 1..requestSequence
      BY <1>5, <1>6, <1>7, <2>5
    <3>2. /\ \A i \in 1..Len(stdin[c])  : stdin[c][i].id = call[u].id => call[u].to = c
          /\ \A i \in 1..Len(stdout[c]) : stdout[c][i].id = call[u].id => call[u].to = c
      BY <3>1 DEF OwnPipes
    <3>3. CASE c # child
      BY <2>1, <2>3, <3>1, <3>2, <3>3
    <3>4. CASE c = child
      <4>1. \A i \in 1..Len(stdin'[c]) : stdin'[c][i] = request \/
                (i \in 1..Len(stdin[c]) /\ stdin'[c][i] = stdin[c][i])
        BY <1>12, <1>13, <2>3, <3>4
      <4>2. request.id # call[u].id
        BY <1>1, <3>1
      <4> QED
        BY <2>1, <3>1, <3>2, <4>1, <4>2
    <3> QED
      BY <3>3, <3>4
  <2> QED
    BY <2>4, <2>5
<1> QED
  BY <1>1, <1>2, <1>5, <1>8, <1>9, <1>10, <1>11, <1>14, <1>15 DEF CallsOK

\* A call that was answered goes on, or one that had not asked.
LEMMA ReleaseKeeps ==
  ASSUME IInv, NEW t \in Tasks, NEW r \in Calls,
         r.pc \notin RequestWaits, r.id = 0, r.pc \in ExitWaits => r.answer # "ok",
         r.pc \in Held => r.on \in ChildIds,
         call' = [call EXCEPT ![t] = r], pending' = pending \ {call[t].id},
         spawns' \in Nat, spawns <= spawns', UNCHANGED <<requestSequence, stdin, stdout>>,
         exited \subseteq exited', \A c \in 1..spawns : c \in exited' => c \in exited
  PROVE  PipesOK' /\ CallsOK' /\ OwnPipes'
<1> USE DEF IInv
<1>1. /\ call'[t] = r
      /\ \A u \in Tasks : u # t => call'[u] = call[u]
      /\ call' \in [Tasks -> Calls]
  BY DEF CallsOK
<1>2. ~Waits(t)' /\ \A u \in Tasks : u # t => (Waits(u)' <=> Waits(u))
  BY <1>1 DEF Waits
<1>3. \A u \in Tasks : IF Waits(u) THEN call[u].id \in 1..requestSequence /\ call[u].to \in 1..spawns
                                   ELSE call[u].id = 0
  BY DEF CallsOK, IdsOK
<1>4. requestSequence \in Nat /\ spawns \in Nat
  BY DEF FieldsOK
<1>5. IdsOK' /\ IdsDiffer'
  BY <1>1, <1>2, <1>3, <1>4 DEF CallsOK, IdsOK, IdsDiffer
<1>6. \A u \in Tasks : u # t /\ Waits(u) => call[u].id # call[t].id
  BY <1>3, <1>4 DEF CallsOK, IdsDiffer
<1>7. PendingRequestsWait'
  <2>1. \A u \in Tasks : Waits(u)' /\ call'[u].answer = "none" => call'[u].id \in pending'
    BY <1>1, <1>2, <1>6 DEF CallsOK, PendingRequestsWait, Waits
  <2>2. ASSUME NEW i \in pending' PROVE \E u \in Tasks : Waits(u)' /\ call'[u].id = i
    <3>1. PICK u \in Tasks : Waits(u) /\ call[u].id = i
      BY DEF CallsOK, PendingRequestsWait, Waits
    <3>2. u # t
      BY <3>1
    <3> QED
      BY <1>1, <1>2, <3>1, <3>2
  <2> QED
    BY <2>1, <2>2 DEF PendingRequestsWait, Waits
<1>8. NoWaitOnExitedChild'
  <2> SUFFICES ASSUME NEW u \in Tasks, Waits(u)', call'[u].answer = "none"
               PROVE  call'[u].to \notin exited'
    BY DEF NoWaitOnExitedChild, Waits
  <2>1. u # t /\ Waits(u) /\ call'[u] = call[u] /\ call[u].to \in 1..spawns
    BY <1>1, <1>2, <1>3
  <2>2. call[u].to \notin exited
    BY <2>1 DEF CallsOK, NoWaitOnExitedChild, Waits
  <2> QED
    BY <2>1, <2>2
<1>9. ExitSeen' /\ HeldOK'
  BY <1>1 DEF CallsOK, ExitSeen, HeldOK
<1>10. OwnPipes'
  BY <1>1, <1>2 DEF OwnPipes
<1>11. PipesOK'
  BY DEF PipesOK
<1> QED
  BY <1>1, <1>5, <1>7, <1>8, <1>9, <1>10, <1>11 DEF CallsOK

LEMMA AnswersAre ==
  ASSUME call \in [Tasks -> Calls], NEW ok, NEW failed, Answer(ok, failed)
  PROVE  /\ call' \in [Tasks -> Calls]
         /\ \A t \in Tasks : /\ call'[t].pc = call[t].pc /\ call'[t].on = call[t].on
                             /\ call'[t].to = call[t].to /\ call'[t].id = call[t].id
                             /\ call'[t].answer =
                                  IF t \in ok THEN "ok" ELSE IF t \in failed THEN "failed"
                                  ELSE call[t].answer
                             /\ Waits(t)' <=> Waits(t)
<1> SUFFICES ASSUME NEW t \in Tasks
             PROVE  /\ call'[t] \in Calls
                    /\ call'[t].pc = call[t].pc /\ call'[t].on = call[t].on
                    /\ call'[t].to = call[t].to /\ call'[t].id = call[t].id
                    /\ call'[t].answer =
                         IF t \in ok THEN "ok" ELSE IF t \in failed THEN "failed"
                         ELSE call[t].answer
                    /\ Waits(t)' <=> Waits(t)
  BY DEF Answer
<1>1. call'[t] = IF t \in ok THEN [call[t] EXCEPT !.answer = "ok"]
                 ELSE IF t \in failed THEN [call[t] EXCEPT !.answer = "failed"]
                 ELSE call[t]
  BY DEF Answer
<1>2. call[t] \in Calls
  OBVIOUS
<1> QED
  BY <1>1, <1>2 DEF Calls, Waits

\* Answers alone; those to an exit wait come with the exit.
LEMMA AnswerKeeps ==
  ASSUME IInv, NEW ok \in SUBSET Tasks, NEW failed \in SUBSET Tasks, Answer(ok, failed),
         \A t \in ok : call[t].pc \in ExitWaits => call[t].on \in exited',
         UNCHANGED <<requestSequence, pending, spawns, exited>>
  PROVE  CallsOK'
<1> USE DEF IInv
<1>1. call \in [Tasks -> Calls]
  BY DEF CallsOK
<1>2. IdsOK' /\ IdsDiffer'
  BY <1>1, AnswersAre DEF CallsOK, IdsOK, IdsDiffer
<1>3. PendingRequestsWait'
  <2>1. \A u \in Tasks : Waits(u)' /\ call'[u].answer = "none" =>
          /\ Waits(u) /\ call[u].answer = "none" /\ call'[u].id = call[u].id /\ call'[u].to = call[u].to
    BY <1>1, AnswersAre
  <2>2. \A u \in Tasks : Waits(u)' /\ call'[u].answer = "none" => call'[u].id \in pending'
    BY <2>1 DEF CallsOK, PendingRequestsWait, Waits
  <2>3. \A i \in pending' : \E u \in Tasks : Waits(u)' /\ call'[u].id = i
    BY <1>1, AnswersAre DEF CallsOK, PendingRequestsWait, Waits
  <2> QED
    BY <2>2, <2>3 DEF PendingRequestsWait, Waits
<1>4. NoWaitOnExitedChild'
  BY <1>1, AnswersAre DEF CallsOK, NoWaitOnExitedChild
<1>5. ExitSeen' /\ HeldOK'
  BY <1>1, AnswersAre DEF CallsOK, ExitSeen, HeldOK
<1> QED
  BY <1>1, <1>2, <1>3, <1>4, <1>5, AnswersAre DEF CallsOK

\* The pipes change, the requests that wait do not.
LEMMA PipesKeep ==
  ASSUME IInv, call' \in [Tasks -> Calls],
         \A t \in Tasks : (Waits(t)' <=> Waits(t)) /\ call'[t].id = call[t].id /\ call'[t].to = call[t].to,
         NEW c \in ChildIds,
         NEW read \in Seq(Requests(requestSequence)), NEW lines \in Seq(Lines(requestSequence)),
         stdin' = [stdin EXCEPT ![c] = read], stdout' = [stdout EXCEPT ![c] = lines],
         requestSequence' = requestSequence,
         \A i \in 1..Len(read) : \E j \in 1..Len(stdin[c]) : read[i].id = stdin[c][j].id,
         \A i \in 1..Len(lines) :
           \/ lines[i].id = 0
           \/ \E j \in 1..Len(stdin[c]) : lines[i].id = stdin[c][j].id
           \/ \E j \in 1..Len(stdout[c]) : lines[i].id = stdout[c][j].id
  PROVE  PipesOK' /\ OwnPipes'
<1> USE DEF IInv
<1>1. PipesOK'
  BY DEF PipesOK
<1>2. OwnPipes'
  <2> SUFFICES ASSUME NEW u \in Tasks, NEW d \in ChildIds, Waits(u)'
               PROVE  /\ \A i \in 1..Len(stdin'[d])  : stdin'[d][i].id = call'[u].id => call'[u].to = d
                      /\ \A i \in 1..Len(stdout'[d]) : stdout'[d][i].id = call'[u].id => call'[u].to = d
    BY DEF OwnPipes
  <2>1. Waits(u) /\ call'[u].id = call[u].id /\ call'[u].to = call[u].to /\ call[u].id # 0
    BY DEF CallsOK, IdsOK
  <2>2. /\ \A i \in 1..Len(stdin[d])  : stdin[d][i].id = call[u].id => call[u].to = d
        /\ \A i \in 1..Len(stdout[d]) : stdout[d][i].id = call[u].id => call[u].to = d
    BY <2>1 DEF OwnPipes
  <2>3. CASE d # c
    BY <2>1, <2>2, <2>3 DEF PipesOK
  <2>4. CASE d = c
    <3>1. stdin'[c] = read /\ stdout'[c] = lines
      BY DEF PipesOK
    <3> QED
      BY <2>1, <2>2, <2>4, <3>1
  <2> QED
    BY <2>3, <2>4
<1> QED
  BY <1>1, <1>2

LEMMA FieldsKeep ==
  ASSUME FieldsOK, isConnected' \in BOOLEAN, expectedExit' \in BOOLEAN,
         child' \in {child, 0}, spawns' = spawns, requestSequence' \in Nat,
         proc' \in [ChildIds -> ProcStates], exited' \subseteq ChildIds, killed' \subseteq ChildIds
  PROVE  FieldsOK'
<1>1. child' \in 0..spawns' /\ spawns' \in 0..MaxSpawns
  BY DEF FieldsOK
<1> QED
  BY <1>1 DEF FieldsOK

LEMMA FrameKeeps ==
  ASSUME IInv, UNCHANGED <<call, pending, requestSequence, spawns, exited>>
  PROVE  CallsOK'
BY DEF IInv, CallsOK, IdsOK, IdsDiffer, PendingRequestsWait, NoWaitOnExitedChild, ExitSeen,
       HeldOK, Waits

LEMMA AnswersLeavePipes ==
  ASSUME IInv, NEW ok, NEW failed, Answer(ok, failed), UNCHANGED <<stdin, stdout, requestSequence>>
  PROVE  PipesOK' /\ OwnPipes'
BY AnswersAre DEF IInv, CallsOK, PipesOK, OwnPipes

-----------------------------------------------------------------------------
(* The actions *)

LEMMA BeginKeeps ==
  ASSUME IInv, NEW t \in Tasks, Begin(t)
  PROVE  IInv'
<1> USE DEF IInv
<1>1. ~Waits(t) /\ call[t].pc = "idle" /\ call[t].id = 0 /\ call[t] \in Calls
  BY DEF Begin, BeginRequest, BeginConnect, BeginDisconnect, Waits, CallsOK, IdsOK
<1>2. Writable => child \in ChildIds
  BY DEF Writable, FieldsOK
<1>3. CASE BeginRequest(t)
  <2>1. PipesOK' /\ CallsOK' /\ OwnPipes' /\ requestSequence' \in Nat
    BY <1>1, <1>2, <1>3, AskKeeps DEF BeginRequest
  <2>2. FieldsOK'
    BY <1>3, <2>1, FieldsKeep DEF BeginRequest, FieldsOK
  <2> QED
    BY <2>1, <2>2
<1>4. CASE BeginConnect(t)
  <2> DEFINE r == [call[t] EXCEPT !.pc = "checking"]
  <2>1. /\ r \in Calls /\ r.pc = "checking" /\ r.id = 0
        /\ call' = [call EXCEPT ![t] = r] /\ UNCHANGED <<clientVars, procVars>>
    BY <1>1, <1>4, PcsAre DEF BeginConnect, Calls, CallsOK
  <2>2. pending' = pending \ {call[t].id}
    BY <1>1, <2>1 DEF clientVars, CallsOK, PendingRequestsWait, IdsOK, Waits, FieldsOK
  <2>3. PipesOK' /\ CallsOK' /\ OwnPipes'
    <3>1. /\ r.pc \notin RequestWaits /\ (r.pc \in ExitWaits => r.answer # "ok")
          /\ (r.pc \in Held => r.on \in ChildIds)
      BY <2>1 DEF Held
    <3>2. /\ spawns' \in Nat /\ spawns <= spawns' /\ exited' = exited
          /\ UNCHANGED <<requestSequence, stdin, stdout>>
      BY <2>1 DEF clientVars, procVars, FieldsOK
    <3> HIDE DEF r, IInv
    <3> QED
      BY <2>1, <2>2, <3>1, <3>2, ReleaseKeeps
  <2>4. FieldsOK'
    BY <2>1, FieldsKeep DEF clientVars, procVars, FieldsOK
  <2> QED
    BY <2>3, <2>4
<1>5. CASE BeginDisconnect(t)
  <2>1. child \in ChildIds /\ UNCHANGED <<child, spawns, proc, exited, stdout>>
    BY <1>5 DEF BeginDisconnect, FieldsOK
  <2>2. CASE Writable /\ Ask(t, "disconnecting", child, "disconnect") /\ UNCHANGED <<isConnected, killed>>
    <3>1. PipesOK' /\ CallsOK' /\ OwnPipes' /\ requestSequence' \in Nat
      BY <1>1, <2>1, <2>2, AskKeeps
    <3>2. FieldsOK'
      BY <1>5, <2>1, <2>2, <3>1, FieldsKeep DEF BeginDisconnect, FieldsOK
    <3> QED
      BY <3>1, <3>2
  <2>3. CASE /\ killed' = killed \union {child} /\ isConnected' = FALSE
             /\ UNCHANGED <<requestSequence, pending, stdin, call>>
    <3>1. killed' \subseteq ChildIds /\ isConnected' \in BOOLEAN /\ expectedExit' \in BOOLEAN
      BY <1>5, <2>1, <2>3 DEF BeginDisconnect, FieldsOK
    <3>2. FieldsOK'
      BY <2>1, <2>3, <3>1, FieldsKeep DEF FieldsOK
    <3>3. PipesOK' /\ OwnPipes'
      BY <2>1, <2>3 DEF PipesOK, OwnPipes, Waits
    <3> QED
      BY <2>1, <2>3, <3>2, <3>3, FrameKeeps
  <2> QED
    BY <1>5, <2>2, <2>3 DEF BeginDisconnect
<1> QED
  BY <1>3, <1>4, <1>5 DEF Begin

LEMMA CheckedKeeps ==
  ASSUME IInv, NEW t \in Tasks, Checked(t)
  PROVE  IInv'
<1> USE DEF IInv
<1>1. ~Waits(t) /\ call[t].pc = "checking" /\ call[t].id = 0 /\ call[t] \in Calls
  BY DEF Checked, BinaryMissing, Spawn, Waits, CallsOK, IdsOK
<1>2. call[t].answer = "none"
  BY DEF Checked, BinaryMissing, Spawn, Quiet
<1>3. pending = pending \ {call[t].id}
  BY <1>1 DEF CallsOK, PendingRequestsWait, IdsOK, Waits, FieldsOK
<1>4. CASE BinaryMissing(t)
  <2>1. Idle \in Calls /\ Idle.pc = "idle" /\ Idle.id = 0
    BY PcsAre DEF Idle, Calls
  <2>2. call' = [call EXCEPT ![t] = Idle] /\ UNCHANGED <<clientVars, procVars>>
    BY <1>4 DEF BinaryMissing, Return
  <2>3. PipesOK' /\ CallsOK' /\ OwnPipes'
    <3>1. /\ spawns' \in Nat /\ spawns <= spawns' /\ exited' = exited
          /\ UNCHANGED <<requestSequence, stdin, stdout>>
      BY <2>2 DEF clientVars, procVars, FieldsOK
    <3>2. pending' = pending \ {call[t].id} /\ Idle.pc \notin Held \union RequestWaits
      BY <1>3, <2>1, <2>2 DEF clientVars, Held
    <3> HIDE DEF IInv
    <3> QED
      BY <2>1, <2>2, <3>1, <3>2, ReleaseKeeps DEF Held
  <2>4. FieldsOK'
    BY <2>2, FieldsKeep DEF clientVars, procVars, FieldsOK
  <2> QED
    BY <2>3, <2>4
<1>5. CASE Spawn(t)
  <2> DEFINE c == spawns + 1
  <2>1. /\ c \in ChildIds /\ c \in Nat /\ spawns \in Nat /\ c \notin 1..spawns
        /\ spawns' = c /\ child' = c /\ expectedExit' = FALSE
        /\ UNCHANGED <<isConnected, requestSequence, pending, killed, stdin, stdout>>
    BY <1>5 DEF Spawn, FieldsOK
  <2>2. PICK a \in {"none", "failed"} :
          /\ call' = [call EXCEPT ![t] = [call[t] EXCEPT !.pc = "joining", !.on = c, !.answer = a]]
          /\ exited' \in {exited, exited \union {c}}
          /\ proc' \in {[proc EXCEPT ![c] = "joining"], [proc EXCEPT ![c] = "over"]}
    <3>1. CASE /\ proc' = [proc EXCEPT ![c] = "joining"] /\ exited' = exited
               /\ call' = [call EXCEPT ![t].pc = "joining", ![t].on = c]
      <4>1. call' = [call EXCEPT ![t] = [call[t] EXCEPT !.pc = "joining", !.on = c, !.answer = "none"]]
        BY <1>1, <1>2, <3>1 DEF CallsOK, Calls
      <4> QED
        BY <3>1, <4>1
    <3>2. CASE /\ proc' = [proc EXCEPT ![c] = "over"] /\ exited' = exited \union {c}
               /\ call' = [call EXCEPT ![t].pc = "joining", ![t].on = c, ![t].answer = "failed"]
      <4>1. call' = [call EXCEPT ![t] = [call[t] EXCEPT !.pc = "joining", !.on = c, !.answer = "failed"]]
        BY <1>1, <3>2 DEF CallsOK, Calls
      <4> QED
        BY <3>2, <4>1
    <3> QED
      BY <1>5, <3>1, <3>2 DEF Spawn
  <2> DEFINE r == [call[t] EXCEPT !.pc = "joining", !.on = c, !.answer = a]
  <2>3. r \in Calls /\ r.pc = "joining" /\ r.id = 0 /\ r.on = c
    <3>1. c \in 0..MaxSpawns /\ "joining" \in Pcs /\ a \in {"none", "ok", "failed"}
      BY <2>1, <2>2, PcsAre
    <3> HIDE DEF c, IInv
    <3> QED
      BY <1>1, <3>1 DEF Calls
  <2>4. /\ r.pc \notin RequestWaits /\ (r.pc \in ExitWaits => r.answer # "ok")
        /\ (r.pc \in Held => r.on \in ChildIds)
    BY <2>1, <2>3
  <2>5. exited \subseteq exited' /\ \A d \in 1..spawns : d \in exited' => d \in exited
    BY <2>1, <2>2
  <2>6. spawns <= spawns' /\ spawns' \in Nat /\ pending' = pending \ {call[t].id}
    BY <1>3, <2>1
  <2>7. PipesOK' /\ CallsOK' /\ OwnPipes'
    <3> HIDE DEF r, c, IInv
    <3> QED
      BY <2>1, <2>2, <2>3, <2>4, <2>5, <2>6, ReleaseKeeps DEF r, c
  <2>8. FieldsOK'
    <3>1. proc' \in [ChildIds -> ProcStates] /\ exited' \subseteq ChildIds /\ killed' \subseteq ChildIds
      BY <2>1, <2>2 DEF FieldsOK, ProcStates
    <3>2. isConnected' \in BOOLEAN /\ expectedExit' \in BOOLEAN
      BY <2>1 DEF FieldsOK
    <3>3. child' \in 0..spawns' /\ spawns' \in 0..MaxSpawns /\ requestSequence' \in Nat
      BY <2>1 DEF FieldsOK
    <3> QED
      BY <3>1, <3>2, <3>3 DEF FieldsOK
  <2> QED
    BY <2>7, <2>8
<1> QED
  BY <1>4, <1>5 DEF Checked

Released(t) ==
  \E r \in Calls :
    /\ call' = [call EXCEPT ![t] = r]
    /\ r.pc \notin RequestWaits /\ r.id = 0 /\ (r.pc \in ExitWaits => r.answer # "ok")
    /\ (r.pc \in Held => r.on \in ChildIds)

LEMMA ReleasedKeeps ==
  ASSUME IInv, NEW t \in Tasks, Released(t), pending' = pending \ {call[t].id},
         UNCHANGED <<spawns, exited, requestSequence, stdin, stdout>>
  PROVE  PipesOK' /\ CallsOK' /\ OwnPipes'
<1>1. spawns' \in Nat /\ spawns <= spawns'
  BY DEF IInv, FieldsOK
<1> QED
  BY <1>1, ReleaseKeeps DEF Released

LEMMA ReturnReleases ==
  ASSUME NEW t \in Tasks, Return(t)
  PROVE  Released(t)
<1>1. Idle \in Calls /\ Idle.pc \notin Held \union RequestWaits /\ Idle.id = 0
  BY PcsAre DEF Idle, Calls, Held
<1> QED
  BY <1>1 DEF Return, Released, Held

LEMMA AwaitReleases ==
  ASSUME NEW t \in Tasks, call[t].on \in ChildIds, NEW pc \in ExitWaits, AwaitExit(t, pc)
  PROVE  Released(t)
<1> DEFINE r == [Idle EXCEPT !.pc = pc, !.on = call[t].on]
<1>1. r \in Calls /\ r.pc = pc /\ r.on = call[t].on /\ r.id = 0 /\ r.answer = "none"
  <2>1. Idle \in Calls /\ pc \in Pcs /\ call[t].on \in 0..MaxSpawns
    BY PcsAre DEF Idle, Calls
  <2>2. r \in Calls /\ r.pc = pc /\ r.on = call[t].on /\ r.id = Idle.id /\ r.answer = Idle.answer
    BY <2>1 DEF Calls
  <2> QED
    BY <2>2 DEF Idle
<1>2. CASE call' = [call EXCEPT ![t] = Idle]
  BY <1>2, ReturnReleases DEF Return
<1>3. CASE call' = [call EXCEPT ![t] = r]
  BY <1>1, <1>3 DEF Released
<1> QED
  BY <1>2, <1>3 DEF AwaitExit

LEMMA NothingPending ==
  ASSUME IInv, NEW t \in Tasks, ~Waits(t)
  PROVE  pending = pending \ {call[t].id}
BY DEF IInv, CallsOK, PendingRequestsWait, IdsOK, Waits, FieldsOK

LEMMA ResumeKeeps ==
  ASSUME IInv, NEW t \in Tasks, Resume(t)
  PROVE  IInv'
<1> USE DEF IInv
<1>1. call[t].pc \in Held => call[t].on \in ChildIds
  BY DEF CallsOK, HeldOK
<1>2. ASSUME Released(t), pending' = pending \ {call[t].id},
             UNCHANGED <<child, requestSequence, spawns, proc, exited, stdin, stdout>>,
             isConnected' \in BOOLEAN, expectedExit' \in BOOLEAN,
             killed' \in {killed, killed \union {call[t].on}}, call[t].pc \in Held \/ killed' = killed
      PROVE  IInv'
  <2>1. killed' \subseteq ChildIds
    BY <1>1, <1>2 DEF FieldsOK
  <2>2. FieldsOK'
    BY <1>2, <2>1, FieldsKeep DEF FieldsOK
  <2> QED
    BY <1>2, <2>2, ReleasedKeeps
<1>3. CASE Joined(t)
  <2>1. /\ call[t].pc = "joining" /\ call[t].on \in ChildIds /\ ~Waits(t)
        /\ pending = pending \ {call[t].id}
        /\ UNCHANGED <<spawns, proc, exited, stdout>>
    BY <1>1, <1>3, NothingPending DEF Joined, Answered, Held, Waits
  <2>2. CASE Return(t) /\ UNCHANGED <<clientVars, stdin, killed>>
    BY <1>2, <2>1, <2>2, ReturnReleases DEF clientVars, FieldsOK
  <2>3. CASE Writable /\ Ask(t, "negotiating", call[t].on, "other")
             /\ UNCHANGED <<child, isConnected, expectedExit, killed>>
    <3>1. PipesOK' /\ CallsOK' /\ OwnPipes' /\ requestSequence' \in Nat
      BY <2>1, <2>3, AskKeeps
    <3>2. FieldsOK'
      BY <2>1, <2>3, <3>1, FieldsKeep DEF FieldsOK
    <3> QED
      BY <3>1, <3>2
  <2>4. CASE /\ expectedExit' = TRUE /\ Kill(t) /\ AwaitExit(t, "cleaning")
             /\ UNCHANGED <<child, isConnected, requestSequence, pending, stdin>>
    BY <1>2, <2>1, <2>4, AwaitReleases DEF FieldsOK, Kill, Held
  <2> QED
    BY <1>3, <2>2, <2>3, <2>4 DEF Joined
<1>4. CASE ConnectFails(t)
  <2>1. call[t].pc \in Held
    BY <1>4 DEF ConnectFails, Answered, Held
  <2> QED
    BY <1>1, <1>2, <1>4, <2>1, AwaitReleases DEF ConnectFails, Kill, Forget, FieldsOK
<1>5. CASE RequestReturns(t)
  BY <1>2, <1>5, ReturnReleases DEF RequestReturns, Forget, FieldsOK, procVars
<1>6. CASE DisconnectAnswered(t)
  <2>1. call[t].pc \in Held
    BY <1>6 DEF DisconnectAnswered, Held
  <2>2. killed' \in {killed, killed \union {call[t].on}} /\ isConnected' \in BOOLEAN
    BY <1>6 DEF DisconnectAnswered, Kill
  <2> QED
    BY <1>1, <1>2, <1>6, <2>1, <2>2, AwaitReleases DEF DisconnectAnswered, Forget, FieldsOK
<1>7. CASE ExitWaitEnds(t)
  <2>1. call[t].pc \in Held /\ ~Waits(t)
    BY <1>7 DEF ExitWaitEnds, Held, Waits
  <2>2. killed' \in {killed, killed \union {call[t].on}} /\ isConnected' \in BOOLEAN
    BY <1>7 DEF ExitWaitEnds, Kill
  <2> QED
    BY <1>2, <1>7, <2>1, <2>2, ReturnReleases, NothingPending DEF ExitWaitEnds, FieldsOK
<1> QED
  BY <1>3, <1>4, <1>5, <1>6, <1>7 DEF Resume

LEMMA TimesOutKeeps ==
  ASSUME IInv, NEW t \in Tasks, TimesOut(t)
  PROVE  IInv'
<1>1. /\ Answer({}, {t}) /\ UNCHANGED <<stdin, stdout, requestSequence>>
      /\ UNCHANGED <<requestSequence, pending, spawns, exited>>
  BY DEF TimesOut, clientVars, procVars
<1>2. CallsOK'
  BY <1>1, AnswerKeeps
<1>3. FieldsOK'
  BY FieldsKeep DEF TimesOut, clientVars, procVars, IInv, FieldsOK
<1> QED
  BY <1>1, <1>2, <1>3, AnswersLeavePipes DEF IInv

LEMMA ExitKeeps ==
  ASSUME IInv, NEW c \in ChildIds, Exit(c)
  PROVE  IInv'
<1> USE DEF IInv
<1>1. PICK failed : Answer(Closing(c), failed) /\ Asking(pending) \subseteq failed
  BY DEF Exit
<1>2. /\ exited' = exited \union {c} /\ pending' = {} /\ isConnected' = FALSE
      /\ child' \in {child, 0}
      /\ UNCHANGED <<expectedExit, requestSequence, spawns, proc, killed, stdin, stdout>>
  BY DEF Exit
<1>3. call \in [Tasks -> Calls]
  BY DEF CallsOK
<1>4. \A u \in Tasks : Waits(u) => call'[u].answer # "none"
  <2> SUFFICES ASSUME NEW u \in Tasks, Waits(u) PROVE call'[u].answer # "none"
    OBVIOUS
  <2>1. CASE call[u].answer = "none"
    <3>1. u \in failed
      BY <1>1, <2>1 DEF CallsOK, PendingRequestsWait, Asking, Waits
    <3> QED
      BY <1>1, <1>3, <3>1, AnswersAre
  <2>2. CASE call[u].answer # "none"
    BY <1>1, <1>3, <2>2, AnswersAre
  <2> QED
    BY <2>1, <2>2
<1>5. IdsOK' /\ IdsDiffer'
  BY <1>1, <1>2, <1>3, AnswersAre DEF CallsOK, IdsOK, IdsDiffer
<1>6. PendingRequestsWait' /\ NoWaitOnExitedChild'
  BY <1>1, <1>2, <1>3, <1>4, AnswersAre DEF PendingRequestsWait, NoWaitOnExitedChild, Waits
<1>7. ExitSeen'
  <2> SUFFICES ASSUME NEW u \in Tasks, call'[u].pc \in ExitWaits, call'[u].answer = "ok"
               PROVE  call'[u].on \in exited'
    BY DEF ExitSeen
  <2>1. CASE u \in Closing(c)
    BY <1>1, <1>2, <1>3, <2>1, AnswersAre DEF Closing
  <2>2. CASE u \notin Closing(c)
    BY <1>1, <1>2, <1>3, <2>2, AnswersAre DEF CallsOK, ExitSeen
  <2> QED
    BY <2>1, <2>2
<1>8. HeldOK'
  BY <1>1, <1>3, AnswersAre DEF CallsOK, HeldOK
<1>9. CallsOK'
  BY <1>1, <1>3, <1>5, <1>6, <1>7, <1>8, AnswersAre DEF CallsOK
<1>10. PipesOK' /\ OwnPipes'
  BY <1>1, <1>2, AnswersLeavePipes
<1>11. FieldsOK'
  BY <1>2, FieldsKeep DEF FieldsOK
<1> QED
  BY <1>9, <1>10, <1>11

\* Whom a line answers: a request by its id, whatever child was asked; or a
\* connect() that waits for the child's first words.
LEMMA LineAnswers ==
  ASSUME IInv, NEW c \in ChildIds, ReadLine(c)
  PROVE  \E ok \in SUBSET Tasks, failed \in SUBSET Tasks :
           /\ Answer(ok, failed)
           /\ \A t \in ok : IF Waits(t) THEN call[t].id = Head(stdout[c]).id
                                       ELSE call[t].pc = "joining"
<1> DEFINE line == Head(stdout[c])
<1>1. line.kind \in LineKinds
  <2>1. stdout[c] # <<>>
    BY DEF ReadLine
  <2>2. stdout[c] \in Seq(Lines(requestSequence))
    BY DEF IInv, PipesOK
  <2>3. line \in Lines(requestSequence)
    BY <2>1, <2>2
  <2> QED
    BY <2>3 DEF Lines
<1>2. /\ Joining(c) \subseteq Tasks /\ \A t \in Joining(c) : call[t].pc = "joining" /\ ~Waits(t)
      /\ \A ids : Asking(ids) \subseteq Tasks /\ \A t \in Asking(ids) : Waits(t) /\ call[t].id \in ids
  BY DEF Joining, Asking, Waits
<1>3. CASE line.kind = "ok"
  <2>1. Answer(Asking({line.id} \intersect pending), {})
    BY <1>3 DEF ReadLine
  <2> QED
    BY <1>2, <2>1
<1>4. CASE line.kind = "error-response"
  <2>1. Answer({}, Asking({line.id} \intersect pending))
    BY <1>4 DEF ReadLine
  <2> QED
    BY <1>2, <2>1
<1>5. CASE line.kind = "spawn"
  <2>1. Answer(Joining(c), {})
    BY <1>5 DEF ReadLine
  <2> QED
    BY <1>2, <2>1
<1>6. CASE line.kind \in {"end", "error"}
  <2>1. Answer({}, IF isConnected THEN {} ELSE Joining(c))
    BY <1>6 DEF ReadLine
  <2> QED
    BY <1>2, <2>1
<1>7. CASE line.kind = "fatal"
  <2>1. Answer({}, Joining(c) \union Asking(pending))
    BY <1>7 DEF ReadLine
  <2> QED
    BY <1>2, <2>1
<1>8. CASE line.kind = "garbled"
  <2>1. Answer({}, Joining(c))
    BY <1>8 DEF ReadLine
  <2> QED
    BY <1>2, <2>1
<1> QED
  BY <1>1, <1>3, <1>4, <1>5, <1>6, <1>7, <1>8 DEF LineKinds

LEMMA ReadLineKeeps ==
  ASSUME IInv, NEW c \in ChildIds, ReadLine(c)
  PROVE  IInv'
<1> USE DEF IInv
<1>1. PICK ok \in SUBSET Tasks, failed \in SUBSET Tasks :
        /\ Answer(ok, failed)
        /\ \A t \in ok : IF Waits(t) THEN call[t].id = Head(stdout[c]).id
                                    ELSE call[t].pc = "joining"
  BY LineAnswers
<1>2. /\ stdout[c] # <<>> /\ stdout' = [stdout EXCEPT ![c] = Tail(@)]
      /\ UNCHANGED <<child, expectedExit, requestSequence, pending, spawns, proc, exited, killed,
                     stdin>>
  BY DEF ReadLine
<1>3. call \in [Tasks -> Calls]
  BY DEF CallsOK
<1>4. CallsOK'
  BY <1>1, <1>2, AnswerKeeps DEF Waits
<1>5. isConnected' \in BOOLEAN
  <2>1. isConnected' \in {TRUE, FALSE, isConnected}
    BY DEF ReadLine
  <2> QED
    BY <2>1 DEF FieldsOK
<1>6. FieldsOK'
  BY <1>2, <1>5, FieldsKeep DEF FieldsOK
<1>7. PipesOK' /\ OwnPipes'
  <2> DEFINE lines == Tail(stdout[c])
  <2>1. stdout[c] \in Seq(Lines(requestSequence)) /\ stdin[c] \in Seq(Requests(requestSequence))
    BY DEF PipesOK
  <2>2. lines \in Seq(Lines(requestSequence))
    BY <1>2, <2>1
  <2>3. \A i \in 1..Len(lines) : i + 1 \in 1..Len(stdout[c]) /\ lines[i] = stdout[c][i + 1]
    BY <1>2, <2>1
  <2>4. stdin' = [stdin EXCEPT ![c] = stdin[c]]
    BY <1>2 DEF PipesOK
  <2>5. /\ call' \in [Tasks -> Calls]
        /\ \A t \in Tasks : (Waits(t)' <=> Waits(t)) /\ call'[t].id = call[t].id /\ call'[t].to = call[t].to
    BY <1>1, <1>3, AnswersAre
  <2>6. stdout' = [stdout EXCEPT ![c] = lines] /\ requestSequence' = requestSequence
    BY <1>2
  <2>7. \A i \in 1..Len(stdin[c]) : \E j \in 1..Len(stdin[c]) : stdin[c][i].id = stdin[c][j].id
    OBVIOUS
  <2>8. \A i \in 1..Len(lines) :
           \/ lines[i].id = 0
           \/ \E j \in 1..Len(stdin[c]) : lines[i].id = stdin[c][j].id
           \/ \E j \in 1..Len(stdout[c]) : lines[i].id = stdout[c][j].id
    BY <2>3
  <2> HIDE DEF lines, IInv
  <2> QED
    BY <2>1, <2>2, <2>4, <2>5, <2>6, <2>7, <2>8, PipesKeep
<1> QED
  BY <1>4, <1>6, <1>7

\* A step of main.rs: it reads from its stdin, and prints at most one line.
LEMMA ProcessKeeps ==
  ASSUME IInv, NEW c \in ChildIds, ServerEvent(c) \/ Execute(c) \/ Die(c)
  PROVE  IInv'
<1> USE DEF IInv
<1>1. /\ UNCHANGED <<clientVars, call, spawns, exited, killed>>
      /\ proc' \in [ChildIds -> ProcStates]
  BY DEF ServerEvent, Execute, Die, Become, FieldsOK, ProcStates
<1>2. stdout[c] \in Seq(Lines(requestSequence)) /\ stdin[c] \in Seq(Requests(requestSequence))
  BY DEF PipesOK
<1>3. FieldsOK'
  BY <1>1, FieldsKeep DEF clientVars, FieldsOK
<1>4. CallsOK'
  BY <1>1, FrameKeeps DEF clientVars
<1>5. call \in [Tasks -> Calls] /\ requestSequence \in Nat
  BY DEF CallsOK, FieldsOK
<1>6. ASSUME NEW read \in {stdin[c], Tail(stdin[c])}, stdin[c] # <<>> \/ read = stdin[c],
             stdin' = [stdin EXCEPT ![c] = read],
             NEW line \in Lines(requestSequence), stdout' = [stdout EXCEPT ![c] = Append(@, line)],
             line.id = 0 \/ (stdin[c] # <<>> /\ line.id = stdin[c][1].id)
      PROVE  PipesOK' /\ OwnPipes'
  <2> DEFINE lines == Append(stdout[c], line)
  <2>1. read \in Seq(Requests(requestSequence)) /\ lines \in Seq(Lines(requestSequence))
    <3>1. stdin[c] # <<>> => Tail(stdin[c]) \in Seq(Requests(requestSequence))
      BY <1>2
    <3>2. read \in Seq(Requests(requestSequence))
      BY <1>2, <1>6, <3>1
    <3>3. lines \in Seq(Lines(requestSequence))
      BY <1>2, <1>6
    <3> QED
      BY <3>2, <3>3
  <2>2. \A i \in 1..Len(read) : \E j \in 1..Len(stdin[c]) : read[i].id = stdin[c][j].id
    <3>1. CASE read = stdin[c]
      BY <3>1
    <3>2. CASE read = Tail(stdin[c]) /\ stdin[c] # <<>>
      <4>1. \A i \in 1..Len(read) : i + 1 \in 1..Len(stdin[c]) /\ read[i] = stdin[c][i + 1]
        BY <1>2, <3>2
      <4> QED
        BY <4>1
    <3> QED
      BY <1>6, <3>1, <3>2
  <2>3. \A i \in 1..Len(lines) : lines[i] = line \/ (i \in 1..Len(stdout[c]) /\ lines[i] = stdout[c][i])
    BY <1>2
  <2>4. stdin[c] # <<>> => 1 \in 1..Len(stdin[c])
    BY <1>2
  <2>5. stdout' = [stdout EXCEPT ![c] = lines] /\ requestSequence' = requestSequence
    BY <1>1, <1>6 DEF clientVars
  <2>6. /\ call' \in [Tasks -> Calls]
        /\ \A t \in Tasks : (Waits(t)' <=> Waits(t)) /\ call'[t].id = call[t].id /\ call'[t].to = call[t].to
    BY <1>1, <1>5 DEF Waits
  <2>7. \A i \in 1..Len(lines) :
           \/ lines[i].id = 0
           \/ \E j \in 1..Len(stdin[c]) : lines[i].id = stdin[c][j].id
           \/ \E j \in 1..Len(stdout[c]) : lines[i].id = stdout[c][j].id
    BY <1>6, <2>3, <2>4
  <2> HIDE DEF lines, IInv
  <2> QED
    BY <1>6, <2>1, <2>2, <2>5, <2>6, <2>7, PipesKeep
<1>7. \A kind \in LineKinds : Line(kind) \in Lines(requestSequence) /\ Line(kind).id = 0
  BY <1>5 DEF Line, Lines
<1>8. stdin' = stdin => stdin' = [stdin EXCEPT ![c] = stdin[c]]
  BY DEF PipesOK
<1>9. CASE ServerEvent(c)
  <2>1. PICK kind \in LineKinds : Emit(c, Line(kind))
    BY <1>9 DEF ServerEvent, LineKinds
  <2>2. stdin' = stdin
    BY <1>9 DEF ServerEvent
  <2>3. PipesOK' /\ OwnPipes'
    BY <1>6, <1>7, <1>8, <2>1, <2>2 DEF Emit
  <2> QED
    BY <1>3, <1>4, <2>3
<1>10. CASE Execute(c)
  <2>1. /\ stdin[c] # <<>> /\ stdin' = [stdin EXCEPT ![c] = Tail(stdin[c])]
        /\ stdin[c][1] \in Requests(requestSequence) /\ Head(stdin[c]) = stdin[c][1]
    BY <1>2, <1>10 DEF Execute, PipesOK
  <2>2. PICK ok \in BOOLEAN : Emit(c, Response(stdin[c][1].id, ok))
    BY <1>10, <2>1 DEF Execute
  <2>3. /\ Response(stdin[c][1].id, ok) \in Lines(requestSequence)
        /\ Response(stdin[c][1].id, ok).id = stdin[c][1].id
    BY <1>5, <2>1 DEF Response, Lines, LineKinds, Requests
  <2>4. PipesOK' /\ OwnPipes'
    BY <1>6, <2>1, <2>2, <2>3 DEF Emit
  <2> QED
    BY <1>3, <1>4, <2>4
<1>11. CASE Die(c)
  <2>1. stdin' = stdin
    BY <1>11 DEF Die
  <2>2. CASE stdout' = stdout
    BY <1>1, <2>1, <2>2, <1>3, <1>4 DEF clientVars, PipesOK, OwnPipes, Waits
  <2>3. CASE Emit(c, Line("garbled"))
    <3>1. PipesOK' /\ OwnPipes'
      BY <1>6, <1>7, <1>8, <2>1, <2>3 DEF Emit, LineKinds
    <3> QED
      BY <1>3, <1>4, <3>1
  <2> QED
    BY <1>11, <2>2, <2>3 DEF Die
<1> QED
  BY <1>9, <1>10, <1>11

LEMMA NextIInv == IInv /\ [Next]_vars => IInv'
<1> SUFFICES ASSUME IInv, [Next]_vars PROVE IInv'
  OBVIOUS
<1>1. CASE UNCHANGED vars
  <2>1. UNCHANGED <<clientVars, call, procVars>>
    BY <1>1 DEF vars
  <2>2. FieldsOK'
    BY <2>1, FieldsKeep DEF IInv, FieldsOK, clientVars, procVars
  <2>3. CallsOK'
    BY <2>1, FrameKeeps DEF clientVars, procVars
  <2>4. PipesOK' /\ OwnPipes'
    BY <2>1 DEF IInv, PipesOK, OwnPipes, Waits, clientVars, procVars
  <2> QED
    BY <2>2, <2>3, <2>4 DEF IInv
<1> QED
  BY <1>1, BeginKeeps, CheckedKeeps, ResumeKeeps, TimesOutKeeps, ExitKeeps, ReadLineKeeps,
     ProcessKeeps DEF Next

LEMMA Invariance == Spec => []IInv
<1>1. Init => IInv
  BY InitIInv
<1>2. IInv /\ [Next]_vars => IInv'
  BY NextIInv
<1> QED
  BY <1>1, <1>2, PTL DEF Spec

\* The variables have their types.
THEOREM TypeCorrect == Spec => []TypeOK
<1>1. IInv => TypeOK
  <2> SUFFICES ASSUME IInv PROVE TypeOK
    OBVIOUS
  <2>1. /\ FieldsOK /\ PipesOK /\ call \in [Tasks -> Calls] /\ requestSequence \in Nat
    BY DEF IInv, CallsOK, FieldsOK
  <2>2. ASSUME NEW t \in Tasks PROVE call[t].id \in 0..requestSequence
    <3>1. call[t].id \in 1..requestSequence \/ call[t].id = 0
      BY DEF IInv, CallsOK, IdsOK
    <3> QED
      BY <2>1, <3>1
  <2>3. call \in [Tasks -> [pc : Pcs, on : 0..MaxSpawns, to : 0..MaxSpawns,
                            id : 0..requestSequence, answer : {"none", "ok", "failed"}]]
    BY <2>1, <2>2 DEF Calls
  <2>4. pending \subseteq 1..requestSequence
    BY DEF IInv, CallsOK, PendingRequestsWait, IdsOK, Waits
  <2> QED
    BY <2>1, <2>3, <2>4 DEF TypeOK, FieldsOK, PipesOK, Requests, Lines
<1> QED
  BY <1>1, Invariance, PTL

\* The table of pending requests of class ProtocolClient is exact.
THEOREM PendingIsExact == Spec => []PendingRequestsWait
<1>1. IInv => PendingRequestsWait
  BY DEF IInv, CallsOK
<1> QED
  BY <1>1, Invariance, PTL

\* The exit handler of connect() leaves no request waiting on that child.
THEOREM NobodyWaitsOnTheDead == Spec => []NoWaitOnExitedChild
<1>1. IInv => NoWaitOnExitedChild
  BY DEF IInv, CallsOK
<1> QED
  BY <1>1, Invariance, PTL

\* handleMessage() looks a request up by its id alone, and that is enough: a
\* request is answered from the pipe of the child it was written to.
THEOREM OwnAnswers == Spec => AnsweredByOwnChild
<1> DEFINE Own(t) ==
      /\ call[t].pc \in RequestWaits
      /\ call[t].answer = "none" /\ call'[t].answer = "ok"
      => stdout'[call[t].to] # stdout[call[t].to]
<1>1. IInv /\ [Next]_vars => [\A t \in Tasks : Own(t)]_vars
  <2> SUFFICES ASSUME IInv, Next, NEW t \in Tasks, Waits(t), call[t].answer = "none",
                      call'[t].answer = "ok"
               PROVE  stdout'[call[t].to] # stdout[call[t].to]
    BY DEF Waits
  <2>1. call \in [Tasks -> Calls]
    BY DEF IInv, CallsOK
  <2>2. ASSUME NEW u \in Tasks, Begin(u) \/ Checked(u) \/ Resume(u) PROVE FALSE
    <3>1. CASE u = t
      BY <2>1, <2>2, <3>1 DEF Begin, BeginRequest, BeginConnect, BeginDisconnect, Checked,
           BinaryMissing, Spawn, Resume, Joined, ConnectFails, RequestReturns, DisconnectAnswered,
           ExitWaitEnds, Answered, Waits
    <3>2. CASE u # t
      <4>1. call'[t] = call[t]
        BY <2>1, <2>2, <3>2 DEF Begin, BeginRequest, BeginConnect, BeginDisconnect, Checked,
             BinaryMissing, Spawn, Resume, Joined, ConnectFails, RequestReturns,
             DisconnectAnswered, ExitWaitEnds, Ask, AwaitExit, Return
      <4> QED
        BY <4>1
    <3> QED
      BY <3>1, <3>2
  <2>3. ASSUME NEW u \in Tasks, TimesOut(u) PROVE FALSE
    BY <2>1, <2>3, AnswersAre DEF TimesOut
  <2>4. ASSUME NEW c \in ChildIds, Exit(c) PROVE FALSE
    <3>1. PICK failed : Answer(Closing(c), failed)
      BY <2>4 DEF Exit
    <3>2. t \notin Closing(c)
      BY DEF Closing, Waits
    <3> QED
      BY <2>1, <3>1, <3>2, AnswersAre
  <2>5. ASSUME NEW c \in ChildIds, ReadLine(c) PROVE stdout'[call[t].to] # stdout[call[t].to]
    <3>1. PICK ok \in SUBSET Tasks, failed \in SUBSET Tasks :
            /\ Answer(ok, failed)
            /\ \A u \in ok : IF Waits(u) THEN call[u].id = Head(stdout[c]).id
                                        ELSE call[u].pc = "joining"
      BY <2>5, LineAnswers
    <3>2. call[t].id = Head(stdout[c]).id
      BY <2>1, <3>1, AnswersAre
    <3>3. /\ stdout[c] # <<>> /\ stdout' = [stdout EXCEPT ![c] = Tail(@)]
          /\ stdout \in [ChildIds -> Seq(Lines(requestSequence))]
      BY <2>5 DEF ReadLine, IInv, PipesOK
    <3>4. 1 \in 1..Len(stdout[c]) /\ Head(stdout[c]) = stdout[c][1]
      BY <3>3
    <3>5. call[t].to = c
      BY <3>2, <3>4 DEF IInv, OwnPipes
    <3>6. Len(Tail(stdout[c])) # Len(stdout[c])
      BY <3>3
    <3> QED
      BY <3>3, <3>5, <3>6
  <2>6. ASSUME NEW c \in ChildIds, ServerEvent(c) \/ Execute(c) \/ Die(c) PROVE FALSE
    BY <2>6 DEF ServerEvent, Execute, Die
  <2> QED
    BY <2>2, <2>3, <2>4, <2>5, <2>6 DEF Next
<1> QED
  BY <1>1, Invariance, PTL DEF Spec, AnsweredByOwnChild

\* A connect() that fails, and a disconnect(), leave no process of theirs alive
\* and unsignalled.
THEOREM NothingLeftBehind == Spec => NoProcessLeftToItself
<1> DEFINE Left(t) ==
      /\ \/ Answered(t, {"joining", "negotiating"}, "failed")
         \/ call[t].pc \in ExitWaits \union {"disconnecting"}
      /\ call'[t].pc = "idle"
      => call[t].on \in exited \union killed'
<1>1. IInv /\ [Next]_vars => [\A t \in Tasks : Left(t)]_vars
  <2> SUFFICES ASSUME IInv, Next, NEW t \in Tasks, call'[t].pc = "idle",
                      \/ Answered(t, {"joining", "negotiating"}, "failed")
                      \/ call[t].pc \in ExitWaits \union {"disconnecting"}
               PROVE  call[t].on \in exited \union killed'
    OBVIOUS
  <2>1. /\ call \in [Tasks -> Calls] /\ call[t].pc \notin {"idle", "checking"}
        /\ call'[t].pc # call[t].pc
    BY DEF IInv, CallsOK, Answered
  <2>2. ASSUME NEW u \in Tasks, Begin(u) \/ Checked(u) PROVE FALSE
    <3>1. u # t
      BY <2>1, <2>2 DEF Begin, BeginRequest, BeginConnect, BeginDisconnect, Checked, BinaryMissing,
           Spawn
    <3>2. call'[t] = call[t]
      BY <2>1, <2>2, <3>1 DEF Begin, BeginRequest, BeginConnect, BeginDisconnect, Checked,
           BinaryMissing, Spawn, Ask, Return
    <3> QED
      BY <2>1, <3>2
  <2>3. ASSUME NEW u \in Tasks, Resume(u) PROVE call[t].on \in exited \union killed'
    <3>1. u = t
      <4>1. u # t => call'[t] = call[t]
        BY <2>1, <2>3 DEF Resume, Joined, ConnectFails, RequestReturns, DisconnectAnswered,
             ExitWaitEnds, Ask, AwaitExit, Return
      <4> QED
        BY <2>1, <4>1
    <3>2. ASSUME NEW pc \in ExitWaits, AwaitExit(t, pc) PROVE call[t].on \in exited
      BY <2>1, <3>2 DEF AwaitExit, Idle
    <3>3. CASE Joined(t) \/ RequestReturns(t)
      BY <3>3 DEF Joined, RequestReturns, Answered
    <3>4. CASE ConnectFails(t) \/ DisconnectAnswered(t)
      BY <3>2, <3>4 DEF ConnectFails, DisconnectAnswered
    <3>5. CASE ExitWaitEnds(t)
      <4>1. CASE call[t].answer = "failed"
        BY <3>5, <4>1 DEF ExitWaitEnds, Kill
      <4>2. CASE call[t].answer = "ok"
        BY <3>5, <4>2 DEF ExitWaitEnds, IInv, CallsOK, ExitSeen
      <4> QED
        BY <2>1, <3>5, <4>1, <4>2 DEF ExitWaitEnds, Calls
    <3> QED
      BY <2>3, <3>1, <3>3, <3>4, <3>5 DEF Resume
  <2>4. ASSUME NEW ok, NEW failed, Answer(ok, failed) PROVE FALSE
    BY <2>1, <2>4, AnswersAre
  <2>5. ASSUME NEW u \in Tasks, TimesOut(u) PROVE FALSE
    BY <2>4, <2>5 DEF TimesOut
  <2>6. ASSUME NEW c \in ChildIds, Exit(c) PROVE FALSE
    BY <2>4, <2>6 DEF Exit
  <2>7. ASSUME NEW c \in ChildIds, ReadLine(c) PROVE FALSE
    BY <2>4, <2>7, LineAnswers
  <2>8. ASSUME NEW c \in ChildIds, ServerEvent(c) \/ Execute(c) \/ Die(c) PROVE FALSE
    BY <2>1, <2>8 DEF ServerEvent, Execute, Die
  <2> QED
    BY <2>2, <2>3, <2>5, <2>6, <2>7, <2>8 DEF Next
<1> QED
  BY <1>1, Invariance, PTL DEF Spec, NoProcessLeftToItself
=================================================================================
