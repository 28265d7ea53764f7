-------------------------------- MODULE Waits --------------------------------
(***************************************************************************)
(* The bounded waits of a scenario step (src/runner.ts) and of the bridge  *)
(* client (src/bridge-client.ts), one at a time, against a clock:          *)
(*   until    waitUntilAssertion(), whose assertion asks server or client  *)
(*   poll     wait.event and waitForLog(), which look at the harness's own *)
(*            memory                                                       *)
(*   event    the client.event assertion, which does so too                *)
(*   ready    BridgeClient.waitUntilReady()                                *)
(*   place    client.place_block: the block is placed again when nothing   *)
(*            changes for a while, up to three times                       *)
(*   refused  client.place_block with expectChange false                   *)
(*   connect  retryClientConnection() around connect() or reconnect()      *)
(* What is waited for may come and go whenever time passes.                *)
(***************************************************************************)
EXTENDS Integers

CONSTANTS
  Timeouts,     \* the timeouts a wait may be given; the 2 s of client.place_block
  Interval,     \* intervalMs, and the fixed pauses of the other waits
  Work,         \* an answer of the server or the client takes no longer
  Lag,          \* a timer fires no later than that
  Overrun       \* what an attempt to connect may take beyond its budget: cleanup,
                \* chorus_negotiate, and the disconnect() of a reconnect()

ASSUME WaitsAssumption ==
  /\ Timeouts \subseteq Nat
  /\ Interval \in Nat \ {0} /\ Work \in Nat /\ Lag \in Nat /\ Overrun \in Nat

VARIABLES
  kind, timeout,
  now,        \* Date.now() since the wait began
  holds,      \* what is waited for holds
  since,      \* since when it has held, if it does
  pc,
  seen,       \* what the answer on its way says of it
  timer,      \* when the pause ends, or the answer is there at the latest
  deadline,   \* started + timeout; place_block has one for each placement
  attempts,
  outcome     \* how the wait ended

vars == <<kind, timeout, now, holds, since, pc, seen, timer, deadline, attempts, outcome>>

Kinds    == {"until", "poll", "event", "ready", "place", "refused", "connect"}
Places   == {"place", "refused"}
Outcomes == {"none", "ok", "timeout", "error"}
MaxAttempts == 3
Larger(a, b) == IF a >= b THEN a ELSE b

\* The wait goes on after a pause, or ends.
Pause ==
  /\ pc' = "sleeping" /\ timer' = now + Interval
  /\ UNCHANGED <<attempts, outcome>>

End(how) ==
  /\ pc' = "over" /\ outcome' = how
  /\ UNCHANGED <<timer, attempts>>

\* The deadline of a wait that has just looked in vain.
GivesUp ==
  CASE kind = "poll"  -> now > deadline
    [] kind = "ready" -> FALSE
    [] OTHER          -> now >= deadline

\* Mutant of Look: the clock is read before what is waited for.
ClockBeforeLook ==
  /\ pc = "looking"
  /\ IF GivesUp THEN End("timeout") ELSE IF holds THEN End("ok") ELSE Pause
  /\ UNCHANGED <<kind, timeout, now, holds, since, seen, deadline>>

\* One turn of the loops that look at memory.
Look ==
  /\ pc = "looking"
  /\ IF holds THEN End("ok") ELSE IF GivesUp THEN End("timeout") ELSE Pause
  /\ UNCHANGED <<kind, timeout, now, holds, since, seen, deadline>>

\* What follows a pause.  waitUntilReady() reads the clock before it asks again,
\* the others after they have looked.
Resume ==
  /\ CASE kind \in {"poll", "event"} ->
            /\ pc' = "looking"
            /\ UNCHANGED <<timer, attempts, outcome>>
       [] kind = "ready" /\ now >= deadline -> End("timeout")
       [] kind = "connect" ->
            /\ pc' = "connecting"
            /\ attempts' = attempts + 1
            /\ timer' = now + Larger(1, timeout - now) + Overrun
            /\ UNCHANGED outcome
       [] OTHER ->
            /\ pc' = "asking"
            /\ attempts' = IF kind = "until" THEN attempts + 1 ELSE attempts
            /\ timer' = now + Work
            /\ UNCHANGED outcome
  /\ UNCHANGED <<kind, timeout, now, holds, since, seen, deadline>>

\* Mutant of Wake: a timer that fires late goes unnoticed.
WakeOnTheDot == pc = "sleeping" /\ now = timer /\ Resume

Wake == pc = "sleeping" /\ now >= timer /\ Resume

\* Server or client answers with what it sees now; the answer takes its time.
Answer ==
  /\ pc = "asking"
  /\ pc' = "answering" /\ seen' = holds
  /\ UNCHANGED <<kind, timeout, now, holds, since, timer, deadline, attempts, outcome>>

\* The placement of a block once more.
PlaceAgain ==
  /\ pc' = "placing" /\ attempts' = attempts + 1 /\ timer' = now + Work
  /\ UNCHANGED outcome

\* The answer has come.
Answered ==
  /\ pc = "answering"
  /\ IF seen THEN End(IF kind = "refused" THEN "error" ELSE "ok")
     ELSE IF ~GivesUp THEN Pause
     ELSE IF kind = "place" /\ attempts < MaxAttempts THEN PlaceAgain
     ELSE End(IF kind = "refused" THEN "ok" ELSE "timeout")
  /\ UNCHANGED <<kind, timeout, now, holds, since, seen, deadline>>

\* An error that is no failed assertion is not waited on; of the bridge, for
\* waitUntilReady(), every error is.
Fails ==
  /\ pc \in {"asking", "placing"} /\ kind # "ready"
  /\ End("error")
  /\ UNCHANGED <<kind, timeout, now, holds, since, seen, deadline>>

\* placeBlock() has returned.
Placed ==
  /\ pc = "placing"
  /\ deadline' = now + timeout
  /\ Pause
  /\ UNCHANGED <<kind, timeout, now, holds, since, seen>>

\* An attempt to connect has ended; "ambiguous" is a disconnect before the
\* spawn without a reason.
Connected(exhausted) ==
  /\ pc = "connecting"
  /\ \E result \in {"ok", "error", "ambiguous"} :
       IF result # "ambiguous" \/ exhausted THEN End(IF result = "ok" THEN "ok" ELSE "error")
       ELSE Pause
  /\ UNCHANGED <<kind, timeout, now, holds, since, seen, deadline>>

\* Mutant of ConnectionAttempted: no look at what is left of the timeout.
RetriesOverdue == Connected(attempts = MaxAttempts)

\* One turn of the loop of retryClientConnection().
ConnectionAttempted == Connected(attempts = MaxAttempts \/ timeout <= now + Interval)

\* Time passes while the wait sleeps or something is asked.
Tick ==
  /\ \/ pc = "sleeping" /\ now < timer + Lag
     \/ pc \in {"asking", "answering", "placing", "connecting"} /\ now < timer
  /\ now' = now + 1
  /\ holds' \in BOOLEAN
  /\ since' = IF holds' /\ ~holds THEN now' ELSE since
  /\ UNCHANGED <<kind, timeout, pc, seen, timer, deadline, attempts, outcome>>

Init ==
  /\ kind \in Kinds /\ timeout \in Timeouts
  /\ kind \in Places => timeout > 0
  /\ now = 0 /\ since = 0 /\ holds \in BOOLEAN
  /\ seen = FALSE /\ deadline = timeout /\ attempts = 1
  /\ CASE kind \in {"poll", "event"} -> pc = "looking" /\ timer = 0 /\ outcome = "none"
       [] kind = "ready" /\ timeout = 0 -> pc = "over" /\ timer = 0 /\ outcome = "timeout"
       [] kind \in Places -> pc = "placing" /\ timer = Work /\ outcome = "none"
       [] kind = "connect" ->
            pc = "connecting" /\ timer = Larger(1, timeout) + Overrun /\ outcome = "none"
       [] OTHER -> pc = "asking" /\ timer = Work /\ outcome = "none"

Step == Look \/ Wake \/ Answer \/ Answered \/ Fails \/ Placed \/ ConnectionAttempted

Next == Step \/ Tick

\* Timers fire within Lag, answers come within Work: the system moves on.
Spec == Init /\ [][Next]_vars /\ WF_vars(Next)

-----------------------------------------------------------------------------
TypeOK ==
  /\ kind \in Kinds /\ timeout \in Timeouts /\ now \in Nat
  /\ holds \in BOOLEAN /\ since \in Nat /\ seen \in BOOLEAN
  /\ pc \in {"looking", "sleeping", "asking", "answering", "placing", "connecting", "over"}
  /\ timer \in Nat /\ deadline \in Nat /\ outcome \in Outcomes
  /\ attempts \in IF kind = "until" THEN Nat ELSE 1..MaxAttempts

\* How long before the deadline the last look may have been: not at all for
\* what the harness has in memory, an answer's way for the others.  Alone
\* waitUntilReady() does not look again after its last pause.
Blind ==
  CASE kind \in {"poll", "event"} -> 0
    [] kind = "ready"             -> Work + Interval + Lag
    [] OTHER                      -> Work

\* A wait gives up, places the block once more, or calls it refused, only if
\* what it waits for did not hold, without a break, since before the deadline:
\* a change that came in time is not taken for none, and no block is placed
\* twice because of it (waitUntilAssertion() and the loops of src/runner.ts).
GivesUpInVain ==
  [][ \/ outcome' = "timeout" /\ outcome # "timeout"
      \/ pc' = "placing" /\ pc # "placing"
      \/ kind = "refused" /\ outcome' = "ok" /\ outcome # "ok"
      => ~holds \/ since + Blind >= deadline ]_vars

\* The latest time at which a wait still goes on.
Latest ==
  CASE kind = "connect" -> Larger(1, timeout) + Lag + Overrun
    [] kind \in Places  -> attempts * (Work + timeout + Interval + Lag + Work)
    [] OTHER            -> timeout + Interval + Lag + Work

\* No wait outlasts its timeout by more than a pause and an answer, and three
\* attempts to connect share one timeout (retryClientConnection()).
EndsInTime == now <= Latest

\* Every wait ends.
WaitsEnd == <>(outcome # "none")
===============================================================================
