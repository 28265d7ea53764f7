----------------------------- MODULE WaitsProofs -----------------------------
(***************************************************************************)
(* For every timeout, pause, delay and lag: no wait outlasts its timeout   *)
(* by more than its last look takes, and none gives up on what held in     *)
(* time.                                                                   *)
(***************************************************************************)
EXTENDS Waits, TLAPS

Asks == {"asking", "answering"}

\* The phases a wait can be in.
Phases ==
  /\ pc = "looking" => kind \in {"poll", "event"}
  /\ pc \in Asks => kind \in {"until", "ready", "place", "refused"}
  /\ pc = "placing" => kind \in Places
  /\ pc = "connecting" => kind = "connect"
  /\ kind \notin Places => deadline = timeout
  /\ kind \in Places => timeout > 0
  /\ kind = "connect" /\ pc = "sleeping" => attempts < MaxAttempts

\* A timer is set from the clock, and the clock passes it by no more than Lag.
TimersRun ==
  /\ pc = "sleeping" => timer <= now + Interval /\ now <= timer + Lag
  /\ pc \in Asks => timer <= now + Work /\ now <= timer
  /\ pc \in {"placing", "connecting"} => now <= timer

\* What the last look did not see, and holds, is younger than that look.
Unseen ==
  /\ since <= now
  /\ pc = "answering" /\ ~seen => ~holds \/ timer <= since + Work
  /\ kind = "ready" /\ pc = "sleeping" => ~holds \/ timer <= since + Work + Interval

\* The longest that one placement takes.
Round == Work + timeout + Interval + Lag + Work

\* When each phase of a wait ends, at the latest.
PollsEnd ==
  kind \in {"until", "poll", "event"} =>
    /\ pc = "sleeping" => timer <= timeout + Interval
    /\ pc = "looking" => now <= timeout + Interval + Lag
    /\ pc \in Asks => timer <= timeout + Interval + Lag + Work

TriesEnd ==
  kind = "ready" =>
    /\ pc = "sleeping" => timer <= timeout + Work + Interval
    /\ pc \in Asks => timer <= timeout + Work

AttemptsEnd ==
  kind = "connect" =>
    /\ pc = "sleeping" => timer < timeout
    /\ pc = "connecting" => timer <= Larger(1, timeout) + Lag + Overrun

PlacementsEnd ==
  kind \in Places =>
    /\ pc = "placing" => timer + Round <= attempts * Round + Work
    /\ pc = "sleeping" => timer < deadline + Interval
    /\ pc \in Asks => timer <= deadline + Interval + Lag + Work
    /\ pc \in {"sleeping"} \union Asks => deadline + Round <= attempts * Round + Work + timeout

IInv ==
  /\ TypeOK /\ Phases /\ TimersRun /\ Unseen
  /\ PollsEnd /\ TriesEnd /\ AttemptsEnd /\ PlacementsEnd
  /\ EndsInTime

USE WaitsAssumption DEF MaxAttempts, Kinds, Places, Outcomes, Asks

LEMMA InitIInv == Init => IInv
<1> SUFFICES ASSUME Init PROVE IInv
  OBVIOUS
<1>1. TypeOK
  <2>1. kind \in Kinds /\ timeout \in Nat /\ Work \in Nat /\ Overrun \in Nat
    BY DEF Init
  <2>2. /\ pc \in {"looking", "over", "placing", "connecting", "asking"}
        /\ timer \in Nat /\ outcome \in Outcomes
    BY <2>1 DEF Init, Larger
  <2>3. kind \in Kinds /\ timeout \in Timeouts /\ now \in Nat /\ since \in Nat /\ deadline \in Nat
    BY DEF Init
  <2>4. holds \in BOOLEAN /\ seen \in BOOLEAN
    BY DEF Init
  <2>5. attempts \in IF kind = "until" THEN Nat ELSE 1..MaxAttempts
    BY DEF Init
  <2> QED
    BY <2>2, <2>3, <2>4, <2>5 DEF TypeOK
<1>2. Phases /\ TimersRun /\ Unseen
  BY DEF Init, Phases, TimersRun, Unseen, Larger
<1>3. PollsEnd /\ TriesEnd /\ AttemptsEnd
  BY DEF Init, PollsEnd, TriesEnd, AttemptsEnd, Larger
<1>4. PlacementsEnd
  BY DEF Init, PlacementsEnd, Round
<1>5. EndsInTime
  BY DEF Init, EndsInTime, Latest, Larger
<1> QED
  BY <1>1, <1>2, <1>3, <1>4, <1>5 DEF IInv

LEMMA TypeStep == ASSUME TypeOK, Phases, [Next]_vars PROVE TypeOK'
<1> USE DEF TypeOK
<1>1. CASE Look
  BY <1>1 DEF Look, End, Pause
<1>2. CASE Wake
  <2>1. /\ pc' \in {"looking", "over", "connecting", "asking"}
        /\ timer' \in Nat /\ outcome' \in Outcomes
    BY <1>2 DEF Wake, Resume, End, Larger
  <2>2. attempts' \in IF kind = "until" THEN Nat ELSE 1..MaxAttempts
    BY <1>2 DEF Wake, Resume, End, Phases
  <2> QED
    BY <1>2, <2>1, <2>2 DEF Wake, Resume
<1>3. CASE Answer
  BY <1>3 DEF Answer
<1>4. CASE Answered
  BY <1>4 DEF Answered, End, Pause, PlaceAgain
<1>5. CASE Fails
  BY <1>5 DEF Fails, End
<1>6. CASE Placed
  BY <1>6 DEF Placed, Pause
<1>7. CASE ConnectionAttempted
  BY <1>7 DEF ConnectionAttempted, Connected, End, Pause
<1>8. CASE Tick
  BY <1>8 DEF Tick
<1>9. CASE UNCHANGED vars
  BY <1>9 DEF vars
<1> QED
  BY <1>1, <1>2, <1>3, <1>4, <1>5, <1>6, <1>7, <1>8, <1>9 DEF Next, Step

\* The parts of IInv that say where a wait is, and what its timer means.
LEMMA PhaseStep ==
  ASSUME TypeOK, Phases, [Next]_vars
  PROVE  Phases'
<1> USE DEF TypeOK, Phases
<1>1. CASE Look
  BY <1>1 DEF Look, End, Pause
<1>2. CASE Wake
  BY <1>2 DEF Wake, Resume, End
<1>3. CASE Answer
  BY <1>3 DEF Answer
<1>4. CASE Answered
  BY <1>4 DEF Answered, End, Pause, PlaceAgain
<1>5. CASE Fails
  BY <1>5 DEF Fails, End
<1>6. CASE Placed
  BY <1>6 DEF Placed, Pause
<1>7. CASE ConnectionAttempted
  BY <1>7 DEF ConnectionAttempted, Connected, End, Pause
<1>8. CASE Tick
  BY <1>8 DEF Tick
<1>9. CASE UNCHANGED vars
  BY <1>9 DEF vars
<1> QED
  BY <1>1, <1>2, <1>3, <1>4, <1>5, <1>6, <1>7, <1>8, <1>9 DEF Next, Step

LEMMA TimerStep ==
  ASSUME TypeOK, Phases, TimersRun, [Next]_vars
  PROVE  TimersRun'
<1> USE DEF TypeOK, TimersRun
<1>1. CASE Look
  BY <1>1 DEF Look, End, Pause
<1>2. CASE Wake
  BY <1>2 DEF Wake, Resume, End, Larger
<1>3. CASE Answer
  BY <1>3 DEF Answer
<1>4. CASE Answered
  BY <1>4 DEF Answered, End, Pause, PlaceAgain
<1>5. CASE Fails
  BY <1>5 DEF Fails, End
<1>6. CASE Placed
  BY <1>6 DEF Placed, Pause
<1>7. CASE ConnectionAttempted
  BY <1>7 DEF ConnectionAttempted, Connected, End, Pause
<1>8. CASE Tick
  BY <1>8 DEF Tick
<1>9. CASE UNCHANGED vars
  BY <1>9 DEF vars
<1> QED
  BY <1>1, <1>2, <1>3, <1>4, <1>5, <1>6, <1>7, <1>8, <1>9 DEF Next, Step

LEMMA UnseenStep ==
  ASSUME TypeOK, Phases, TimersRun, Unseen, [Next]_vars
  PROVE  Unseen'
<1> USE DEF TypeOK, TimersRun, Unseen
<1>1. CASE Look
  BY <1>1 DEF Look, End, Pause
<1>2. CASE Wake
  BY <1>2 DEF Wake, Resume, End
<1>3. CASE Answer
  BY <1>3 DEF Answer
<1>4. CASE Answered
  BY <1>4 DEF Answered, End, Pause, PlaceAgain
<1>5. CASE Fails
  BY <1>5 DEF Fails, End
<1>6. CASE Placed
  BY <1>6 DEF Placed, Pause, Phases
<1>7. CASE ConnectionAttempted
  BY <1>7 DEF ConnectionAttempted, Connected, End, Pause, Phases
<1>8. CASE Tick
  BY <1>8 DEF Tick
<1>9. CASE UNCHANGED vars
  BY <1>9 DEF vars
<1> QED
  BY <1>1, <1>2, <1>3, <1>4, <1>5, <1>6, <1>7, <1>8, <1>9 DEF Next, Step

\* The parts of IInv that bound the phases of a wait.
LEMMA PollsStep ==
  ASSUME TypeOK, Phases, TimersRun, PollsEnd, [Next]_vars
  PROVE  PollsEnd'
<1> USE DEF TypeOK, Phases, TimersRun, PollsEnd
<1>1. CASE Look
  BY <1>1 DEF Look, End, Pause, GivesUp
<1>2. CASE Wake
  BY <1>2 DEF Wake, Resume, End, Larger
<1>3. CASE Answer
  BY <1>3 DEF Answer
<1>4. CASE Answered
  BY <1>4 DEF Answered, End, Pause, PlaceAgain, GivesUp
<1>5. CASE Fails
  BY <1>5 DEF Fails, End
<1>6. CASE Placed
  BY <1>6 DEF Placed, Pause
<1>7. CASE ConnectionAttempted
  BY <1>7 DEF ConnectionAttempted, Connected, End, Pause
<1>8. CASE Tick
  BY <1>8 DEF Tick
<1>9. CASE UNCHANGED vars
  BY <1>9 DEF vars
<1> QED
  BY <1>1, <1>2, <1>3, <1>4, <1>5, <1>6, <1>7, <1>8, <1>9 DEF Next, Step

LEMMA TriesStep ==
  ASSUME TypeOK, Phases, TimersRun, TriesEnd, [Next]_vars
  PROVE  TriesEnd'
<1> USE DEF TypeOK, Phases, TimersRun, TriesEnd
<1>1. CASE Look
  BY <1>1 DEF Look, End, Pause, GivesUp
<1>2. CASE Wake
  BY <1>2 DEF Wake, Resume, End, Larger
<1>3. CASE Answer
  BY <1>3 DEF Answer
<1>4. CASE Answered
  BY <1>4 DEF Answered, End, Pause, PlaceAgain, GivesUp
<1>5. CASE Fails
  BY <1>5 DEF Fails, End
<1>6. CASE Placed
  BY <1>6 DEF Placed, Pause
<1>7. CASE ConnectionAttempted
  BY <1>7 DEF ConnectionAttempted, Connected, End, Pause
<1>8. CASE Tick
  BY <1>8 DEF Tick
<1>9. CASE UNCHANGED vars
  BY <1>9 DEF vars
<1> QED
  BY <1>1, <1>2, <1>3, <1>4, <1>5, <1>6, <1>7, <1>8, <1>9 DEF Next, Step

LEMMA AttemptsStep ==
  ASSUME TypeOK, Phases, TimersRun, AttemptsEnd, [Next]_vars
  PROVE  AttemptsEnd'
<1> USE DEF TypeOK, Phases, TimersRun, AttemptsEnd
<1>1. CASE Look
  BY <1>1 DEF Look, End, Pause, GivesUp
<1>2. CASE Wake
  BY <1>2 DEF Wake, Resume, End, Larger
<1>3. CASE Answer
  BY <1>3 DEF Answer
<1>4. CASE Answered
  BY <1>4 DEF Answered, End, Pause, PlaceAgain, GivesUp
<1>5. CASE Fails
  BY <1>5 DEF Fails, End
<1>6. CASE Placed
  BY <1>6 DEF Placed, Pause
<1>7. CASE ConnectionAttempted
  BY <1>7 DEF ConnectionAttempted, Connected, End, Pause
<1>8. CASE Tick
  BY <1>8 DEF Tick
<1>9. CASE UNCHANGED vars
  BY <1>9 DEF vars
<1> QED
  BY <1>1, <1>2, <1>3, <1>4, <1>5, <1>6, <1>7, <1>8, <1>9 DEF Next, Step

LEMMA PlacementsStep ==
  ASSUME TypeOK, Phases, TimersRun, PlacementsEnd, [Next]_vars
  PROVE  PlacementsEnd'
<1> USE DEF TypeOK, Phases, TimersRun, PlacementsEnd, Round
<1>1. CASE Look
  BY <1>1 DEF Look, End, Pause, GivesUp
<1>2. CASE Wake
  BY <1>2 DEF Wake, Resume, End, Larger
<1>3. CASE Answer
  BY <1>3 DEF Answer
<1>4. CASE Answered
  BY <1>4 DEF Answered, End, Pause, PlaceAgain, GivesUp
<1>5. CASE Fails
  BY <1>5 DEF Fails, End
<1>6. CASE Placed
  BY <1>6 DEF Placed, Pause
<1>7. CASE ConnectionAttempted
  BY <1>7 DEF ConnectionAttempted, Connected, End, Pause
<1>8. CASE Tick
  BY <1>8 DEF Tick
<1>9. CASE UNCHANGED vars
  BY <1>9 DEF vars
<1> QED
  BY <1>1, <1>2, <1>3, <1>4, <1>5, <1>6, <1>7, <1>8, <1>9 DEF Next, Step

\* A wait that gives up has just seen nothing of what it waits for.
LEMMA GivesUpStep ==
  ASSUME IInv, [Next]_vars,
         \/ outcome' = "timeout" /\ outcome # "timeout"
         \/ pc' = "placing" /\ pc # "placing"
         \/ kind = "refused" /\ outcome' = "ok" /\ outcome # "ok"
  PROVE  ~holds \/ since + Blind >= deadline
<1> USE DEF IInv, TypeOK, Phases, TimersRun, Unseen, Blind
<1>1. CASE Look
  BY <1>1 DEF Look, End, Pause
<1>2. CASE Wake
  BY <1>2 DEF Wake, Resume, End
<1>3. CASE Answer
  BY <1>3 DEF Answer
<1>4. CASE Answered
  BY <1>4 DEF Answered, End, Pause, PlaceAgain, GivesUp
<1>5. CASE Fails
  BY <1>5 DEF Fails, End
<1>6. CASE Placed
  BY <1>6 DEF Placed, Pause
<1>7. CASE ConnectionAttempted
  BY <1>7 DEF ConnectionAttempted, Connected, End, Pause
<1>8. CASE Tick
  BY <1>8 DEF Tick
<1>9. CASE UNCHANGED vars
  BY <1>9 DEF vars
<1> QED
  BY <1>1, <1>2, <1>3, <1>4, <1>5, <1>6, <1>7, <1>8, <1>9 DEF Next, Step

\* Time passes only before the end of a phase, and each phase ends in time.
LEMMA EndsStep ==
  ASSUME IInv, [Next]_vars
  PROVE  EndsInTime'
<1> USE DEF IInv, TypeOK, EndsInTime, Latest
<1>1. CASE Tick
  <2>1. now' = now + 1 /\ UNCHANGED <<kind, timeout, attempts, pc, timer>>
    BY <1>1 DEF Tick
  <2>2. CASE kind \in {"until", "poll", "event"}
    BY <1>1, <2>1, <2>2 DEF Tick, Phases, PollsEnd
  <2>3. CASE kind = "ready"
    BY <1>1, <2>1, <2>3 DEF Tick, Phases, TriesEnd
  <2>4. CASE kind = "connect"
    BY <1>1, <2>1, <2>4 DEF Tick, Phases, AttemptsEnd, Larger
  <2>5. CASE kind \in Places
    BY <1>1, <2>1, <2>5 DEF Tick, Phases, PlacementsEnd, Round
  <2> QED
    BY <2>2, <2>3, <2>4, <2>5
<1>2. CASE Step \/ UNCHANGED vars
  <2>1. /\ UNCHANGED <<kind, timeout, now>>
        /\ attempts' = attempts \/ attempts' = attempts + 1
    BY <1>2 DEF Step, Look, Wake, Resume, Answer, Answered, Fails, Placed, ConnectionAttempted,
                Connected, End, Pause, PlaceAgain, vars
  <2>2. CASE kind \in Places
    <3>1. attempts' * Round >= attempts * Round
      BY <2>1, <2>2 DEF Round
    <3> QED
      BY <2>1, <2>2, <3>1 DEF Round
  <2>3. CASE kind \notin Places
    BY <2>1, <2>3
  <2> QED
    BY <2>2, <2>3
<1> QED
  BY <1>1, <1>2 DEF Next

\* The inductive invariant: bounds and looks depend on each other through the
\* phase a wait is in.
THEOREM Invariance == Spec => []IInv
<1>1. IInv /\ [Next]_vars => IInv'
  BY TypeStep, PhaseStep, TimerStep, UnseenStep, PollsStep, TriesStep, AttemptsStep,
     PlacementsStep, EndsStep DEF IInv
<1> QED
  BY InitIInv, <1>1, PTL DEF Spec

\* TypeOK: the values of the wait's variables, and three attempts at most.
THEOREM TypeCorrect == Spec => []TypeOK
BY Invariance, PTL DEF IInv

\* EndsInTime: no wait outlasts its timeout by more than its last look takes.
THEOREM WaitsEndInTime == Spec => []EndsInTime
BY Invariance, PTL DEF IInv

\* GivesUpInVain: what held in time is neither timed out nor placed again.
THEOREM NothingMissed == Spec => GivesUpInVain
<1>1. IInv /\ [Next]_vars =>
        [ \/ outcome' = "timeout" /\ outcome # "timeout"
          \/ pc' = "placing" /\ pc # "placing"
          \/ kind = "refused" /\ outcome' = "ok" /\ outcome # "ok"
          => ~holds \/ since + Blind >= deadline ]_vars
  BY GivesUpStep
<1> QED
  BY Invariance, <1>1, PTL DEF Spec, GivesUpInVain
===============================================================================
