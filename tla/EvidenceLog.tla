------------------------------ MODULE EvidenceLog ------------------------------
(***************************************************************************)
(* What the Patrol adapter promises of its live evidence: the longest run  *)
(* of the newest events that is within every bound, and the number of      *)
(* those that had to go.                                                   *)
(***************************************************************************)
EXTENDS Naturals, Sequences

CONSTANTS
  Events,
  Characters, Nodes,                  \* of each event
  MaxEvents, MaxCharacters, MaxNodes  \* MAX_LIVE_EVENTS, MAX_EVIDENCE_...; no event
                                      \* alone is beyond them

VARIABLES
  kept,     \* the events to be seen
  dropped   \* how many are not, of those accepted since the last clear

SizeOf(size, events) ==
  LET sum[i \in 0..Len(events)] == IF i = 0 THEN 0 ELSE sum[i - 1] + size[events[i]]
  IN  sum[Len(events)]

Fits(events) ==
  /\ Len(events) <= MaxEvents
  /\ SizeOf(Characters, events) <= MaxCharacters
  /\ SizeOf(Nodes, events) <= MaxNodes

\* The newest event is always kept, and no older one goes without need.
Accept ==
  \E e \in Events, n \in 0..Len(kept) :
    LET without(k) == Append(SubSeq(kept, k + 1, Len(kept)), e)
    IN  /\ Fits(without(n)) /\ \A k \in 0..(n - 1) : ~Fits(without(k))
        /\ kept' = without(n) /\ dropped' = dropped + n

Clear == kept' = <<>> /\ dropped' = 0

\* The end of the server takes the events and leaves the number.
Shut == kept' = <<>> /\ UNCHANGED dropped

Init == kept = <<>> /\ dropped = 0
Next == Accept \/ Clear \/ Shut
Spec == Init /\ [][Next]_<<kept, dropped>>
===============================================================================
