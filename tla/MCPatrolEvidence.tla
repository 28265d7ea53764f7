---------------------------- MODULE MCPatrolEvidence ----------------------------
\* Two threads, events of different sizes, of which one is refused.  The number
\* alone makes room when deep, long and even meet, the nodes alone when deep and
\* big do, the characters alone when long and big do, and big evicts two when it
\* follows even and deep.  A protocol that works and one whose close() and
\* subscribe() may not.
EXTENDS PatrolEvidence, TLC

SomeCharacters == [deep |-> 1, long |-> 3, even |-> 2, big |-> 4, bad |-> 1]
SomeNodes      == [deep |-> 3, long |-> 1, even |-> 2, big |-> 4, bad |-> 1]
AnyThread == Permutations(Threads)
=================================================================================
