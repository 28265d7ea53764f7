----------------------------- MODULE PatrolEvidence -----------------------------
(***************************************************************************)
(* The live side of PatrolConflictV2Client.java: it subscribes to whatever *)
(* protocol object Patrol has published, anew when that object changes,    *)
(* and keeps the events it is called with in a bounded log.  Requests run  *)
(* on the server thread; a provider calls back on any thread it likes.     *)
(* `synchronized' serialises the subscription, evidenceLock the log; the   *)
(* two are never held together but by a close() that reports an error.     *)
(***************************************************************************)
EXTENDS Naturals, Sequences

CONSTANTS
  Events, Characters, Nodes, MaxEvents, MaxCharacters, MaxNodes,
  Invalid,          \* events that validateEvent() or toJson() refuses
  Threads,          \* those on which a provider emits
  Protocols,        \* the objects published one after the other
  Faulty,           \* of which a close() may throw and leave the consumer
                    \* registered, and a subscribe() may register it but give
                    \* no handle
  MaxErrors,        \* MAX_LIVE_ERRORS
  MaxRegistered     \* bound: the registrations followed per protocol

ASSUME PatrolAssumption ==
  /\ Characters \in [Events -> Nat] /\ Nodes \in [Events -> Nat]
  /\ MaxEvents \in Nat \ {0} /\ MaxCharacters \in Nat /\ MaxNodes \in Nat
  /\ \A e \in Events : Characters[e] <= MaxCharacters /\ Nodes[e] <= MaxNodes
  /\ Invalid \subseteq Events /\ Faulty \subseteq Protocols
  /\ MaxErrors \in Nat /\ MaxRegistered \in Nat \ {0}
  /\ "none" \notin Protocols \union Threads

VARIABLES
  phase,       \* "open"; "closing" and "closed" once the server stops
  resolving,   \* the object that provider() has read, between its steps
  subscribed,  \* subscribedProtocol, with its subscription
  registered,  \* how often each protocol calls capture() per event
  live, chars, nodes, truncated,   \* liveEvents, liveEventCharacters, ...
  errors,      \* size of liveErrors
  lock,        \* the thread in capture() that holds evidenceLock
  call,        \* per thread: the event it delivers, once for each delivery left
  emitted,     \* the events there have been (each is emitted once)
  gone         \* history: what the capture() that holds the lock has evicted

subscriptionVars == <<resolving, subscribed, registered>>
countVars        == <<live, chars, nodes, truncated>>
evidenceVars     == <<countVars, gone>>
callVars         == <<lock, call, emitted>>
vars             == <<phase, subscriptionVars, evidenceVars, errors, callVars>>

None == "none"
RecordError == errors' = IF errors < MaxErrors THEN errors + 1 ELSE errors

SizeOf(size, events) ==
  LET sum[i \in 0..Len(events)] == IF i = 0 THEN 0 ELSE sum[i - 1] + size[events[i]]
  IN  sum[Len(events)]

-----------------------------------------------------------------------------
(* The subscription *)

\* closeSubscription(): a close() that throws leaves its registration behind.
CloseSubscription ==
  /\ subscribed' = None
  /\ \/ /\ registered' = [p \in Protocols |->
                             IF p = subscribed THEN registered[p] - 1 ELSE registered[p]]
        /\ UNCHANGED errors
     \/ /\ subscribed \in Faulty /\ lock = None
        /\ RecordError
        /\ UNCHANGED registered

\* Mutant of Resolve: the old subscription is only forgotten.
ResolveWithoutClose ==
  /\ phase = "open" /\ resolving = None
  /\ resolving' \in Protocols \ {subscribed} /\ subscribed' = None
  /\ UNCHANGED <<phase, registered, evidenceVars, errors, callVars>>

\* provider() meets another object in the ObjectShare than the one it subscribed
\* to: Patrol may publish any of them, or none, at any time.
Resolve ==
  /\ phase = "open" /\ resolving = None
  /\ resolving' \in Protocols \ {subscribed}
  /\ CloseSubscription
  /\ UNCHANGED <<phase, evidenceVars, callVars>>

\* ... and subscribes to it, even if it has been replaced meanwhile.
Subscribe ==
  /\ resolving # None /\ registered[resolving] < MaxRegistered
  /\ registered' = [registered EXCEPT ![resolving] = @ + 1]
  /\ subscribed' \in {resolving} \union (IF resolving \in Faulty THEN {None} ELSE {})
  /\ resolving' = None
  /\ UNCHANGED <<phase, evidenceVars, errors, callVars>>

\* ... or fails to, and is left without a subscription.
SubscribeFails ==
  /\ resolving # None
  /\ resolving' = None
  /\ UNCHANGED <<phase, subscribed, registered, evidenceVars, errors, callVars>>

-----------------------------------------------------------------------------
(* The log *)

\* A provider emits an event to all that are registered with it.
Emit(t) ==
  /\ call[t] = <<>>
  /\ \E e \in Events \ emitted, p \in Protocols :
       /\ registered[p] > 0
       /\ call' = [call EXCEPT ![t] = [i \in 1..registered[p] |-> e]]
       /\ emitted' = emitted \union {e}
  /\ UNCHANGED <<phase, subscriptionVars, evidenceVars, errors, lock>>

Delivered(t) == call' = [call EXCEPT ![t] = Tail(@)]

\* capture() of an event that is not valid.
Refuse(t) ==
  /\ call[t] # <<>> /\ Head(call[t]) \in Invalid /\ lock = None
  /\ Delivered(t) /\ RecordError
  /\ UNCHANGED <<phase, subscriptionVars, evidenceVars, lock, emitted>>

\* capture(), after the copy was made: the lock, one eviction after another as
\* long as there is something to evict and no room, the append.
Enter(t) ==
  /\ call[t] # <<>> /\ Head(call[t]) \notin Invalid /\ lock = None
  /\ lock' = t
  /\ UNCHANGED <<phase, subscriptionVars, evidenceVars, errors, call, emitted>>

\* Mutant of HasRoom: one event too many.
HasRoomForOneMore(e) ==
  /\ Len(live) <= MaxEvents
  /\ chars + Characters[e] <= MaxCharacters
  /\ nodes + Nodes[e] <= MaxNodes

HasRoom(e) ==
  /\ Len(live) < MaxEvents
  /\ chars + Characters[e] <= MaxCharacters
  /\ nodes + Nodes[e] <= MaxNodes

\* Mutant of Evict: the nodes of an evicted event stay in the count.
EvictCharactersOnly(t) ==
  /\ lock = t /\ live # <<>> /\ ~HasRoom(Head(call[t]))
  /\ live' = Tail(live) /\ chars' = chars - Characters[Head(live)]
  /\ truncated' = truncated + 1 /\ gone' = Append(gone, Head(live))
  /\ UNCHANGED <<nodes, phase, subscriptionVars, errors, callVars>>

Evict(t) ==
  /\ lock = t /\ live # <<>> /\ ~HasRoom(Head(call[t]))
  /\ live' = Tail(live)
  /\ chars' = chars - Characters[Head(live)] /\ nodes' = nodes - Nodes[Head(live)]
  /\ truncated' = truncated + 1 /\ gone' = Append(gone, Head(live))
  /\ UNCHANGED <<phase, subscriptionVars, errors, callVars>>

AddLast(t) ==
  /\ lock = t /\ (live = <<>> \/ HasRoom(Head(call[t])))
  /\ LET e == Head(call[t])
     IN  /\ live' = Append(live, e)
         /\ chars' = chars + Characters[e] /\ nodes' = nodes + Nodes[e]
  /\ gone' = <<>> /\ lock' = None
  /\ Delivered(t)
  /\ UNCHANGED <<truncated, phase, subscriptionVars, errors, emitted>>

\* clearEvents().
ClearEvents ==
  /\ phase = "open" /\ lock = None
  /\ live' = <<>> /\ chars' = 0 /\ nodes' = 0 /\ truncated' = 0 /\ errors' = 0
  /\ UNCHANGED <<phase, subscriptionVars, gone, callVars>>

\* close() on SERVER_STOPPING, in two steps: callbacks that closing the
\* subscription did not reach may come between them and after.
Close ==
  /\ phase = "open" /\ resolving = None
  /\ phase' = "closing"
  /\ CloseSubscription
  /\ UNCHANGED <<resolving, evidenceVars, callVars>>

Wipe ==
  /\ phase = "closing" /\ lock = None
  /\ phase' = "closed"
  /\ live' = <<>> /\ chars' = 0 /\ nodes' = 0 /\ errors' = 0
  /\ UNCHANGED <<truncated, gone, subscriptionVars, callVars>>

-----------------------------------------------------------------------------
Init ==
  /\ phase = "open" /\ resolving = None /\ subscribed = None
  /\ registered = [p \in Protocols |-> 0]
  /\ live = <<>> /\ chars = 0 /\ nodes = 0 /\ truncated = 0 /\ errors = 0
  /\ lock = None
  /\ call = [t \in Threads |-> <<>>]
  /\ emitted = {} /\ gone = <<>>

Next ==
  \/ Resolve \/ Subscribe \/ SubscribeFails \/ ClearEvents \/ Close \/ Wipe
  \/ \E t \in Threads : Emit(t) \/ Refuse(t) \/ Enter(t) \/ Evict(t) \/ AddLast(t)

Spec == Init /\ [][Next]_vars

-----------------------------------------------------------------------------
TypeOK ==
  /\ phase \in {"open", "closing", "closed"}
  /\ {resolving, subscribed} \subseteq Protocols \union {None}
  /\ registered \in [Protocols -> 0..MaxRegistered]
  /\ live \in Seq(Events) /\ gone \in Seq(Events)
  /\ chars \in Nat /\ nodes \in Nat /\ truncated \in Nat /\ errors \in 0..MaxErrors
  /\ lock \in Threads \union {None}
  /\ call \in [Threads -> Seq(Events)]
  /\ emitted \subseteq Events

\* A protocol whose handles work has one registration while the adapter is
\* subscribed to it and none otherwise, through any number of replacements,
\* failed subscriptions and handles of others that do not work.
SubscribedOnce ==
  \A p \in Protocols \ Faulty : registered[p] = IF p = subscribed THEN 1 ELSE 0

\* The two sums that the evictions go by are those of the events in the log,
\* and within their bounds, in the middle of an eviction too.
SumsAreTrue ==
  /\ chars = SizeOf(Characters, live) /\ chars <= MaxCharacters
  /\ nodes = SizeOf(Nodes, live) /\ nodes <= MaxNodes

\* While capture() evicts, nobody sees the log: it is as it was before.
Evidence == INSTANCE EvidenceLog WITH kept <- gone \o live, dropped <- truncated - Len(gone)

\* The live evidence is the longest run of the newest events that fits, with
\* the number of those that went.
EvidenceKept == Evidence!Spec
=================================================================================
