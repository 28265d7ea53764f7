-------------------------- MODULE PatrolEvidenceProofs --------------------------
(***************************************************************************)
(* For any number of protocol objects, sound and faulty, of threads and of *)
(* events of any size: the adapter is registered once with the sound       *)
(* object it is subscribed to, and with no other; its sums are true; and   *)
(* its log is that of EvidenceLog.                                         *)
(***************************************************************************)
EXTENDS PatrolEvidence, Integers, WellFoundedInduction, SequenceTheorems, TLAPS

-----------------------------------------------------------------------------
(* Sums over sequences *)

\* Induction up to N: a least number outside of T would follow one inside.
LEMMA UpTo ==
  ASSUME NEW N \in Nat, NEW T, 0 \in T, \A n \in 1..N : n - 1 \in T => n \in T
  PROVE  0..N \subseteq T
<1> DEFINE R == OpToRel(<, Nat)
           U == (0..N) \ T
<1> SUFFICES ASSUME U # {} PROVE FALSE
  OBVIOUS
<1>1. IsWellFoundedOn(R, Nat)
  BY NatLessThanWellFounded
<1>2. U \subseteq Nat
  OBVIOUS
<1> HIDE DEF R, U
<1>3. PICK n \in U : \A m \in U : <<m, n>> \notin R
  BY <1>1, <1>2, WFMin
<1>4. \A m \in U : ~(m < n)
  BY <1>2, <1>3 DEF R, OpToRel
<1>5. n \in 1..N /\ n - 1 \notin U
  BY <1>4 DEF U
<1> QED
  BY <1>5 DEF U

IsSum(g, size, s) == g = [i \in 0..Len(s) |-> IF i = 0 THEN 0 ELSE g[i - 1] + size[s[i]]]

LEMMA SumSteps ==
  ASSUME NEW S, NEW s \in Seq(S), NEW g, NEW size, IsSum(g, size, s)
  PROVE  /\ Len(s) \in Nat /\ g[0] = 0
         /\ \A n \in 1..Len(s) : g[n] = g[n - 1] + size[s[n]]
<1>1. Len(s) \in Nat
  OBVIOUS
<1>2. \A n \in 0..Len(s) : g[n] = IF n = 0 THEN 0 ELSE g[n - 1] + size[s[n]]
  BY DEF IsSum
<1> QED
  BY <1>1, <1>2

LEMMA SumExists ==
  ASSUME NEW S, NEW s \in Seq(S), NEW size
  PROVE  \E g : IsSum(g, size, s)
<1> DEFINE Upto(g, n) == g = [i \in 0..n |-> IF i = 0 THEN 0 ELSE g[i - 1] + size[s[i]]]
           T == {n \in 0..Len(s) : \E g : Upto(g, n)}
<1>0. Len(s) \in Nat
  OBVIOUS
<1>1. 0 \in T
  <2> DEFINE g == [i \in 0..0 |-> 0]
  <2>1. Upto(g, 0)
    OBVIOUS
  <2>2. \E f : Upto(f, 0)
    BY <2>1
  <2> QED
    BY <1>0, <2>2
<1>2. ASSUME NEW n \in 1..Len(s), n - 1 \in T PROVE n \in T
  <2>1. PICK h : Upto(h, n - 1)
    BY <1>2
  <2> DEFINE g == [i \in 0..n |-> IF i = n THEN h[n - 1] + size[s[n]] ELSE h[i]]
  <2>2. \A i \in 0..n : g[i] = IF i = 0 THEN 0 ELSE g[i - 1] + size[s[i]]
    BY <1>2, <2>1
  <2>3. Upto(g, n)
    BY <2>2
  <2> HIDE DEF g
  <2> QED
    BY <2>3
<1> HIDE DEF T
<1>3. 0..Len(s) \subseteq T
  BY <1>0, <1>1, <1>2, UpTo, Zenon
<1> QED
  BY <1>3 DEF T, IsSum

LEMMA SizeOfSum ==
  ASSUME NEW S, NEW s \in Seq(S), NEW size
  PROVE  \E g : IsSum(g, size, s) /\ SizeOf(size, s) = g[Len(s)]
<1> DEFINE sum == CHOOSE g : IsSum(g, size, s)
<1>1. IsSum(sum, size, s)
  BY SumExists
<1>2. SizeOf(size, s) = sum[Len(s)]
  BY DEF SizeOf, IsSum
<1> QED
  BY <1>1, <1>2


LEMMA SizeOfNat ==
  ASSUME NEW S, NEW s \in Seq(S), NEW size \in [S -> Nat]
  PROVE  SizeOf(size, s) \in Nat
<1>1. PICK g : IsSum(g, size, s) /\ SizeOf(size, s) = g[Len(s)]
  BY SizeOfSum
<1>2. /\ Len(s) \in Nat /\ g[0] = 0
      /\ \A n \in 1..Len(s) : g[n] = g[n - 1] + size[s[n]]
  BY <1>1, SumSteps
<1>3. \A n \in 1..Len(s) : size[s[n]] \in Nat
  OBVIOUS
<1> DEFINE T == {n \in 0..Len(s) : g[n] \in Nat}
<1>4. 0 \in T
  BY <1>2
<1>5. ASSUME NEW n \in 1..Len(s), n - 1 \in T PROVE n \in T
  BY <1>2, <1>3, <1>5
<1> HIDE DEF T
<1>6. 0..Len(s) \subseteq T
  BY <1>2, <1>4, <1>5, UpTo, Zenon
<1> QED
  BY <1>1, <1>2, <1>6 DEF T

LEMMA SizeOfEmpty == \A size : SizeOf(size, <<>>) = 0
<1> TAKE size
<1>1. <<>> \in Seq({}) /\ Len(<<>>) = 0
  OBVIOUS
<1>2. PICK g : IsSum(g, size, <<>>) /\ SizeOf(size, <<>>) = g[Len(<<>>)]
  BY <1>1, SizeOfSum
<1> QED
  BY <1>1, <1>2, SumSteps

LEMMA SizeOfAppend ==
  ASSUME NEW S, NEW s \in Seq(S), NEW e \in S, NEW size
  PROVE  SizeOf(size, Append(s, e)) = SizeOf(size, s) + size[e]
<1> DEFINE t == Append(s, e)
<1>1. t \in Seq(S) /\ Len(t) = Len(s) + 1 /\ t[Len(t)] = e /\ \A i \in 1..Len(s) : t[i] = s[i]
  OBVIOUS
<1>2. PICK g : IsSum(g, size, s) /\ SizeOf(size, s) = g[Len(s)]
  BY SizeOfSum
<1> HIDE DEF t
<1>3. PICK h : IsSum(h, size, t) /\ SizeOf(size, t) = h[Len(t)]
  BY <1>1, SizeOfSum
<1>4. /\ Len(s) \in Nat /\ g[0] = 0
      /\ \A n \in 1..Len(s) : g[n] = g[n - 1] + size[s[n]]
  BY <1>2, SumSteps
<1>5. h[0] = 0 /\ \A n \in 1..Len(t) : h[n] = h[n - 1] + size[t[n]]
  BY <1>1, <1>3, SumSteps
<1> DEFINE T == {n \in 0..Len(s) : h[n] = g[n]}
<1>6. 0 \in T
  BY <1>4, <1>5
<1>7. ASSUME NEW n \in 1..Len(s), n - 1 \in T PROVE n \in T
  <2>1. n \in 1..Len(t) /\ t[n] = s[n]
    BY <1>1, <1>4
  <2> QED
    BY <1>4, <1>5, <1>7, <2>1
<1> HIDE DEF T
<1>8. 0..Len(s) \subseteq T
  BY <1>4, <1>6, <1>7, UpTo, Zenon
<1>9. h[Len(s)] = g[Len(s)]
  BY <1>4, <1>8 DEF T
<1>10. Len(t) \in 1..Len(t) /\ Len(t) - 1 = Len(s)
  BY <1>1, <1>4
<1>11. h[Len(t)] = h[Len(s)] + size[e]
  BY <1>1, <1>5, <1>10
<1> QED
  BY <1>2, <1>3, <1>9, <1>11 DEF t

LEMMA SizeOfTail ==
  ASSUME NEW S, NEW s \in Seq(S), s # <<>>, NEW size \in [S -> Nat]
  PROVE  SizeOf(size, s) = size[Head(s)] + SizeOf(size, Tail(s))
<1> DEFINE t == Tail(s)
<1>1. /\ t \in Seq(S) /\ Len(t) = Len(s) - 1 /\ Head(s) = s[1] /\ Len(s) \in Nat \ {0}
      /\ \A i \in 1..Len(t) : t[i] = s[i + 1]
      /\ \A i \in 1..Len(s) : size[s[i]] \in Nat
  OBVIOUS
<1>2. PICK g : IsSum(g, size, s) /\ SizeOf(size, s) = g[Len(s)]
  BY SizeOfSum
<1> HIDE DEF t
<1>3. PICK h : IsSum(h, size, t) /\ SizeOf(size, t) = h[Len(t)]
  BY <1>1, SizeOfSum
<1>4. g[0] = 0 /\ \A n \in 1..Len(s) : g[n] = g[n - 1] + size[s[n]]
  BY <1>2, SumSteps
<1>5. /\ Len(t) \in Nat /\ h[0] = 0
      /\ \A n \in 1..Len(t) : h[n] = h[n - 1] + size[t[n]]
  <2>1. t \in Seq(S) /\ IsSum(h, size, t)
    BY <1>1, <1>3
  <2> QED
    BY <2>1, SumSteps
<1> DEFINE T == {n \in 0..Len(t) : h[n] \in Nat /\ g[n + 1] = size[s[1]] + h[n]}
<1>6. 0 \in T
  <2>1. g[1] = g[0] + size[s[1]] /\ size[s[1]] \in Nat
    BY <1>1, <1>4
  <2> QED
    BY <1>4, <1>5, <2>1
<1>7. ASSUME NEW n \in 1..Len(t), n - 1 \in T PROVE n \in T
  <2>1. h[n - 1] \in Nat /\ g[n] = size[s[1]] + h[n - 1]
    BY <1>7
  <2>2. h[n] = h[n - 1] + size[t[n]] /\ t[n] = s[n + 1]
    BY <1>1, <1>5
  <2>3. n + 1 \in 1..Len(s) /\ 1 \in 1..Len(s)
    BY <1>1
  <2>4. g[n + 1] = g[n] + size[s[n + 1]]
    BY <1>4, <2>3
  <2>5. size[s[n + 1]] \in Nat /\ size[s[1]] \in Nat
    BY <1>1, <2>3
  <2>6. h[n] \in Nat /\ g[n + 1] = size[s[1]] + h[n]
    BY <2>1, <2>2, <2>4, <2>5
  <2> QED
    BY <1>5, <2>6
<1> HIDE DEF T
<1>8. 0..Len(t) \subseteq T
  BY <1>5, <1>6, <1>7, UpTo, Zenon
<1>9. g[Len(s)] = size[s[1]] + h[Len(t)]
  <2>1. Len(t) \in T /\ Len(t) + 1 = Len(s)
    BY <1>1, <1>5, <1>8
  <2> QED
    BY <2>1 DEF T
<1> QED
  BY <1>1, <1>2, <1>3, <1>9 DEF t

\* What an eviction leaves alone, and what is behind what it took.
LEMMA ConcatShift ==
  ASSUME NEW S, NEW s \in Seq(S), NEW t \in Seq(S), t # <<>>
  PROVE  Append(s, Head(t)) \o Tail(t) = s \o t
<1> DEFINE a == Append(s, Head(t))
           b == Tail(t)
<1>1. /\ a \in Seq(S) /\ b \in Seq(S) /\ Len(a) = Len(s) + 1 /\ Len(b) = Len(t) - 1
      /\ a[Len(a)] = t[1] /\ \A i \in 1..Len(s) : a[i] = s[i]
      /\ \A i \in 1..Len(b) : b[i] = t[i + 1]
      /\ Len(s) \in Nat /\ Len(t) \in Nat \ {0}
  OBVIOUS
<1> HIDE DEF a, b
<1>2. /\ a \o b \in Seq(S) /\ Len(a \o b) = Len(s) + Len(t)
      /\ \A i \in 1..(Len(s) + Len(t)) :
           (a \o b)[i] = IF i <= Len(a) THEN a[i] ELSE b[i - Len(a)]
  <2>1. Len(a) + Len(b) = Len(s) + Len(t) /\ a \in Seq(S) /\ b \in Seq(S)
    BY <1>1
  <2>2. /\ a \o b \in Seq(S) /\ Len(a \o b) = Len(a) + Len(b)
        /\ \A i \in 1..(Len(a) + Len(b)) :
             (a \o b)[i] = IF i <= Len(a) THEN a[i] ELSE b[i - Len(a)]
    BY <2>1, ConcatProperties, Zenon
  <2> QED
    BY <2>1, <2>2
<1>3. /\ s \o t \in Seq(S) /\ Len(s \o t) = Len(s) + Len(t)
      /\ \A i \in 1..(Len(s) + Len(t)) :
           (s \o t)[i] = IF i <= Len(s) THEN s[i] ELSE t[i - Len(s)]
  BY ConcatProperties
<1>4. ASSUME NEW i \in 1..(Len(s) + Len(t)) PROVE (a \o b)[i] = (s \o t)[i]
  <2>1. CASE i <= Len(s)
    BY <1>1, <1>2, <1>3, <2>1
  <2>2. CASE i = Len(s) + 1
    BY <1>1, <1>2, <1>3, <2>2
  <2>3. CASE i > Len(s) + 1
    <3>1. i - Len(a) \in 1..Len(b) /\ (i - Len(a)) + 1 = i - Len(s)
      BY <1>1, <2>3
    <3>2. (a \o b)[i] = b[i - Len(a)] /\ (s \o t)[i] = t[i - Len(s)]
      BY <1>1, <1>2, <1>3, <2>3
    <3>3. b[i - Len(a)] = t[(i - Len(a)) + 1]
      BY <1>1, <3>1
    <3> QED
      BY <3>1, <3>2, <3>3
  <2> QED
    BY <1>1, <2>1, <2>2, <2>3
<1>5. a \o b = s \o t
  BY <1>2, <1>3, <1>4, SeqEqual
<1> QED
  BY <1>5 DEF a, b

LEMMA SuffixOfConcat ==
  ASSUME NEW S, NEW s \in Seq(S), NEW t \in Seq(S)
  PROVE  SubSeq(s \o t, Len(s) + 1, Len(s \o t)) = t
<1> DEFINE u == SubSeq(s \o t, Len(s) + 1, Len(s \o t))
<1>1. /\ s \o t \in Seq(S) /\ Len(s \o t) = Len(s) + Len(t)
      /\ Len(s) \in Nat /\ Len(t) \in Nat
      /\ \A i \in 1..(Len(s) + Len(t)) :
           (s \o t)[i] = IF i <= Len(s) THEN s[i] ELSE t[i - Len(s)]
  BY ConcatProperties
<1>2. \A i \in (Len(s) + 1)..(Len(s) + Len(t)) : (s \o t)[i] \in S
  BY <1>1
<1>3. /\ u \in Seq(S) /\ Len(u) = Len(t)
      /\ \A i \in 1..Len(t) : u[i] = (s \o t)[Len(s) + i]
  <2>1. /\ SubSeq(s \o t, Len(s) + 1, Len(s) + Len(t)) \in Seq(S)
        /\ Len(SubSeq(s \o t, Len(s) + 1, Len(s) + Len(t)))
             = IF Len(s) + 1 <= Len(s) + Len(t) THEN (Len(s) + Len(t)) - (Len(s) + 1) + 1 ELSE 0
        /\ \A i \in 1..((Len(s) + Len(t)) - (Len(s) + 1) + 1) :
             SubSeq(s \o t, Len(s) + 1, Len(s) + Len(t))[i] = (s \o t)[(Len(s) + 1) + i - 1]
    BY <1>1, <1>2, SubSeqProperties
  <2> QED
    BY <1>1, <2>1
<1> HIDE DEF u
<1>4. \A i \in 1..Len(t) : u[i] = t[i]
  BY <1>1, <1>3
<1>5. u = t
  BY <1>3, <1>4, SeqEqual
<1> QED
  BY <1>5 DEF u

-----------------------------------------------------------------------------
(* The subscription *)

SubscriptionOK ==
  /\ {resolving, subscribed} \subseteq Protocols \union {None}
  /\ registered \in [Protocols -> Int]

\* Between its steps provider() has closed the subscription there was.
ResolvingIsClosed == resolving # None => subscribed = None

IInv == SubscriptionOK /\ ResolvingIsClosed /\ SubscribedOnce

USE PatrolAssumption DEF None

LEMMA InitIInv == Init => IInv
BY DEF Init, IInv, SubscriptionOK, ResolvingIsClosed, SubscribedOnce

LEMMA CloseKeeps ==
  ASSUME SubscriptionOK, SubscribedOnce, CloseSubscription
  PROVE  registered' \in [Protocols -> Int] /\ subscribed' = None /\ SubscribedOnce'
<1>1. subscribed' = None
  BY DEF CloseSubscription
<1>2. CASE registered' = [p \in Protocols |->
                            IF p = subscribed THEN registered[p] - 1 ELSE registered[p]]
  BY <1>1, <1>2 DEF SubscriptionOK, SubscribedOnce
<1>3. CASE subscribed \in Faulty /\ UNCHANGED registered
  BY <1>1, <1>3 DEF SubscriptionOK, SubscribedOnce
<1> QED
  BY <1>2, <1>3 DEF CloseSubscription

LEMMA NextIInv == IInv /\ [Next]_vars => IInv'
<1> SUFFICES ASSUME IInv, [Next]_vars PROVE IInv'
  OBVIOUS
<1> USE DEF IInv
<1>1. ASSUME UNCHANGED subscriptionVars PROVE IInv'
  BY <1>1 DEF subscriptionVars, SubscriptionOK, ResolvingIsClosed, SubscribedOnce
<1>2. CASE Resolve
  <2>1. resolving' \in Protocols /\ CloseSubscription
    BY <1>2 DEF Resolve
  <2> QED
    BY <2>1, CloseKeeps DEF SubscriptionOK, ResolvingIsClosed
<1>3. CASE Subscribe
  <2>1. resolving \in Protocols /\ subscribed = None
    BY <1>3 DEF Subscribe, SubscriptionOK, ResolvingIsClosed
  <2>2. /\ registered' = [registered EXCEPT ![resolving] = @ + 1]
        /\ resolving' = None
        /\ subscribed' \in {resolving, None}
        /\ resolving \notin Faulty => subscribed' = resolving
    BY <1>3 DEF Subscribe
  <2>3. registered' \in [Protocols -> Int]
    BY <2>1, <2>2 DEF SubscriptionOK
  <2>4. SubscribedOnce'
    <3> SUFFICES ASSUME NEW p \in Protocols \ Faulty
                 PROVE  registered'[p] = IF p = subscribed' THEN 1 ELSE 0
      BY DEF SubscribedOnce
    <3>1. registered[p] = 0
      BY <2>1 DEF SubscribedOnce
    <3>2. CASE p = resolving
      BY <2>1, <2>2, <3>1, <3>2 DEF SubscriptionOK
    <3>3. CASE p # resolving
      BY <2>1, <2>2, <3>1, <3>3 DEF SubscriptionOK
    <3> QED
      BY <3>2, <3>3
  <2> QED
    BY <2>1, <2>2, <2>3, <2>4 DEF SubscriptionOK, ResolvingIsClosed
<1>4. CASE SubscribeFails
  BY <1>4 DEF SubscribeFails, SubscriptionOK, ResolvingIsClosed, SubscribedOnce
<1>5. CASE Close
  <2>1. resolving' = None /\ CloseSubscription
    BY <1>5 DEF Close
  <2> QED
    BY <2>1, CloseKeeps DEF SubscriptionOK, ResolvingIsClosed
<1>6. CASE ClearEvents \/ Wipe
  BY <1>1, <1>6 DEF ClearEvents, Wipe
<1>7. ASSUME NEW t \in Threads, Emit(t) \/ Refuse(t) \/ Enter(t) \/ Evict(t) \/ AddLast(t)
      PROVE  IInv'
  BY <1>1, <1>7 DEF Emit, Refuse, Enter, Evict, AddLast
<1>8. CASE UNCHANGED vars
  BY <1>1, <1>8 DEF vars
<1> QED
  BY <1>2, <1>3, <1>4, <1>5, <1>6, <1>7, <1>8 DEF Next

\* provider() and closeSubscription() of PatrolConflictV2Client.java: no
\* sequence of replacements and failures makes a sound protocol call capture()
\* twice for one event, nor after it was replaced.
THEOREM OneRegistration == Spec => []SubscribedOnce
<1>1. Init => IInv
  BY InitIInv
<1>2. IInv /\ [Next]_vars => IInv'
  BY NextIInv
<1>3. IInv => SubscribedOnce
  BY DEF IInv
<1> QED
  BY <1>1, <1>2, <1>3, PTL DEF Spec

-----------------------------------------------------------------------------
(* The log *)

\* No suffix of the log that is longer than what is left of it has room for the
\* event that its evictions make room for.
NoEarlierRoom ==
  lock # None => \A k \in 0..(Len(gone) - 1) :
    ~Evidence!Fits(Append(SubSeq(gone \o live, k + 1, Len(gone \o live)), Head(call[lock])))

LogTypeOK ==
  /\ live \in Seq(Events) /\ gone \in Seq(Events)
  /\ chars \in Nat /\ nodes \in Nat /\ truncated \in Nat
  /\ lock \in Threads \union {None}
  /\ call \in [Threads -> Seq(Events)]

\* Only the holder of evidenceLock, which has a call to deliver, evicts.
Holder ==
  /\ lock # None => call[lock] # <<>>
  /\ lock = None => gone = <<>>
  /\ Len(gone) <= truncated /\ Len(live) <= MaxEvents

LInv == LogTypeOK /\ Holder /\ SumsAreTrue /\ NoEarlierRoom

LEMMA SameSize == \A size, s : Evidence!SizeOf(size, s) = SizeOf(size, s)
BY DEF SizeOf, Evidence!SizeOf

LEMMA FitsAppend ==
  ASSUME NEW s \in Seq(Events), NEW e \in Events
  PROVE  Evidence!Fits(Append(s, e)) <=>
           /\ Len(s) < MaxEvents
           /\ SizeOf(Characters, s) + Characters[e] <= MaxCharacters
           /\ SizeOf(Nodes, s) + Nodes[e] <= MaxNodes
<1>1. Len(Append(s, e)) = Len(s) + 1 /\ Len(s) \in Nat
  OBVIOUS
<1>2. /\ SizeOf(Characters, Append(s, e)) = SizeOf(Characters, s) + Characters[e]
      /\ SizeOf(Nodes, Append(s, e)) = SizeOf(Nodes, s) + Nodes[e]
  BY SizeOfAppend
<1>3. Evidence!Fits(Append(s, e)) <=>
        /\ Len(Append(s, e)) <= MaxEvents
        /\ SizeOf(Characters, Append(s, e)) <= MaxCharacters
        /\ SizeOf(Nodes, Append(s, e)) <= MaxNodes
  BY SameSize DEF Evidence!Fits
<1> QED
  BY <1>1, <1>2, <1>3

\* An event alone fits: the `while' of capture() ends with an append at last.
LEMMA AloneFits ==
  ASSUME NEW e \in Events
  PROVE  Evidence!Fits(Append(<<>>, e))
<1>1. <<>> \in Seq(Events) /\ Len(<<>>) = 0
  OBVIOUS
<1>2. Characters[e] \in Nat /\ Characters[e] <= MaxCharacters
      /\ Nodes[e] \in Nat /\ Nodes[e] <= MaxNodes
  OBVIOUS
<1>3. SizeOf(Characters, <<>>) = 0 /\ SizeOf(Nodes, <<>>) = 0
  BY SizeOfEmpty
<1>4. Evidence!Fits(Append(<<>>, e)) <=>
        /\ Len(<<>>) < MaxEvents
        /\ SizeOf(Characters, <<>>) + Characters[e] <= MaxCharacters
        /\ SizeOf(Nodes, <<>>) + Nodes[e] <= MaxNodes
  BY <1>1, FitsAppend
<1> QED
  BY <1>1, <1>2, <1>3, <1>4

LEMMA InitLInv == Init => LInv
<1> SUFFICES ASSUME Init PROVE LInv
  OBVIOUS
<1>1. <<>> \in Seq(Events) /\ Len(<<>>) = 0
  OBVIOUS
<1>2. SizeOf(Characters, <<>>) = 0 /\ SizeOf(Nodes, <<>>) = 0
  BY SizeOfEmpty
<1> QED
  BY <1>1, <1>2 DEF Init, LInv, LogTypeOK, Holder, SumsAreTrue, NoEarlierRoom

\* Steps that leave the log and the call of its holder alone.
LEMMA LogFrame ==
  ASSUME LInv, UNCHANGED <<evidenceVars, lock>>, call' \in [Threads -> Seq(Events)],
         lock # None => call'[lock] = call[lock]
  PROVE  LInv'
<1>1. UNCHANGED <<live, chars, nodes, truncated, gone, lock>>
  BY DEF evidenceVars, countVars
<1>2. LogTypeOK' /\ Holder'
  BY <1>1 DEF LInv, LogTypeOK, Holder
<1>3. SumsAreTrue'
  BY <1>1 DEF LInv, SumsAreTrue
<1>4. NoEarlierRoom'
  BY <1>1 DEF LInv, NoEarlierRoom
<1> QED
  BY <1>2, <1>3, <1>4 DEF LInv

LEMMA EmitKeeps ==
  ASSUME LInv, SubscriptionOK, NEW t \in Threads, Emit(t)
  PROVE  LInv'
<1>1. PICK e \in Events, p \in Protocols :
        registered[p] > 0 /\ call' = [call EXCEPT ![t] = [i \in 1..registered[p] |-> e]]
  BY DEF Emit
<1>2. [i \in 1..registered[p] |-> e] \in Seq(Events)
  <2>1. registered[p] \in Nat
    BY <1>1 DEF SubscriptionOK
  <2> QED
    BY <2>1
<1>3. call' \in [Threads -> Seq(Events)] /\ (lock # None => call'[lock] = call[lock])
  BY <1>1, <1>2 DEF Emit, LInv, LogTypeOK, Holder
<1> QED
  BY <1>3, LogFrame DEF Emit

LEMMA EvictKeeps ==
  ASSUME LInv, NEW t \in Threads, Evict(t)
  PROVE  LInv' /\ gone' \o live' = gone \o live
<1> DEFINE e == Head(call[t])
<1>1. /\ lock = t /\ lock' = t /\ call' = call /\ t # None
      /\ live # <<>> /\ live \in Seq(Events) /\ gone \in Seq(Events)
      /\ live' = Tail(live) /\ gone' = Append(gone, Head(live))
      /\ truncated' = truncated + 1
      /\ ~HasRoom(e) /\ call[t] # <<>> /\ call[t] \in Seq(Events) /\ e \in Events
  <2>1. /\ lock = t /\ lock' = t /\ call' = call /\ live # <<>> /\ live' = Tail(live)
        /\ gone' = Append(gone, Head(live)) /\ truncated' = truncated + 1 /\ ~HasRoom(e)
    BY DEF Evict, callVars
  <2>2. /\ live \in Seq(Events) /\ gone \in Seq(Events) /\ call[t] \in Seq(Events)
    BY DEF LInv, LogTypeOK
  <2>3. t # None
    BY PatrolAssumption
  <2>4. call[t] # <<>>
    BY <2>1, <2>3 DEF LInv, Holder
  <2>5. e \in Events
    BY <2>2, <2>4
  <2> QED
    BY <2>1, <2>2, <2>3, <2>4, <2>5
<1>2. /\ chars = SizeOf(Characters, live) /\ nodes = SizeOf(Nodes, live)
      /\ chars' = chars - Characters[Head(live)] /\ nodes' = nodes - Nodes[Head(live)]
      /\ chars <= MaxCharacters /\ nodes <= MaxNodes
  BY DEF Evict, LInv, SumsAreTrue
<1>3. /\ live' \in Seq(Events) /\ Len(live') = Len(live) - 1 /\ Head(live) \in Events
      /\ gone' \in Seq(Events) /\ Len(gone') = Len(gone) + 1
      /\ Len(live) \in Nat /\ Len(gone) \in Nat
  <2> HIDE DEF e
  <2>1. /\ live \in Seq(Events) /\ live # <<>> /\ live' = Tail(live) /\ gone \in Seq(Events)
        /\ gone' = Append(gone, Head(live))
    BY <1>1
  <2>2. Head(live) \in Events /\ Len(live) \in Nat /\ Len(gone) \in Nat
    BY <2>1, Zenon, HeadTailProperties, LenProperties
  <2>3. live' \in Seq(Events) /\ Len(live') = Len(live) - 1
    BY <2>1, HeadTailProperties
  <2>4. gone' \in Seq(Events) /\ Len(gone') = Len(gone) + 1
    BY <2>1, <2>2, AppendProperties
  <2> QED
    BY <2>2, <2>3, <2>4
<1>4. /\ SizeOf(Characters, live') = chars' /\ chars' \in Nat /\ chars' <= MaxCharacters
      /\ SizeOf(Nodes, live') = nodes' /\ nodes' \in Nat /\ nodes' <= MaxNodes
  <2>1. /\ SizeOf(Characters, live) = Characters[Head(live)] + SizeOf(Characters, Tail(live))
        /\ SizeOf(Nodes, live) = Nodes[Head(live)] + SizeOf(Nodes, Tail(live))
    BY <1>1, SizeOfTail
  <2>2. SizeOf(Characters, Tail(live)) \in Nat /\ SizeOf(Nodes, Tail(live)) \in Nat
    BY <1>1, <1>3, SizeOfNat
  <2>3. Characters[Head(live)] \in Nat /\ Nodes[Head(live)] \in Nat
    BY <1>3
  <2>4. chars' = SizeOf(Characters, Tail(live)) /\ nodes' = SizeOf(Nodes, Tail(live))
    BY <1>2, <2>1, <2>2, <2>3
  <2>5. SizeOf(Characters, Tail(live)) <= MaxCharacters /\ SizeOf(Nodes, Tail(live)) <= MaxNodes
    BY <1>2, <2>1, <2>2, <2>3
  <2>6. live' = Tail(live)
    BY <1>1
  <2> QED
    BY <2>2, <2>4, <2>5, <2>6
<1>5. gone' \o live' = gone \o live
  BY <1>1, ConcatShift
<1>6. LogTypeOK' /\ SumsAreTrue'
  BY <1>1, <1>3, <1>4 DEF LInv, LogTypeOK, SumsAreTrue
<1>7. Holder'
  BY <1>1, <1>3 DEF LInv, LogTypeOK, Holder
<1>8. NoEarlierRoom'
  <2> SUFFICES ASSUME NEW k \in 0..Len(gone)
               PROVE  ~Evidence!Fits(Append(SubSeq(gone \o live, k + 1, Len(gone \o live)), e))
    <3>1. Len(gone') - 1 = Len(gone) /\ Head(call'[lock']) = e /\ lock' = t
      BY <1>1, <1>3
    <3> HIDE DEF e
    <3> QED
      BY <1>5, <3>1 DEF NoEarlierRoom
  <2>1. CASE k < Len(gone)
    BY <1>1, <1>3, <2>1 DEF LInv, NoEarlierRoom
  <2>2. CASE k = Len(gone)
    <3>1. SubSeq(gone \o live, k + 1, Len(gone \o live)) = live
      BY <1>1, <2>2, SuffixOfConcat
    <3>2. ~Evidence!Fits(Append(live, e))
      BY <1>1, <1>2, <1>3, FitsAppend DEF HasRoom
    <3> QED
      BY <3>1, <3>2
  <2> QED
    BY <1>3, <2>1, <2>2
<1> QED
  BY <1>5, <1>6, <1>7, <1>8 DEF LInv

LEMMA AddLastKeeps ==
  ASSUME LInv, NEW t \in Threads, AddLast(t)
  PROVE  LInv' /\ Evidence!Accept
<1> DEFINE e == Head(call[t])
<1>1. /\ lock = t /\ lock' = None /\ t # None
      /\ live \in Seq(Events) /\ gone \in Seq(Events)
      /\ live' = Append(live, e) /\ gone' = <<>> /\ truncated' = truncated
      /\ call[t] # <<>> /\ call[t] \in Seq(Events) /\ call' = [call EXCEPT ![t] = Tail(@)]
      /\ e \in Events
  BY DEF AddLast, Delivered, LInv, LogTypeOK, Holder
<1>2. /\ chars' = SizeOf(Characters, live) + Characters[e]
      /\ nodes' = SizeOf(Nodes, live) + Nodes[e]
  BY DEF AddLast, LInv, SumsAreTrue
<1>3. /\ Len(live) < MaxEvents
      /\ SizeOf(Characters, live) + Characters[e] <= MaxCharacters
      /\ SizeOf(Nodes, live) + Nodes[e] <= MaxNodes
  <2>1. CASE live = <<>>
    <3>1. Evidence!Fits(Append(live, e))
      BY <1>1, <2>1, AloneFits
    <3> QED
      BY <1>1, <3>1, FitsAppend
  <2>2. CASE HasRoom(e)
    BY <2>2 DEF HasRoom, LInv, SumsAreTrue
  <2> QED
    BY <2>1, <2>2 DEF AddLast
<1>4. /\ live' \in Seq(Events) /\ Len(live') = Len(live) + 1 /\ Len(live) \in Nat
      /\ chars' = SizeOf(Characters, live') /\ nodes' = SizeOf(Nodes, live')
  <2> HIDE DEF e
  <2>1. live \in Seq(Events) /\ e \in Events /\ live' = Append(live, e)
    BY <1>1
  <2>2. live' \in Seq(Events) /\ Len(live') = Len(live) + 1 /\ Len(live) \in Nat
    BY <2>1, AppendProperties, LenProperties
  <2>3. /\ SizeOf(Characters, live') = SizeOf(Characters, live) + Characters[e]
        /\ SizeOf(Nodes, live') = SizeOf(Nodes, live) + Nodes[e]
    BY <2>1, SizeOfAppend
  <2> QED
    BY <1>2, <2>2, <2>3
<1>5. LogTypeOK'
  <2>1. chars' \in Nat /\ nodes' \in Nat
    BY <1>4, SizeOfNat
  <2>2. call' \in [Threads -> Seq(Events)]
    BY <1>1 DEF LInv, LogTypeOK
  <2> QED
    BY <1>1, <1>4, <2>1, <2>2 DEF LInv, LogTypeOK
<1>6. Holder' /\ SumsAreTrue' /\ NoEarlierRoom'
  <2>1. Holder'
    BY <1>1, <1>3, <1>4 DEF LInv, LogTypeOK, Holder
  <2>2. SumsAreTrue'
    BY <1>2, <1>3, <1>4 DEF SumsAreTrue
  <2>3. NoEarlierRoom'
    BY <1>1 DEF NoEarlierRoom
  <2> QED
    BY <2>1, <2>2, <2>3
<1>7. Evidence!Accept
  <2> DEFINE kept       == gone \o live
             without(k) == Append(SubSeq(kept, k + 1, Len(kept)), e)
  <2>1. without(Len(gone)) = Append(live, e)
    BY <1>1, SuffixOfConcat
  <2>2. Evidence!Fits(without(Len(gone)))
    BY <1>1, <1>3, <2>1, FitsAppend
  <2>3. \A k \in 0..(Len(gone) - 1) : ~Evidence!Fits(without(k))
    BY <1>1 DEF LInv, NoEarlierRoom
  <2>4. gone' \o live' = without(Len(gone))
    <3>1. <<>> \o live' = live'
      BY <1>4, ConcatEmptySeq
    <3> HIDE DEF without
    <3> QED
      BY <1>1, <2>1, <3>1
  <2>5. truncated' - Len(gone') = (truncated - Len(gone)) + Len(gone)
    BY <1>1 DEF LInv, LogTypeOK
  <2>6. Len(gone) \in 0..Len(kept)
    BY <1>1, ConcatProperties
  <2> HIDE DEF e
  <2> QED
    BY <1>1, <2>2, <2>3, <2>4, <2>5, <2>6 DEF Evidence!Accept
<1> QED
  BY <1>5, <1>6, <1>7 DEF LInv

LEMMA WipesKeep ==
  ASSUME LInv, ClearEvents \/ Wipe
  PROVE  LInv' /\ (Evidence!Clear \/ Evidence!Shut)
<1>1. /\ lock = None /\ lock' = None /\ call' = call /\ gone = <<>> /\ gone' = <<>>
      /\ live' = <<>> /\ chars' = 0 /\ nodes' = 0
      /\ ((truncated' = 0 /\ ClearEvents) \/ truncated' = truncated)
      /\ truncated \in Nat
  BY DEF ClearEvents, Wipe, callVars, LInv, LogTypeOK, Holder
<1>2. <<>> \in Seq(Events) /\ Len(<<>>) = 0 /\ <<>> \o <<>> = <<>>
  OBVIOUS
<1>3. SizeOf(Characters, <<>>) = 0 /\ SizeOf(Nodes, <<>>) = 0
  BY SizeOfEmpty
<1>4. LogTypeOK' /\ Holder' /\ SumsAreTrue' /\ NoEarlierRoom'
  <2>1. LogTypeOK'
    BY <1>1, <1>2 DEF LInv, LogTypeOK
  <2>2. Holder' /\ NoEarlierRoom'
    BY <1>1, <1>2 DEF Holder, NoEarlierRoom
  <2>3. SumsAreTrue'
    BY <1>1, <1>3 DEF SumsAreTrue
  <2> QED
    BY <2>1, <2>2, <2>3
<1>5. Evidence!Clear \/ Evidence!Shut
  BY <1>1, <1>2 DEF Evidence!Clear, Evidence!Shut
<1> QED
  BY <1>4, <1>5 DEF LInv

\* Steps that the log has no part in.
Elsewhere ==
  \/ Resolve \/ Subscribe \/ SubscribeFails \/ Close
  \/ \E t \in Threads : Emit(t) \/ Refuse(t) \/ Enter(t)

LEMMA ElsewhereKeeps ==
  ASSUME LInv, SubscriptionOK, Elsewhere
  PROVE  LInv' /\ UNCHANGED <<gone, live, truncated>>
<1>1. CASE Resolve \/ Subscribe \/ SubscribeFails \/ Close
  <2>1. UNCHANGED <<evidenceVars, callVars>>
    BY <1>1 DEF Resolve, Subscribe, SubscribeFails, Close
  <2>2. LInv'
    BY <2>1, LogFrame DEF callVars, LInv, LogTypeOK
  <2> QED
    BY <2>1, <2>2 DEF evidenceVars, countVars
<1>2. ASSUME NEW t \in Threads, Emit(t) PROVE LInv' /\ UNCHANGED <<gone, live, truncated>>
  BY <1>2, EmitKeeps DEF Emit, evidenceVars, countVars
<1>3. ASSUME NEW t \in Threads, Refuse(t) PROVE LInv' /\ UNCHANGED <<gone, live, truncated>>
  <2>1. /\ UNCHANGED <<evidenceVars, lock>> /\ lock = None /\ call[t] # <<>>
        /\ call[t] \in Seq(Events) /\ call' = [call EXCEPT ![t] = Tail(@)]
    BY <1>3 DEF Refuse, Delivered, LInv, LogTypeOK
  <2>2. call' \in [Threads -> Seq(Events)]
    BY <2>1 DEF LInv, LogTypeOK
  <2> QED
    BY <2>1, <2>2, LogFrame DEF evidenceVars, countVars
<1>4. ASSUME NEW t \in Threads, Enter(t) PROVE LInv' /\ UNCHANGED <<gone, live, truncated>>
  <2>1. /\ UNCHANGED <<live, chars, nodes, truncated, gone, call>>
        /\ lock = None /\ lock' = t /\ call[t] # <<>> /\ gone = <<>> /\ Len(<<>>) = 0
    BY <1>4 DEF Enter, evidenceVars, countVars, LInv, Holder
  <2>2. LogTypeOK' /\ Holder' /\ SumsAreTrue'
    BY <2>1 DEF LInv, LogTypeOK, Holder, SumsAreTrue
  <2>3. NoEarlierRoom'
    BY <2>1 DEF NoEarlierRoom
  <2> QED
    BY <2>1, <2>2, <2>3 DEF LInv
<1> QED
  BY <1>1, <1>2, <1>3, <1>4 DEF Elsewhere

\* Each step of the adapter keeps the invariant, and is a step of EvidenceLog
\* or none that it sees.
LEMMA StepOfLog ==
  IInv /\ LInv /\ [Next]_vars =>
    LInv' /\ [Evidence!Next]_<<gone \o live, truncated - Len(gone)>>
<1> SUFFICES ASSUME IInv, LInv, [Next]_vars
             PROVE  LInv' /\ [Evidence!Next]_<<gone \o live, truncated - Len(gone)>>
  OBVIOUS
<1>1. SubscriptionOK
  BY DEF IInv
<1>2. CASE Elsewhere
  BY <1>1, <1>2, ElsewhereKeeps
<1>3. CASE ClearEvents \/ Wipe
  BY <1>3, WipesKeep DEF Evidence!Next
<1>4. ASSUME NEW t \in Threads, Evict(t)
      PROVE  LInv' /\ UNCHANGED <<gone \o live, truncated - Len(gone)>>
  <2>1. truncated' = truncated + 1 /\ Len(gone') = Len(gone) + 1
        /\ truncated \in Nat /\ Len(gone) \in Nat
    BY <1>4 DEF Evict, LInv, LogTypeOK
  <2>2. truncated' - Len(gone') = truncated - Len(gone)
    BY <2>1
  <2>3. LInv' /\ gone' \o live' = gone \o live
    BY <1>4, EvictKeeps
  <2> QED
    BY <2>2, <2>3
<1>5. ASSUME NEW t \in Threads, AddLast(t) PROVE LInv' /\ Evidence!Next
  BY <1>5, AddLastKeeps DEF Evidence!Next
<1>6. CASE UNCHANGED vars
  <2>1. UNCHANGED <<evidenceVars, callVars>>
    BY <1>6 DEF vars
  <2>2. LInv'
    BY <2>1, LogFrame DEF callVars, LInv, LogTypeOK
  <2> QED
    BY <2>1, <2>2 DEF evidenceVars, countVars
<1> QED
  BY <1>2, <1>3, <1>4, <1>5, <1>6 DEF Next, Elsewhere

LEMMA Invariance == Spec => [](IInv /\ LInv)
<1>1. Init => IInv /\ LInv
  BY InitIInv, InitLInv
<1>2. IInv /\ LInv /\ [Next]_vars => (IInv /\ LInv)'
  BY NextIInv, StepOfLog
<1> QED
  BY <1>1, <1>2, PTL DEF Spec

\* capture(): the two sums are those of the log, whatever is evicted, cleared
\* or emitted at once, so that no bound is ever passed or kept too early.
THEOREM TrueSums == Spec => []SumsAreTrue
<1>1. LInv => SumsAreTrue
  BY DEF LInv
<1> QED
  BY <1>1, Invariance, PTL

\* capture(), clearEvents() and close() on liveEvents and truncatedLiveEvents:
\* the log implements EvidenceLog, for any threads, events, sizes and bounds.
THEOREM ImplementsEvidenceLog == Spec => EvidenceKept
<1>1. Init => Evidence!Init
  <2> SUFFICES ASSUME Init PROVE Evidence!Init
    OBVIOUS
  <2>1. gone = <<>> /\ live = <<>> /\ truncated = 0
    BY DEF Init
  <2>2. gone \o live = <<>>
    BY <2>1
  <2>3. truncated - Len(gone) = 0
    <3>1. Len(gone) = 0 /\ truncated = 0
      BY <2>1
    <3>2. 0 - 0 = 0
      OBVIOUS
    <3> QED
      BY <3>1, <3>2, Zenon
  <2> QED
    BY <2>2, <2>3 DEF Evidence!Init
<1>2. IInv /\ LInv /\ [Next]_vars =>
        [Evidence!Next]_<<gone \o live, truncated - Len(gone)>>
  BY StepOfLog
<1> QED
  BY <1>1, <1>2, Invariance, PTL DEF Spec, EvidenceKept, Evidence!Spec
=================================================================================
