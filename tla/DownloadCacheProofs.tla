------------------------- MODULE DownloadCacheProofs -------------------------
(***************************************************************************)
(* The safety of the artifact cache for any number of invocations, any     *)
(* list of artifacts, whatever files they share, and files of any length.  *)
(***************************************************************************)
EXTENDS DownloadCache, TLAPS

\* The specification without its fairness: all that the safety rests on.
SafeSpec == Init /\ [][Next]_vars

States == [pc : Pcs, k : 1..Len(Plan), pos : 1..Chunks, body : Contents]

\* The artifact of place j is prepared, summed or installed by p.
Prepared(p, j)  == \/ proc[p].pc \in {"sum", "copy"}
                   \/ proc[p].pc \in Hashing \union {"exists", "fetch", "write"} /\ j < proc[p].k
Summed(p, j)    == proc[p].pc = "copy" \/ (proc[p].pc = "sum" /\ j < proc[p].k)
InPlace(p, j)   == proc[p].pc = "ready" \/ (proc[p].pc = "copy" /\ j < proc[p].k)

\* What holds while invocations follow one another: one is under way at most,
\* only a download writes, what was accepted stays as it is unless another
\* artifact is downloaded to its file, and so does what was read of the file
\* that is hashed.  Neither property of the run directory is inductive without.
OneAtATime == \A p, q \in Procs : Active(p) /\ Active(q) => p = q

SuppliedIsRead(p) ==
  proc[p].pc \in {"hash", "fetch", "write", "verify"} => Artifact(p) \notin Supplied

AcceptedIsFull(p) ==
  \A j \in 1..Len(Plan) :
    Prepared(p, j) /\ Plan[j] \in Checked /\ OwnFile(Plan[j]) =>
      disk[Source[Plan[j]]] = Full(Plan[j])

ReadIsGood(p) ==
  proc[p].pc \in Hashing =>
    \A i \in 1..Chunks : i < proc[p].pos => disk[File(p)][i] = Artifact(p)

SummedIsCached(p) ==
  \A j \in 1..Len(Plan) : Summed(p, j) => emitted[p][Plan[j]] = disk[Source[Plan[j]]]

InPlaceIsSummed(p) ==
  \A j \in 1..Len(Plan) :
    InPlace(p, j) /\ OwnCopy(Copied(j)) =>
      installed[p][Target[Copied(j)]] = emitted[p][Copied(j)]

PinnedInPlace(p) ==
  \A a \in Checked \intersect Artifacts :
    OwnFile(a) /\ OwnCopy(a) => installed[p][Target[a]] \in {Empty, Full(a)}

Orderly(p) ==
  /\ SuppliedIsRead(p) /\ AcceptedIsFull(p) /\ ReadIsGood(p)
  /\ SummedIsCached(p) /\ InPlaceIsSummed(p) /\ PinnedInPlace(p)

SerialInv == OneAtATime /\ \A p \in Procs : Orderly(p)

-----------------------------------------------------------------------------
LEMMA PlanFacts == /\ Len(Plan) \in Nat \ {0}
                   /\ \A j \in 1..Len(Plan) : Plan[j] \in Artifacts
                   /\ \A a \in Artifacts : \E j \in 1..Len(Plan) : a = Plan[j]
BY CacheAssumption DEF Artifacts

LEMMA NameFacts == /\ Supplied \subseteq Artifacts
                   /\ \A a \in Artifacts : Source[a] \in Paths
                   /\ \A a \in Artifacts : a \in Contents /\ a # "hole" /\ a # "bad"
                   /\ "bad" \in Contents /\ "hole" \notin Contents
                   /\ \A f \in Brought : f \in Paths
                   /\ \A a \in Artifacts : Target[a] = "none" \/ Target[a] \in Targets
BY CacheAssumption DEF Paths, Contents, Brought, Targets

LEMMA CopiedFacts == /\ \A k \in 1..Len(Plan) : Copied(k) \in Artifacts
                     /\ \A a \in Artifacts : \E k \in 1..Len(Plan) : a = Copied(k)
<1>1. ASSUME NEW k \in 1..Len(Plan) PROVE Copied(k) \in Artifacts
  BY PlanFacts DEF Copied
<1>2. ASSUME NEW a \in Artifacts PROVE \E k \in 1..Len(Plan) : a = Copied(k)
  <2>1. PICK j \in 1..Len(Plan) : a = Plan[j]
    BY PlanFacts
  <2>2. CASE j = 1
    BY <2>1, <2>2, PlanFacts DEF Copied
  <2>3. CASE j # 1
    <3>1. j - 1 \in 1..Len(Plan) /\ j - 1 < Len(Plan) /\ (j - 1) + 1 = j
      BY <2>3, PlanFacts
    <3> QED
      BY <2>1, <3>1 DEF Copied
  <2> QED
    BY <2>2, <2>3
<1> QED
  BY <1>1, <1>2

LEMMA BoundFacts == Chunks \in Nat \ {0} /\ MaxRuns \in Nat
BY CacheAssumption

USE BoundFacts

LEMMA AtIsState ==
  ASSUME NEW pc \in Pcs, NEW k \in 1..Len(Plan), NEW body \in Contents
  PROVE  At(pc, k, body) \in States
BY DEF At, States

LEMMA FilesFacts == /\ Empty \in Files
                    /\ \A c \in Contents : Full(c) \in Files
                    /\ [a \in Artifacts |-> Empty] \in [Artifacts -> Files]
                    /\ [t \in Targets |-> Empty] \in [Targets -> Files]
BY DEF Empty, Full, Files

\* The three ways in which an invocation moves keep it a state.
LEMMA GotoIsState ==
  ASSUME TypeOK, NEW p \in Procs, NEW pc \in Pcs, Goto(p, pc)
  PROVE  proc' \in [Procs -> States]
<1>1. At(pc, proc[p].k, "bad") \in States
  BY AtIsState, NameFacts DEF TypeOK, States
<1> QED
  BY <1>1 DEF TypeOK, Goto, States

LEMMA AdvanceIsState ==
  ASSUME TypeOK, NEW p \in Procs, NEW pc \in Pcs, NEW then \in Pcs, Advance(p, pc, then)
  PROVE  proc' \in [Procs -> States]
<1>1. CASE proc[p].k < Len(Plan)
  <2>0. proc[p].k + 1 \in 1..Len(Plan)
    BY <1>1, PlanFacts DEF TypeOK
  <2>1. At(pc, proc[p].k + 1, "bad") \in States
    BY <2>0, NameFacts, AtIsState
  <2> QED
    BY <1>1, <2>1 DEF TypeOK, Advance, States
<1>2. CASE ~(proc[p].k < Len(Plan))
  <2>1. At(then, 1, "bad") \in States
    BY PlanFacts, NameFacts, AtIsState
  <2> QED
    BY <1>2, <2>1 DEF TypeOK, Advance, States
<1> QED
  BY <1>1, <1>2

LEMMA SeekIsState ==
  ASSUME TypeOK, NEW p \in Procs, proc[p].pos < Chunks, Seek(p)
  PROVE  proc' \in [Procs -> States]
<1>1. proc[p].pos + 1 \in 1..Chunks
  BY DEF TypeOK
<1>2. proc' = [proc EXCEPT ![p] = [proc[p] EXCEPT !.pos = proc[p].pos + 1]]
  BY DEF Seek
<1>3. proc \in [Procs -> States]
  BY DEF TypeOK, States
<1>4. [proc[p] EXCEPT !.pos = proc[p].pos + 1] \in States
  BY <1>1, <1>3 DEF States
<1> QED
  BY <1>2, <1>3, <1>4

LEMMA InitType == Init => TypeOK
<1> SUFFICES ASSUME Init PROVE TypeOK
  OBVIOUS
<1>1. At("idle", 1, "bad") \in States
  <2>1. "idle" \in Pcs /\ 1 \in 1..Len(Plan)
    BY PlanFacts DEF Pcs
  <2> QED
    BY <2>1, NameFacts, AtIsState
<1>2. proc \in [Procs -> States]
  BY <1>1 DEF Init
<1>3. runs \in [Procs -> 0..MaxRuns]
  BY DEF Init
<1>4. disk \in [Paths -> Files]
  BY FilesFacts DEF Init
<1>5. exists \subseteq Paths /\ interrupted \subseteq Paths
  BY NameFacts DEF Init
<1> QED
  BY <1>2, <1>3, <1>4, <1>5, FilesFacts DEF Init, TypeOK, States

LEMMA ArtifactIsOne ==
  ASSUME TypeOK, NEW p \in Procs PROVE Artifact(p) \in Artifacts /\ File(p) \in Paths
BY PlanFacts, NameFacts DEF TypeOK, Artifact, File

LEMMA NextType == TypeOK /\ [Next]_vars => TypeOK'
<1> SUFFICES ASSUME TypeOK, [Next]_vars PROVE TypeOK'
  OBVIOUS
<1> USE DEF Pcs, Busy, Hashing
<1>1. CASE UNCHANGED vars
  BY <1>1 DEF TypeOK, vars, cache, results
<1>2. ASSUME NEW p \in Procs, Start(p) PROVE TypeOK'
  <2>1. At("exists", 1, "bad") \in States
    BY PlanFacts, NameFacts, AtIsState
  <2>2. runs' \in [Procs -> 0..MaxRuns]
    BY <1>2 DEF Start, TypeOK
  <2>3. overlapped' \in BOOLEAN
    BY <1>2 DEF Start, TypeOK
  <2> QED
    BY <1>2, <2>1, <2>2, <2>3, FilesFacts DEF Start, TypeOK, cache, States
<1>3. ASSUME NEW p \in Procs, Step(p) \/ Crash(p) PROVE TypeOK'
  <2>0. Artifact(p) \in Artifacts /\ File(p) \in Paths
    BY ArtifactIsOne
  <2>a. ASSUME proc' \in [Procs -> States], UNCHANGED <<cache, runs, results, overlapped>>
        PROVE  TypeOK'
    BY <2>a DEF TypeOK, States, cache, results
  <2>1. CASE LookUp(p)
    BY <2>1, <2>a, GotoIsState, AdvanceIsState DEF LookUp, Accept
  <2>2. CASE Refuse(p)
    BY <2>2, <2>a, GotoIsState DEF Refuse
  <2>3. CASE HashMatches(p)
    BY <2>3, <2>a, GotoIsState, AdvanceIsState, SeekIsState DEF HashMatches, Accept
  <2>4. CASE HashDiffers(p)
    BY <2>4, <2>a, GotoIsState DEF HashDiffers
  <2>5. CASE FetchFails(p)
    BY <2>5, <2>a, GotoIsState DEF FetchFails
  <2>6. CASE Fetch(p)
    <3>1. PICK body \in {Artifact(p), "bad"} :
            proc' = [proc EXCEPT ![p] = At("write", proc[p].k, body)]
      BY <2>6 DEF Fetch
    <3>2. At("write", proc[p].k, body) \in States
      BY <2>0, NameFacts, AtIsState DEF TypeOK, Pcs, Busy
    <3>3. proc' \in [Procs -> States]
      BY <3>1, <3>2 DEF TypeOK, States
    <3> QED
      BY <2>6, <2>0, <3>3, FilesFacts DEF Fetch, TypeOK, States, results
  <2>7. CASE WriteChunk(p)
    <3>1. proc' \in [Procs -> States]
      BY <2>7, GotoIsState, AdvanceIsState, SeekIsState DEF WriteChunk, Downloaded, Accept
    <3>2. proc[p].body \in Contents /\ proc[p].pos \in 1..Chunks
      BY DEF TypeOK
    <3>3. disk' \in [Paths -> Files]
      BY <2>7, <2>0, <3>2 DEF WriteChunk, TypeOK, Files
    <3> QED
      BY <2>7, <3>1, <3>3 DEF WriteChunk, TypeOK, States, results
  <2>8. CASE Sum(p)
    <3>1. proc' \in [Procs -> States]
      BY <2>8, AdvanceIsState DEF Sum
    <3>2. emitted' \in [Procs -> [Artifacts -> Files]]
      BY <2>8, <2>0 DEF Sum, TypeOK
    <3> QED
      BY <2>8, <3>1, <3>2 DEF Sum, TypeOK, States, cache
  <2>9. CASE Install(p)
    <3>1. proc' \in [Procs -> States]
      BY <2>9, AdvanceIsState DEF Install
    <3>2. Copied(proc[p].k) \in Artifacts
      BY CopiedFacts DEF TypeOK
    <3>3. installed' \in [Procs -> [Targets -> Files]]
      BY <2>9, <3>2, NameFacts DEF Install, TypeOK
    <3> QED
      BY <2>9, <3>1, <3>3 DEF Install, TypeOK, States, cache
  <2>10. CASE Crash(p)
    BY <2>10, <2>0, GotoIsState DEF Crash, TypeOK, States, results
  <2> QED
    BY <1>3, <2>1, <2>2, <2>3, <2>4, <2>5, <2>6, <2>7, <2>8, <2>9, <2>10 DEF Step
<1> QED
  BY <1>1, <1>2, <1>3 DEF Next

\* TypeOK: the state of the cache and of every invocation is what the code's
\* variables can hold.
THEOREM TypeCorrect == SafeSpec => []TypeOK
<1> QED
  BY InitType, NextType, PTL DEF SafeSpec

\* A step of p moves p alone.
LEMMA OnlyOneMoves ==
  ASSUME TypeOK, NEW p \in Procs, Start(p) \/ Step(p) \/ Crash(p)
  PROVE  /\ \A q \in Procs : q # p => /\ proc'[q] = proc[q]
                                     /\ Artifact(q)' = Artifact(q) /\ File(q)' = File(q)
         /\ Artifact(p) \in Artifacts /\ File(p) \in Paths
<1>1. PICK state : proc' = [proc EXCEPT ![p] = state]
  BY DEF Start, Step, LookUp, Refuse, HashMatches, HashDiffers, FetchFails, Fetch,
         WriteChunk, Downloaded, Sum, Install, Crash, Goto, Seek, Advance, Accept
<1> QED
  BY <1>1, ArtifactIsOne DEF TypeOK, Artifact, File

\* A chunk that is missing stays in front of the one that will write it.
LEMMA NextHoles == TypeOK /\ HolesAreBeingWritten /\ [Next]_vars => HolesAreBeingWritten'
<1> SUFFICES ASSUME TypeOK, HolesAreBeingWritten, [Next]_vars,
                    NEW f \in (exists \ interrupted)', NEW i \in 1..Chunks,
                    disk'[f][i] = "hole"
             PROVE  \E q \in Procs : /\ proc'[q].pc = "write"
                                     /\ File(q)' = f /\ proc'[q].pos <= i
  BY DEF HolesAreBeingWritten
<1>1. CASE UNCHANGED vars
  BY <1>1 DEF HolesAreBeingWritten, vars, cache, Artifact, File
<1>2. ASSUME NEW p \in Procs, Start(p) \/ Step(p) \/ Crash(p)
      PROVE  \E q \in Procs : /\ proc'[q].pc = "write"
                              /\ File(q)' = f /\ proc'[q].pos <= i
  \* Whatever leaves the files alone and is not a step of the writer.
  <2>1. ASSUME proc[p].pc # "write", UNCHANGED cache
        PROVE  \E q \in Procs : /\ proc'[q].pc = "write"
                                /\ File(q)' = f /\ proc'[q].pos <= i
    <3>1. PICK q \in Procs : proc[q].pc = "write" /\ File(q) = f /\ proc[q].pos <= i
      BY <2>1 DEF HolesAreBeingWritten, cache
    <3> QED
      BY <1>2, <2>1, <3>1, OnlyOneMoves
  <2>2. CASE Start(p)
    BY <2>1, <2>2 DEF Start, Active, Busy
  <2>3. CASE LookUp(p) \/ Refuse(p) \/ HashMatches(p) \/ HashDiffers(p) \/ FetchFails(p)
    BY <2>1, <2>3 DEF LookUp, Refuse, HashMatches, HashDiffers, FetchFails, Hashing
  <2>4. CASE Sum(p) \/ Install(p)
    BY <2>1, <2>4 DEF Sum, Install
  <2>5. CASE Fetch(p)
    <3>1. CASE f = File(p)
      BY <2>5, <3>1 DEF Fetch, At, Artifact, File, TypeOK
    <3>2. CASE f # File(p)
      <4>1. PICK q \in Procs : proc[q].pc = "write" /\ File(q) = f /\ proc[q].pos <= i
        BY <2>5, <3>2 DEF HolesAreBeingWritten, Fetch, TypeOK
      <4> QED
        BY <1>2, <2>5, <4>1, OnlyOneMoves DEF Fetch
    <3> QED
      BY <3>1, <3>2
  <2>6. CASE WriteChunk(p)
    <3>0. /\ disk' = [disk EXCEPT ![File(p)][proc[p].pos] = proc[p].body]
          /\ exists' = exists /\ interrupted' = interrupted
      BY <2>6 DEF WriteChunk
    <3>1. disk[f][i] = "hole" /\ f \in exists \ interrupted
      <4>1. proc[p].body # "hole" /\ proc[p].pos \in 1..Chunks
        BY NameFacts DEF TypeOK
      <4>2. f \in Paths /\ disk[f] \in [1..Chunks -> Contents \union {"hole"}]
        BY <3>0 DEF TypeOK, Files
      <4>3. disk'[f] = IF f = File(p) THEN [disk[f] EXCEPT ![proc[p].pos] = proc[p].body]
                       ELSE disk[f]
        BY <3>0, <4>2 DEF TypeOK
      <4> QED
        BY <3>0, <4>1, <4>2, <4>3
    <3>2. PICK q \in Procs : proc[q].pc = "write" /\ File(q) = f /\ proc[q].pos <= i
      BY <3>1 DEF HolesAreBeingWritten
    <3>3. CASE q # p
      BY <1>2, <3>2, <3>3, OnlyOneMoves
    <3>4. CASE q = p
      <4>1. proc[p].pos # i
        BY <2>6, <3>2, <3>4, NameFacts DEF WriteChunk, TypeOK, Files
      <4>2. Seek(p) /\ proc[p].pos < i
        BY <2>6, <3>2, <3>4, <4>1 DEF WriteChunk, TypeOK
      <4>3. /\ proc'[p].pc = proc[p].pc /\ proc'[p].k = proc[p].k
            /\ proc'[p].pos = proc[p].pos + 1
        BY <4>2 DEF Seek, TypeOK
      <4>4. proc[p].pos + 1 <= i
        BY <4>2 DEF TypeOK
      <4> QED
        BY <3>2, <3>4, <4>3, <4>4 DEF Artifact, File
    <3> QED
      BY <3>3, <3>4
  <2>7. CASE Crash(p)
    <3>1. f \in exists \ interrupted
      BY <2>7 DEF Crash
    <3>2. PICK q \in Procs : proc[q].pc = "write" /\ File(q) = f /\ proc[q].pos <= i
      BY <2>7, <3>1 DEF HolesAreBeingWritten, Crash
    <3>3. q # p
      BY <2>7, <3>2 DEF Crash
    <3> QED
      BY <1>2, <3>2, <3>3, OnlyOneMoves
  <2> QED
    BY <1>2, <2>2, <2>3, <2>4, <2>5, <2>6, <2>7 DEF Step
<1> QED
  BY <1>1, <1>2 DEF Next

\* HolesAreBeingWritten: overlapping downloads of downloadFile() leave no hole
\* in a file unless one of them dies.
THEOREM HolesBeingWritten == SafeSpec => []HolesAreBeingWritten
<1>1. Init => HolesAreBeingWritten
  BY NameFacts DEF Init, HolesAreBeingWritten, Full
<1> QED
  BY <1>1, InitType, NextType, NextHoles, PTL DEF SafeSpec

\* Places of the plan are different artifacts.
LEMMA PlanIsInjective ==
  \A i, j \in 1..Len(Plan) : Plan[i] = Plan[j] => i = j
BY CacheAssumption

\* A file that is written while an artifact is being downloaded to it is not
\* the file that an earlier one, with a file of its own, was accepted in.
LEMMA OwnFileIsApart ==
  ASSUME TypeOK, NEW p \in Procs, Artifact(p) \notin Supplied,
         NEW j \in 1..Len(Plan), j < proc[p].k, OwnFile(Plan[j])
  PROVE  Source[Plan[j]] # File(p)
<1>1. proc[p].k \in 1..Len(Plan) /\ j # proc[p].k
  BY DEF TypeOK
<1>2. Artifact(p) \in Artifacts /\ Artifact(p) # Plan[j]
  BY <1>1, PlanFacts, PlanIsInjective DEF Artifact
<1> QED
  BY <1>2 DEF OwnFile, File

\* The invocations that do not move are not under way, and nothing they own
\* changes: what is left to show is about the one that moves.
LEMMA OthersRest ==
  ASSUME TypeOK, SerialInv, NEW p \in Procs,
         \A q \in Procs : q # p => /\ ~Active(q) /\ proc'[q] = proc[q]
                                   /\ emitted'[q] = emitted[q] /\ installed'[q] = installed[q],
         Orderly(p)'
  PROVE  SerialInv'
<1>1. OneAtATime'
  BY DEF OneAtATime, Active
<1>2. ASSUME NEW q \in Procs, q # p PROVE Orderly(q)'
  <2>1. Orderly(q) /\ ~Active(q)
    BY <1>2 DEF SerialInv
  <2>2. AcceptedIsFull(q)' /\ ReadIsGood(q)' /\ SummedIsCached(q)'
    BY <1>2 DEF AcceptedIsFull, ReadIsGood, SummedIsCached, Prepared, Summed, Active, Busy
  <2>3. InPlaceIsSummed(q)' /\ PinnedInPlace(q)' /\ SuppliedIsRead(q)'
    BY <1>2, <2>1 DEF Orderly, InPlaceIsSummed, PinnedInPlace, InPlace, SuppliedIsRead, Artifact
  <2> QED
    BY <2>2, <2>3 DEF Orderly
<1> QED
  BY <1>1, <1>2 DEF SerialInv

\* A step that touches neither the files nor the results and goes on with the
\* same artifact, which gives nothing up for prepared.
LEMMA GotoIsOrderly ==
  ASSUME TypeOK, NEW p \in Procs, Orderly(p), Active(p), NEW pc \in Hashing \union {"fetch", "ended"},
         Goto(p, pc), proc[p].pc \in Hashing \union {"exists", "fetch", "write"} \/ pc = "ended",
         pc \in {"hash", "fetch", "verify"} => Artifact(p) \notin Supplied,
         UNCHANGED <<disk, results>>
  PROVE  Orderly(p)'
<1>1. proc'[p] = [pc |-> pc, k |-> proc[p].k, pos |-> 1, body |-> "bad"]
  BY DEF Goto, At, TypeOK
<1>2. AcceptedIsFull(p)'
  BY <1>1 DEF Orderly, AcceptedIsFull, Prepared, Hashing
<1>3. ReadIsGood(p)'
  BY <1>1 DEF ReadIsGood
<1>4. SummedIsCached(p)' /\ InPlaceIsSummed(p)'
  BY <1>1 DEF SummedIsCached, InPlaceIsSummed, Summed, InPlace, Hashing
<1>5. PinnedInPlace(p)'
  BY DEF Orderly, PinnedInPlace, results
<1>6. SuppliedIsRead(p)'
  <2>1. proc'[p].pc = pc /\ Artifact(p)' = Artifact(p)
    BY <1>1 DEF Artifact
  <2>2. pc \in {"hash", "fetch", "verify"} \/ pc \in {"again", "ended"}
    BY DEF Hashing
  <2> QED
    BY <2>1, <2>2 DEF SuppliedIsRead
<1> QED
  BY <1>2, <1>3, <1>4, <1>5, <1>6 DEF Orderly

\* The artifact at hand is accepted: it is as pinned, if it is.
LEMMA AcceptIsOrderly ==
  ASSUME TypeOK, NEW p \in Procs, Accept(p), UNCHANGED results,
         proc[p].pc \in Hashing \union {"exists", "write"},
         \A j \in 1..Len(Plan) :
           j <= proc[p].k /\ Plan[j] \in Checked /\ OwnFile(Plan[j]) =>
             disk'[Source[Plan[j]]] = Full(Plan[j]),
         PinnedInPlace(p)
  PROVE  Orderly(p)'
<1>1. \/ /\ proc[p].k < Len(Plan)
         /\ proc'[p] = [pc |-> "exists", k |-> proc[p].k + 1, pos |-> 1, body |-> "bad"]
      \/ /\ proc[p].k = Len(Plan)
         /\ proc'[p] = [pc |-> "sum", k |-> 1, pos |-> 1, body |-> "bad"]
  BY PlanFacts DEF Accept, Advance, At, TypeOK
<1>2. AcceptedIsFull(p)'
  BY <1>1, PlanFacts DEF AcceptedIsFull, Prepared, Hashing, TypeOK
<1>3. ReadIsGood(p)'
  BY <1>1 DEF ReadIsGood, Hashing
<1>4. SummedIsCached(p)' /\ InPlaceIsSummed(p)'
  BY <1>1, PlanFacts DEF SummedIsCached, InPlaceIsSummed, Summed, InPlace
<1>5. PinnedInPlace(p)'
  BY DEF PinnedInPlace, results
<1>6. SuppliedIsRead(p)'
  BY <1>1 DEF SuppliedIsRead
<1> QED
  BY <1>2, <1>3, <1>4, <1>5, <1>6 DEF Orderly

LEMMA StepIsOrderly ==
  ASSUME TypeOK, NEW p \in Procs, Orderly(p), Step(p)
  PROVE  Orderly(p)'
<1>0. /\ Active(p) /\ proc[p].k \in 1..Len(Plan)
      /\ Artifact(p) \in Artifacts /\ File(p) \in Paths
  BY ArtifactIsOne DEF Step, LookUp, Refuse, HashMatches, HashDiffers, FetchFails, Fetch,
     WriteChunk, Sum, Install, Active, Busy, Hashing, TypeOK
<1>a. /\ SuppliedIsRead(p) /\ AcceptedIsFull(p) /\ ReadIsGood(p)
      /\ SummedIsCached(p) /\ InPlaceIsSummed(p) /\ PinnedInPlace(p)
  BY DEF Orderly
\* An artifact that no sum pins is accepted with the others as they were.
<1>b. ASSUME proc[p].pc \in Hashing \union {"exists", "fetch", "write"},
             NEW j \in 1..Len(Plan), j < proc[p].k, Plan[j] \in Checked, OwnFile(Plan[j])
      PROVE  disk[Source[Plan[j]]] = Full(Plan[j])
  BY <1>a, <1>b DEF AcceptedIsFull, Prepared
<1>1. CASE LookUp(p)
  <2>1. CASE Accept(p) /\ Artifact(p) \notin Checked
    <3>1. proc[p].pc = "exists" /\ disk' = disk /\ UNCHANGED results
      BY <1>1 DEF LookUp, cache
    <3>2. \A j \in 1..Len(Plan) :
            j <= proc[p].k /\ Plan[j] \in Checked /\ OwnFile(Plan[j]) =>
              disk'[Source[Plan[j]]] = Full(Plan[j])
      BY <2>1, <3>1, <1>0, <1>b DEF Artifact
    <3> QED
      BY <2>1, <3>1, <3>2, <1>a, AcceptIsOrderly
  <2>2. CASE Goto(p, "fetch") /\ Artifact(p) \notin Supplied
    BY <1>1, <2>2, <1>0, GotoIsOrderly DEF LookUp, cache, Hashing
  <2>3. CASE Goto(p, IF Artifact(p) \in Supplied THEN "again" ELSE "hash")
    <3>1. CASE Artifact(p) \in Supplied
      BY <1>1, <2>3, <3>1, <1>0, GotoIsOrderly DEF LookUp, cache, Hashing
    <3>2. CASE Artifact(p) \notin Supplied
      BY <1>1, <2>3, <3>2, <1>0, GotoIsOrderly DEF LookUp, cache, Hashing
    <3> QED
      BY <3>1, <3>2
  <2> QED
    BY <1>1, <2>1, <2>2, <2>3 DEF LookUp
<1>2. CASE Refuse(p) \/ FetchFails(p) \/ HashDiffers(p)
  <2>1. UNCHANGED <<disk, results>>
    BY <1>2 DEF Refuse, FetchFails, HashDiffers, cache
  <2>2. \/ Goto(p, "ended")
        \/ proc[p].pc = "hash" /\ Goto(p, "fetch") /\ Artifact(p) \notin Supplied
    BY <1>2, <1>a DEF Refuse, FetchFails, HashDiffers, SuppliedIsRead
  <2> QED
    BY <2>1, <2>2, <1>0, GotoIsOrderly DEF Hashing
<1>3. CASE HashMatches(p)
  <2>0. /\ proc[p].pc \in Hashing /\ disk[File(p)][proc[p].pos] = Artifact(p)
        /\ disk' = disk /\ emitted' = emitted /\ installed' = installed
    BY <1>3 DEF HashMatches, cache, results
  <2>1. CASE Seek(p) /\ proc[p].pos < Chunks
    <3>1. /\ proc'[p].pc = proc[p].pc /\ proc'[p].k = proc[p].k
          /\ proc'[p].pos = proc[p].pos + 1
      BY <2>1 DEF Seek, TypeOK
    <3>2. Artifact(p)' = Artifact(p) /\ File(p)' = File(p)
      BY <3>1 DEF Artifact, File
    <3>3. ReadIsGood(p)'
      <4> SUFFICES ASSUME NEW i \in 1..Chunks, i < proc'[p].pos
                   PROVE  disk[File(p)][i] = Artifact(p)
        BY <2>0, <3>1, <3>2 DEF ReadIsGood
      <4>1. i < proc[p].pos \/ i = proc[p].pos
        BY <3>1 DEF TypeOK
      <4> QED
        BY <2>0, <4>1, <1>a DEF ReadIsGood
    <3>4. SuppliedIsRead(p)' /\ AcceptedIsFull(p)'
      BY <2>0, <3>1, <3>2, <1>a DEF SuppliedIsRead, AcceptedIsFull, Prepared
    <3>5. SummedIsCached(p)' /\ InPlaceIsSummed(p)' /\ PinnedInPlace(p)'
      BY <2>0, <3>1, <1>a DEF SummedIsCached, InPlaceIsSummed, PinnedInPlace, Summed, InPlace
    <3> QED
      BY <3>3, <3>4, <3>5 DEF Orderly
  <2>2. CASE Goto(p, "again")
    BY <1>3, <2>0, <2>2, <1>0, GotoIsOrderly DEF cache, results, Hashing
  <2>3. CASE Accept(p) /\ ~(proc[p].pos < Chunks)
    <3>1. proc[p].pos = Chunks
      BY <2>3 DEF TypeOK
    <3>2. ASSUME NEW i \in 1..Chunks PROVE disk[File(p)][i] = Artifact(p)
      <4>1. i < proc[p].pos \/ i = proc[p].pos
        BY <3>1
      <4> QED
        BY <2>0, <4>1, <1>a DEF ReadIsGood
    <3>3. disk[File(p)] = Full(Artifact(p))
      BY <3>2, <1>0 DEF TypeOK, Files, Full
    <3>4. \A j \in 1..Len(Plan) :
            j <= proc[p].k /\ Plan[j] \in Checked /\ OwnFile(Plan[j]) =>
              disk'[Source[Plan[j]]] = Full(Plan[j])
      BY <2>0, <3>3, <1>0, <1>b DEF Artifact, File
    <3> QED
      BY <2>0, <2>3, <3>4, <1>a, AcceptIsOrderly DEF results
  <2> QED
    BY <1>3, <2>1, <2>2, <2>3 DEF HashMatches
<1>4. CASE Fetch(p)
  <2>1. proc'[p].pc = "write" /\ proc'[p].k = proc[p].k /\ proc[p].pc = "fetch"
    BY <1>4 DEF Fetch, At, TypeOK
  <2>2. Artifact(p) \notin Supplied
    BY <2>1, <1>a DEF SuppliedIsRead
  <2>3. disk' = [disk EXCEPT ![File(p)] = Empty] /\ emitted' = emitted /\ installed' = installed
    BY <1>4 DEF Fetch, results
  <2>4. AcceptedIsFull(p)'
    <3> SUFFICES ASSUME NEW j \in 1..Len(Plan), j < proc[p].k,
                        Plan[j] \in Checked, OwnFile(Plan[j])
                 PROVE  disk'[Source[Plan[j]]] = Full(Plan[j])
      BY <2>1 DEF AcceptedIsFull, Prepared, Hashing
    <3>1. Source[Plan[j]] # File(p) /\ Source[Plan[j]] \in Paths
      BY <2>2, OwnFileIsApart, PlanFacts, NameFacts
    <3> QED
      BY <2>1, <2>3, <3>1, <1>b DEF TypeOK
  <2>5. SuppliedIsRead(p)' /\ ReadIsGood(p)'
    BY <2>1, <2>2 DEF SuppliedIsRead, ReadIsGood, Artifact, Hashing
  <2>6. SummedIsCached(p)' /\ InPlaceIsSummed(p)' /\ PinnedInPlace(p)'
    BY <2>1, <2>3, <1>a DEF SummedIsCached, InPlaceIsSummed, PinnedInPlace, Summed, InPlace
  <2> QED
    BY <2>4, <2>5, <2>6 DEF Orderly
<1>5. CASE WriteChunk(p)
  <2>0. /\ proc[p].pc = "write" /\ emitted' = emitted /\ installed' = installed
        /\ disk' = [disk EXCEPT ![File(p)][proc[p].pos] = proc[p].body]
    BY <1>5 DEF WriteChunk, results
  <2>1. Artifact(p) \notin Supplied
    BY <2>0, <1>a DEF SuppliedIsRead
  <2>2. ASSUME NEW j \in 1..Len(Plan), j < proc[p].k, Plan[j] \in Checked, OwnFile(Plan[j])
        PROVE  disk'[Source[Plan[j]]] = Full(Plan[j])
    <3>1. Source[Plan[j]] # File(p) /\ Source[Plan[j]] \in Paths
      BY <2>1, <2>2, OwnFileIsApart, PlanFacts, NameFacts
    <3> QED
      BY <2>0, <2>2, <3>1, <1>b DEF TypeOK
  <2>3. CASE Accept(p) /\ Artifact(p) \notin Checked
    <3>1. \A j \in 1..Len(Plan) :
            j <= proc[p].k /\ Plan[j] \in Checked /\ OwnFile(Plan[j]) =>
              disk'[Source[Plan[j]]] = Full(Plan[j])
      BY <2>2, <2>3, <1>0 DEF Artifact
    <3> QED
      BY <2>0, <2>3, <3>1, <1>a, AcceptIsOrderly DEF results
  <2>4. CASE Seek(p) \/ Goto(p, "verify")
    <3>1. /\ proc'[p].k = proc[p].k
          /\ proc'[p].pc = "write" \/ (proc'[p].pc = "verify" /\ proc'[p].pos = 1)
      BY <2>0, <2>4 DEF Seek, Goto, At, TypeOK
    <3>2. AcceptedIsFull(p)'
      BY <2>2, <3>1 DEF AcceptedIsFull, Prepared, Hashing
    <3>3. SuppliedIsRead(p)' /\ ReadIsGood(p)'
      BY <2>1, <3>1 DEF SuppliedIsRead, ReadIsGood, Artifact, Hashing
    <3>4. SummedIsCached(p)' /\ InPlaceIsSummed(p)' /\ PinnedInPlace(p)'
      BY <2>0, <3>1, <1>a DEF SummedIsCached, InPlaceIsSummed, PinnedInPlace, Summed, InPlace,
         Hashing
    <3> QED
      BY <3>2, <3>3, <3>4 DEF Orderly
  <2> QED
    BY <1>5, <2>3, <2>4 DEF WriteChunk, Downloaded
<1>6. CASE Sum(p)
  <2>1. /\ proc[p].pc = "sum" /\ disk' = disk /\ installed' = installed
        /\ emitted' = [emitted EXCEPT ![p][Artifact(p)] = disk[File(p)]]
    BY <1>6 DEF Sum, cache
  <2>2. \/ proc'[p].pc = "sum" /\ proc'[p].k = proc[p].k + 1
        \/ proc'[p].pc = "copy" /\ proc'[p].k = 1 /\ proc[p].k = Len(Plan)
    BY <1>6, <1>0, PlanFacts DEF Sum, Advance, At, TypeOK
  <2>3. \A b \in Artifacts :
          emitted'[p][b] = IF b = Artifact(p) THEN disk[File(p)] ELSE emitted[p][b]
    BY <2>1, <1>0 DEF TypeOK
  <2>4. SummedIsCached(p)'
    <3> SUFFICES ASSUME NEW j \in 1..Len(Plan), Summed(p, j)'
                 PROVE  emitted'[p][Plan[j]] = disk[Source[Plan[j]]]
      BY <2>1 DEF SummedIsCached
    <3>1. CASE Plan[j] = Artifact(p)
      BY <2>3, <3>1, PlanFacts DEF File
    <3>2. CASE Plan[j] # Artifact(p)
      <4>1. j < proc[p].k
        BY <2>2, <3>2, <1>0 DEF Summed, Artifact
      <4>2. emitted[p][Plan[j]] = disk[Source[Plan[j]]]
        BY <2>1, <4>1, <1>a DEF SummedIsCached, Summed
      <4> QED
        BY <2>3, <3>2, <4>2, PlanFacts
    <3> QED
      BY <3>1, <3>2
  <2>5. AcceptedIsFull(p)' /\ ReadIsGood(p)' /\ SuppliedIsRead(p)'
    BY <2>1, <2>2, <1>a DEF AcceptedIsFull, ReadIsGood, SuppliedIsRead, Prepared, Hashing
  <2>6. InPlaceIsSummed(p)'
    BY <2>2 DEF InPlaceIsSummed, InPlace
  <2>7. PinnedInPlace(p)'
    BY <2>1, <1>a DEF PinnedInPlace
  <2> QED
    BY <2>4, <2>5, <2>6, <2>7 DEF Orderly
<1>7. CASE Install(p)
  <2> DEFINE b == Copied(proc[p].k)
  <2>0. b \in Artifacts
    BY <1>0, CopiedFacts
  <2>1. /\ proc[p].pc = "copy" /\ disk' = disk /\ emitted' = emitted
        /\ installed' = IF Target[b] = "none" THEN installed
                        ELSE [installed EXCEPT ![p][Target[b]] = disk[Source[b]]]
    BY <1>7 DEF Install, cache
  <2>2. \/ proc'[p].pc = "copy" /\ proc'[p].k = proc[p].k + 1
        \/ proc'[p].pc = "ready" /\ proc[p].k = Len(Plan)
    BY <1>7, <1>0, PlanFacts DEF Install, Advance, At, TypeOK
  \* A copy of an artifact that shares its place with none of another file.
  <2>3. ASSUME NEW a \in Artifacts, OwnCopy(a)
        PROVE  /\ b = a => installed'[p][Target[a]] = disk[Source[a]]
               /\ \/ installed'[p][Target[a]] = disk[Source[a]]
                  \/ installed'[p][Target[a]] = installed[p][Target[a]]
    <3>1. Target[a] \in Targets
      BY <2>3, NameFacts DEF OwnCopy
    <3>2. CASE Target[b] = Target[a]
      <4>1. Source[b] = Source[a] /\ Target[b] # "none"
        BY <2>0, <2>3, <3>2 DEF OwnCopy
      <4> QED
        BY <2>1, <3>1, <3>2, <4>1 DEF TypeOK
    <3>3. CASE Target[b] # Target[a]
      <4>1. installed'[p][Target[a]] = installed[p][Target[a]]
        BY <2>0, <2>1, <3>1, <3>3, NameFacts DEF TypeOK
      <4> QED
        BY <4>1, <3>3
    <3> QED
      BY <3>2, <3>3
  <2>4. SummedIsCached(p)' /\ AcceptedIsFull(p)' /\ ReadIsGood(p)' /\ SuppliedIsRead(p)'
    BY <2>1, <2>2, <1>a DEF SummedIsCached, AcceptedIsFull, ReadIsGood, SuppliedIsRead,
       Summed, Prepared, Hashing
  <2>5. \A a \in Artifacts : emitted[p][a] = disk[Source[a]]
    BY <2>1, <1>a, PlanFacts DEF SummedIsCached, Summed
  <2>6. InPlaceIsSummed(p)'
    <3> SUFFICES ASSUME NEW j \in 1..Len(Plan), InPlace(p, j)', OwnCopy(Copied(j))
                 PROVE  installed'[p][Target[Copied(j)]] = emitted[p][Copied(j)]
      BY <2>1 DEF InPlaceIsSummed
    <3>1. j < proc[p].k \/ j = proc[p].k
      BY <2>2, <1>0 DEF InPlace
    <3>2. Copied(j) \in Artifacts
      BY CopiedFacts
    <3>3. CASE j = proc[p].k
      BY <2>3, <2>5, <3>2, <3>3
    <3>4. CASE j < proc[p].k
      <4>1. installed[p][Target[Copied(j)]] = emitted[p][Copied(j)]
        BY <2>1, <3>4, <1>a DEF InPlaceIsSummed, InPlace
      <4> QED
        BY <2>3, <2>5, <3>2, <4>1
    <3> QED
      BY <3>1, <3>3, <3>4
  <2>7. PinnedInPlace(p)'
    <3> SUFFICES ASSUME NEW a \in Checked \intersect Artifacts, OwnFile(a), OwnCopy(a)
                 PROVE  installed'[p][Target[a]] \in {Empty, Full(a)}
      BY DEF PinnedInPlace
    <3>1. disk[Source[a]] = Full(a)
      BY <2>1, <1>a, PlanFacts DEF AcceptedIsFull, Prepared
    <3>2. installed[p][Target[a]] \in {Empty, Full(a)}
      BY <1>a DEF PinnedInPlace
    <3> QED
      BY <2>3, <3>1, <3>2
  <2> QED
    BY <2>4, <2>6, <2>7 DEF Orderly
<1> QED
  BY <1>1, <1>2, <1>3, <1>4, <1>5, <1>6, <1>7 DEF Step

LEMMA NextSerial ==
  ASSUME TypeOK, ~overlapped => SerialInv, [Next]_vars, ~overlapped'
  PROVE  SerialInv'
<1>1. SerialInv
  BY DEF Next, Start, Step, LookUp, Refuse, HashMatches, HashDiffers, FetchFails, Fetch,
     WriteChunk, Sum, Install, Crash, vars
<1>2. CASE UNCHANGED vars
  BY <1>1, <1>2 DEF vars, cache, results, SerialInv, OneAtATime, Active, Orderly,
     SuppliedIsRead, AcceptedIsFull, ReadIsGood, SummedIsCached, InPlaceIsSummed,
     PinnedInPlace, Prepared, Summed, InPlace, Artifact, File
<1>3. ASSUME NEW p \in Procs, Start(p) PROVE SerialInv'
  <2>1. \A q \in Procs : q # p => /\ ~Active(q) /\ proc'[q] = proc[q]
                                  /\ emitted'[q] = emitted[q] /\ installed'[q] = installed[q]
    BY <1>3 DEF Start, TypeOK
  <2>2. proc'[p].pc = "exists" /\ proc'[p].k = 1 /\ installed'[p] = [t \in Targets |-> Empty]
    BY <1>3 DEF Start, At, TypeOK
  <2>3. Orderly(p)'
    <3>1. PinnedInPlace(p)'
      BY <2>2, NameFacts DEF PinnedInPlace, OwnCopy
    <3>2. SuppliedIsRead(p)' /\ AcceptedIsFull(p)' /\ ReadIsGood(p)'
      BY <2>2 DEF SuppliedIsRead, AcceptedIsFull, ReadIsGood, Prepared, Hashing
    <3>3. SummedIsCached(p)' /\ InPlaceIsSummed(p)'
      BY <2>2 DEF SummedIsCached, InPlaceIsSummed, Summed, InPlace
    <3> QED
      BY <3>1, <3>2, <3>3 DEF Orderly
  <2> QED
    BY <1>1, <2>1, <2>3, OthersRest
<1>4. ASSUME NEW p \in Procs, Step(p) \/ Crash(p) PROVE SerialInv'
  <2>1. Active(p)
    BY <1>4 DEF Step, LookUp, Refuse, HashMatches, HashDiffers, FetchFails, Fetch,
       WriteChunk, Sum, Install, Crash, Active, Busy, Hashing
  <2>2. \A q \in Procs : q # p => ~Active(q) /\ proc'[q] = proc[q]
    BY <1>1, <1>4, <2>1, OnlyOneMoves DEF SerialInv, OneAtATime
  <2>3. \A q \in Procs : q # p => emitted'[q] = emitted[q] /\ installed'[q] = installed[q]
    BY <1>4 DEF Step, LookUp, Refuse, HashMatches, HashDiffers, FetchFails, Fetch,
       WriteChunk, Sum, Install, Crash, results, TypeOK
  <2>4. CASE Crash(p)
    BY <1>1, <2>1, <2>2, <2>3, <2>4, GotoIsOrderly, OthersRest DEF Crash, SerialInv
  <2>5. CASE Step(p)
    BY <1>1, <2>2, <2>3, <2>5, StepIsOrderly, OthersRest DEF SerialInv
  <2> QED
    BY <1>4, <2>4, <2>5
<1> QED
  BY <1>2, <1>3, <1>4 DEF Next

LEMMA InitSerial == Init => SerialInv
<1> SUFFICES ASSUME Init PROVE SerialInv
  OBVIOUS
<1>1. \A p \in Procs : proc[p].pc = "idle"
  BY DEF Init, At
<1>2. OneAtATime
  BY <1>1 DEF OneAtATime, Active, Busy, Hashing
<1>3. ASSUME NEW p \in Procs PROVE Orderly(p)
  <2>1. PinnedInPlace(p)
    BY NameFacts DEF Init, PinnedInPlace, OwnCopy
  <2>2. SuppliedIsRead(p) /\ AcceptedIsFull(p) /\ ReadIsGood(p)
    BY <1>1 DEF SuppliedIsRead, AcceptedIsFull, ReadIsGood, Prepared, Hashing
  <2>3. SummedIsCached(p) /\ InPlaceIsSummed(p)
    BY <1>1 DEF SummedIsCached, InPlaceIsSummed, Summed, InPlace
  <2> QED
    BY <2>1, <2>2, <2>3 DEF Orderly
<1> QED
  BY <1>2, <1>3 DEF SerialInv

LEMMA SafeIsSerial == SafeSpec => [](TypeOK /\ (~overlapped => SerialInv))
<1>1. TypeOK /\ (~overlapped => SerialInv) /\ [Next]_vars => (~overlapped => SerialInv)'
  BY NextSerial
<1> QED
  BY <1>1, InitSerial, InitType, NextType, PTL DEF SafeSpec

\* InstalledAsPinned: crashes and failed downloads included, invocations that
\* follow one another install a pinned artifact as it is pinned, if no other is
\* downloaded to its file or copied over it (artifacts.ts, lines 50 and 115, go
\* by base names); what the other artifacts share does not matter.
THEOREM PinnedInstalled == SafeSpec => []InstalledAsPinned
<1>1. (~overlapped => SerialInv) => InstalledAsPinned
  BY DEF InstalledAsPinned, SerialInv, Orderly, PinnedInPlace
<1> QED
  BY <1>1, SafeIsSerial, PTL

\* EmittedIsInstalled: under the same condition, the emitted checksum of every
\* artifact that is not copied over is that of the file the run starts with,
\* also where downloads share a file of the cache.
THEOREM EmittedInstalled == SafeSpec => []EmittedIsInstalled
<1>1. (~overlapped => SerialInv) => EmittedIsInstalled
  <2> SUFFICES ASSUME SerialInv, NEW p \in Procs, NEW a \in Artifacts,
                      proc[p].pc = "ready", OwnCopy(a)
               PROVE  installed[p][Target[a]] = emitted[p][a]
    BY DEF EmittedIsInstalled
  <2>1. PICK j \in 1..Len(Plan) : a = Copied(j)
    BY CopiedFacts
  <2> QED
    BY <2>1 DEF SerialInv, Orderly, InPlaceIsSummed, InPlace
<1> QED
  BY <1>1, SafeIsSerial, PTL
=============================================================================
