---------------------------- MODULE DownloadCache ----------------------------
(***************************************************************************)
(* The artifact cache that invocations of the harness share (--cache):     *)
(* downloadFile() and sha256File() of src/utils.ts under                   *)
(* prepareArtifacts() and installArtifacts() of src/artifacts.ts.          *)
(*                                                                         *)
(* A file is the sequence of its chunks.  A download truncates the file    *)
(* and writes each chunk at its own offset, so two downloads of one file   *)
(* may leave holes behind each other.  Nothing locks the cache, and the    *)
(* file of an artifact is named by the last part of its URL alone, so two  *)
(* artifacts may well be kept in one.                                      *)
(***************************************************************************)
EXTENDS Naturals, Sequences

CONSTANTS
  Procs,       \* invocations of the harness that share the cache
  Plan,        \* the artifacts every invocation prepares, the launcher first
  Checked,     \* those whose specification pins a sha256
  Supplied,    \* those given as a path, and the bridge: never downloaded
  Source,      \* the file each is prepared in
  Target,      \* the file of the run directory it is copied to, or "none"
  Chunks,      \* chunks of a file
  MaxRuns      \* bound: how often each of Procs is invoked

Artifacts == {Plan[j] : j \in 1..Len(Plan)}
Paths     == {Source[a] : a \in Artifacts}
Brought   == {Source[a] : a \in Supplied}
Targets   == {Target[a] : a \in Artifacts} \ {"none"}

ASSUME CacheAssumption ==
  /\ Plan \in Seq(STRING) /\ Len(Plan) > 0
  /\ \A i, j \in 1..Len(Plan) : Plan[i] = Plan[j] => i = j   \* the names of an object
  /\ Artifacts \intersect {"bad", "hole"} = {}
  /\ Supplied \subseteq Artifacts
  /\ Source \in [Artifacts -> STRING] /\ Target \in [Artifacts -> STRING]
  /\ Chunks \in Nat \ {0}
  /\ MaxRuns \in Nat

\* A chunk is one of the file that an artifact stands for (the pinned one, if
\* it is pinned), of none of these, or not written yet.
Contents == Artifacts \union {"bad"}
Files    == [1..Chunks -> Contents \union {"hole"}]
Full(c)  == [i \in 1..Chunks |-> c]
Empty    == Full("hole")

VARIABLES
  disk,         \* the files of the cache and those supplied
  exists,       \* those that are there, if only with nothing written
  proc,         \* where each invocation stands
  runs,         \* how often each was started
  emitted,      \* content behind the checksum of each artifact
  installed,    \* content of each file of the run directory
  interrupted,  \* history: files an invocation died over since they were opened
  overlapped    \* history: two invocations were under way at once

cache   == <<disk, exists, interrupted>>
results == <<emitted, installed>>
vars    == <<cache, proc, runs, results, overlapped>>

Hashing == {"hash", "verify", "again"}
Busy    == Hashing \union {"exists", "fetch", "write", "sum", "copy"}
Pcs     == Busy \union {"idle", "ready", "ended"}

At(pc, k, body) == [pc |-> pc, k |-> k, pos |-> 1, body |-> body]
Active(p)       == proc[p].pc \in Busy
Artifact(p)     == Plan[proc[p].k]
File(p)         == Source[Artifact(p)]
Goto(p, pc)     == proc' = [proc EXCEPT ![p] = At(pc, proc[p].k, "bad")]
Seek(p)         == proc' = [proc EXCEPT ![p].pos = @ + 1]

\* The next artifact, or the next part of the work when there is none.
Advance(p, pc, then) ==
  proc' = [proc EXCEPT ![p] =
    IF proc[p].k < Len(Plan) THEN At(pc, proc[p].k + 1, "bad") ELSE At(then, 1, "bad")]

Accept(p) == Advance(p, "exists", "sum")

\* The cache is empty, and a supplied file holds anything.
Init ==
  /\ \E given \in [Brought -> Contents] :
       disk = [f \in Paths |-> IF f \in Brought THEN Full(given[f]) ELSE Empty]
  /\ exists = Brought /\ interrupted = {}
  /\ proc = [p \in Procs |-> At("idle", 1, "bad")]
  /\ runs = [p \in Procs |-> 0]
  /\ emitted = [p \in Procs |-> [a \in Artifacts |-> Empty]]
  /\ installed = [p \in Procs |-> [t \in Targets |-> Empty]]
  /\ overlapped = FALSE

\* An invocation with a run directory of its own.
Start(p) ==
  /\ ~Active(p) /\ runs[p] < MaxRuns
  /\ runs' = [runs EXCEPT ![p] = @ + 1]
  /\ proc' = [proc EXCEPT ![p] = At("exists", 1, "bad")]
  /\ emitted' = [emitted EXCEPT ![p] = [a \in Artifacts |-> Empty]]
  /\ installed' = [installed EXCEPT ![p] = [t \in Targets |-> Empty]]
  /\ overlapped' = (overlapped \/ \E q \in Procs : Active(q))
  /\ UNCHANGED cache

\* fileExists() for a download, stat() for a supplied file.  Without a sum to
\* compare, whatever is there is taken, be it another artifact's.
LookUp(p) ==
  /\ proc[p].pc = "exists"
  /\ \/ File(p) \notin exists /\ Artifact(p) \notin Supplied /\ Goto(p, "fetch")
     \/ /\ File(p) \in exists /\ Artifact(p) \in Checked
        /\ Goto(p, IF Artifact(p) \in Supplied THEN "again" ELSE "hash")
     \/ File(p) \in exists /\ Artifact(p) \notin Checked /\ Accept(p)
  /\ UNCHANGED <<cache, runs, results, overlapped>>

\* BRIDGE_NOT_BUILT, MISSING_ARTIFACT or INVALID_ARTIFACT.  (One that is not
\* required, and has neither path nor URL, is passed over: no Plan names it.)
Refuse(p) ==
  /\ proc[p].pc = "exists"
  /\ Goto(p, "ended")
  /\ UNCHANGED <<cache, runs, results, overlapped>>

\* sha256File() streams the file.  It runs over a cached file, over one just
\* downloaded, and in prepareArtifacts() over each of them again and over the
\* supplied ones.
HashMatches(p) ==
  /\ proc[p].pc \in Hashing
  /\ disk[File(p)][proc[p].pos] = Artifact(p)
  /\ IF proc[p].pos < Chunks THEN Seek(p)
     ELSE IF proc[p].pc = "again" THEN Accept(p)
     ELSE Goto(p, "again")
  /\ UNCHANGED <<cache, runs, results, overlapped>>

\* Mutant of HashDiffers: a download that does not match is tried again too.
FetchAgainAlways(p) ==
  /\ proc[p].pc \in Hashing
  /\ disk[File(p)][proc[p].pos] # Artifact(p)
  /\ Goto(p, "fetch")
  /\ UNCHANGED <<cache, runs, results, overlapped>>

\* A mismatch downloads a cached file again; afterwards it is CHECKSUM_MISMATCH.
HashDiffers(p) ==
  /\ proc[p].pc \in Hashing
  /\ disk[File(p)][proc[p].pos] # Artifact(p)
  /\ Goto(p, IF proc[p].pc = "hash" THEN "fetch" ELSE "ended")
  /\ UNCHANGED <<cache, runs, results, overlapped>>

\* Mutant of FetchFails: the file is opened before the response is looked at.
FetchFailsOpened(p) ==
  /\ proc[p].pc = "fetch"
  /\ disk' = [disk EXCEPT ![File(p)] = Empty]
  /\ exists' = exists \union {File(p)} /\ interrupted' = interrupted \ {File(p)}
  /\ Goto(p, "ended")
  /\ UNCHANGED <<runs, results, overlapped>>

\* DOWNLOAD_FAILED, or fetch() itself rejects.
FetchFails(p) ==
  /\ proc[p].pc = "fetch"
  /\ Goto(p, "ended")
  /\ UNCHANGED <<cache, runs, results, overlapped>>

\* The response arrives, with the content asked for or not, and
\* createWriteStream() truncates the file.
Fetch(p) ==
  /\ proc[p].pc = "fetch"
  /\ \E body \in {Artifact(p), "bad"} :
       proc' = [proc EXCEPT ![p] = At("write", proc[p].k, body)]
  /\ disk' = [disk EXCEPT ![File(p)] = Empty]
  /\ exists' = exists \union {File(p)}
  /\ interrupted' = interrupted \ {File(p)}
  /\ UNCHANGED <<runs, results, overlapped>>

\* Mutant of Downloaded: only cached files are compared with their sum.
TakenUnverified(p) == Accept(p)

Downloaded(p) == IF Artifact(p) \in Checked THEN Goto(p, "verify") ELSE Accept(p)

WriteChunk(p) ==
  /\ proc[p].pc = "write"
  /\ disk' = [disk EXCEPT ![File(p)][proc[p].pos] = proc[p].body]
  /\ IF proc[p].pos < Chunks THEN Seek(p) ELSE Downloaded(p)
  /\ UNCHANGED <<exists, interrupted, runs, results, overlapped>>

\* Mutant of Sum: the sums are those of the plan.
SumAsPinned(p) ==
  /\ proc[p].pc = "sum"
  /\ emitted' = [emitted EXCEPT ![p][Artifact(p)] = Full(Artifact(p))]
  /\ Advance(p, "sum", "copy")
  /\ UNCHANGED <<cache, runs, installed, overlapped>>

\* The checksums of PreparedArtifacts, over the files as they are when every
\* artifact is prepared.
Sum(p) ==
  /\ proc[p].pc = "sum"
  /\ emitted' = [emitted EXCEPT ![p][Artifact(p)] = disk[File(p)]]
  /\ Advance(p, "sum", "copy")
  /\ UNCHANGED <<cache, runs, installed, overlapped>>

\* installArtifacts() copies the launcher last.
Copied(k) == IF k < Len(Plan) THEN Plan[k + 1] ELSE Plan[1]

\* copyFile() to the run directory, over whatever has the same name there.
Install(p) ==
  /\ proc[p].pc = "copy"
  /\ LET a == Copied(proc[p].k)
     IN  installed' = IF Target[a] = "none" THEN installed
                      ELSE [installed EXCEPT ![p][Target[a]] = disk[Source[a]]]
  /\ Advance(p, "copy", "ready")
  /\ UNCHANGED <<cache, runs, emitted, overlapped>>

\* The process is killed, or the body of a response fails or meets the timeout
\* of fetch(): pipe() does not pass an error of its source on, nobody listens
\* for it, and Node ends the process with the file as far as it was written.
Crash(p) ==
  /\ Active(p)
  /\ Goto(p, "ended")
  /\ interrupted' = IF proc[p].pc = "write" THEN interrupted \union {File(p)}
                    ELSE interrupted
  /\ UNCHANGED <<disk, exists, runs, results, overlapped>>

Step(p) ==
  \/ LookUp(p) \/ Refuse(p)
  \/ HashMatches(p) \/ HashDiffers(p)
  \/ FetchFails(p) \/ Fetch(p) \/ WriteChunk(p)
  \/ Sum(p) \/ Install(p)

Next == \E p \in Procs : Start(p) \/ Step(p) \/ Crash(p)

\* A process runs on; nothing makes an invocation begin or crash.
Spec == Init /\ [][Next]_vars /\ \A p \in Procs : WF_vars(Step(p))

-----------------------------------------------------------------------------
TypeOK ==
  /\ disk \in [Paths -> Files]
  /\ exists \subseteq Paths /\ interrupted \subseteq Paths
  /\ proc \in [Procs -> [pc : Pcs, k : 1..Len(Plan), pos : 1..Chunks, body : Contents]]
  /\ runs \in [Procs -> 0..MaxRuns]
  /\ emitted \in [Procs -> [Artifacts -> Files]]
  /\ installed \in [Procs -> [Targets -> Files]]
  /\ overlapped \in BOOLEAN

\* Two downloads of one file may truncate what the other wrote, yet whatever
\* is missing is still to be written by one of them: downloads that overlap
\* leave a hole only when one of them dies (src/utils.ts, downloadFile()).
HolesAreBeingWritten ==
  \A f \in exists \ interrupted : \A i \in 1..Chunks :
    disk[f][i] = "hole" =>
      \E p \in Procs : proc[p].pc = "write" /\ File(p) = f /\ proc[p].pos <= i

\* What the base names of artifacts.ts must not bring together: two downloads
\* in one file of the cache, and copies of two files in one of the run
\* directory.
OwnFile(a) == \A b \in Artifacts \ Supplied : Source[b] = Source[a] => b = a
OwnCopy(a) ==
  /\ Target[a] # "none"
  /\ \A b \in Artifacts : Target[b] = Target[a] => Source[b] = Source[a]

\* As long as invocations follow one another, crashes and failed downloads of
\* earlier ones included, a pinned artifact is installed as it is pinned,
\* whatever the others share, if no other is downloaded to its file or copied
\* over it.
InstalledAsPinned ==
  ~overlapped => \A p \in Procs, a \in Checked \intersect Artifacts :
    OwnFile(a) /\ OwnCopy(a) => installed[p][Target[a]] \in {Empty, Full(a)}

\* As long as invocations follow one another, every checksum that a run emits
\* is the one of the file it runs with, although the checksum is taken from the
\* cache and the copy made later: also for artifacts that share a cached file,
\* as the sums are taken when all of them are prepared.
EmittedIsInstalled ==
  ~overlapped => \A p \in Procs, a \in Artifacts :
    proc[p].pc = "ready" /\ OwnCopy(a) => installed[p][Target[a]] = emitted[p][a]

\* Every invocation gets its artifacts or fails: a file that never matches its
\* sum is downloaded once and not again and again.
PreparationEnds == \A p \in Procs : Active(p) ~> ~Active(p)

\* docs/architecture.md, line 50: "checksums are enforced".  A pinned artifact
\* that a run goes ahead with is the one that was pinned.
ChecksumsEnforced ==
  \A p \in Procs, a \in Checked \intersect Artifacts :
    proc[p].pc = "ready" => emitted[p][a] = Full(a)
=============================================================================
