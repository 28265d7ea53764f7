------------------------- MODULE CofferProviderControl -------------------------
(***************************************************************************)
(* Operation provider-control of the Coffer adapter                        *)
(* (CofferHarnessAdapterMod.java): it puts a faulty replacement in the     *)
(* place of a provider that another mod has published, and keeps a file of *)
(* the replacements for the next server.  It runs on the server thread, in *)
(* steps that may each throw, and that a crash may cut.                    *)
(***************************************************************************)
EXTENDS Naturals

CONSTANTS
  Providers,    \* structures, principals, continuity
  Modes,        \* the replacements, other than "original"
  Unbuildable   \* <<provider, mode>> whose replacement() throws: nothing that
                \* it could be built from is published

ASSUME ControlAssumption ==
  /\ {"real", "original"} \intersect Modes = {}
  /\ Unbuildable \subseteq Providers \X Modes
  /\ "all" \notin Providers

VARIABLES
  published,   \* what the ObjectShare holds for each provider
  captured,    \* capturedProviders
  originals,   \* originalProviders
  file,        \* harness-coffer-provider-controls.properties
  step,        \* where the operation stands: "idle", "load", "truncate", "write"
  controls     \* the Properties it is about to save

shareVars   == <<published, captured, originals>>
controlVars == <<shareVars, file, step, controls>>

NoControls == [p \in Providers |-> "original"]
Buildable(p, mode) == <<p, mode>> \notin Unbuildable

\* Every operation: one provider in one mode, or all of them as they were.
ControlOps ==
  [provider : Providers, mode : Modes \union {"original"}]
    \union {[provider |-> "all", mode |-> "original"]}

Touches(op, p) == op.provider \in {p, "all"}

\* Mutant of Capture: the original is taken anew with every control.
CaptureAnew(p) ==
  /\ captured' = captured \union {p}
  /\ originals' = [originals EXCEPT ![p] = published[p]]

\* The original of a provider is taken with its first control.
Capture(p) ==
  /\ captured' = captured \union {p}
  /\ originals' = IF p \in captured THEN originals ELSE [originals EXCEPT ![p] = published[p]]

\* restoreProvider() of each of ps that was captured.
Restore(ps) ==
  LET restored == ps \intersect captured
  IN  /\ captured' = captured \ ps
      /\ published' = [p \in Providers |-> IF p \in restored THEN originals[p] ELSE published[p]]
      /\ originals' = [p \in Providers |-> IF p \in restored THEN "none" ELSE originals[p]]

\* Mutant of Publish: the control is on its way to the file before its
\* replacement is built.
PublishUnbuilt(op) ==
  /\ Capture(op.provider)
  /\ published' = IF Buildable(op.provider, op.mode)
                    THEN [published EXCEPT ![op.provider] = op.mode] ELSE published
  /\ step' = "load"
  /\ UNCHANGED <<file, controls>>

\* captureAndPublish(): it throws with the provider captured but unreplaced.
Publish(op) ==
  /\ Capture(op.provider)
  /\ IF Buildable(op.provider, op.mode)
       THEN published' = [published EXCEPT ![op.provider] = op.mode] /\ step' = "load"
       ELSE UNCHANGED <<published, step>>
  /\ UNCHANGED <<file, controls>>

\* providerControl() up to the first access to its file.
BeginControl(op) ==
  \/ /\ op.provider = "all"
     /\ Restore(Providers)
     /\ controls' = NoControls /\ step' = "truncate"
     /\ UNCHANGED file
  \/ /\ op.provider # "all" /\ op.mode = "original"
     /\ Restore({op.provider})
     /\ step' = "load"
     /\ UNCHANGED <<file, controls>>
  \/ op.mode # "original" /\ Publish(op)

\* loadProviderControls() and updateProviderControl().
Load(op) ==
  /\ step = "load"
  /\ controls' = [file EXCEPT ![op.provider] = op.mode]
  /\ step' = "truncate"
  /\ UNCHANGED <<shareVars, file>>

\* saveProviderControls(): with no control left the file is deleted; else
\* newBufferedWriter() empties it before the controls are written.
Delete ==
  /\ step = "truncate" /\ controls = NoControls
  /\ file' = NoControls /\ step' = "idle"
  /\ UNCHANGED <<shareVars, controls>>

Truncate ==
  /\ step = "truncate" /\ controls # NoControls
  /\ file' = NoControls /\ step' = "write"
  /\ UNCHANGED <<shareVars, controls>>

Write ==
  /\ step = "write"
  /\ file' = controls /\ step' = "idle" /\ controls' = NoControls
  /\ UNCHANGED shareVars

\* Any access to the file may throw.
FileFails ==
  /\ step # "idle"
  /\ step' = "idle" /\ controls' = NoControls
  /\ UNCHANGED <<shareVars, file>>

\* A new process: what other mods publish is in place, the adapter knows nothing.
ForgetControls ==
  /\ published' = [p \in Providers |-> "real"]
  /\ captured' = {}
  /\ originals' = [p \in Providers |-> "none"]
  /\ step' = "idle" /\ controls' = NoControls
  /\ UNCHANGED file

\* applyPersistedProviderControls(), when the server has started.
ApplyPersisted ==
  /\ captured' = {p \in Providers : file[p] # "original"}
  /\ originals' = [p \in Providers |-> IF p \in captured' THEN published[p] ELSE originals[p]]
  /\ published' = [p \in Providers |-> IF p \in captured' THEN file[p] ELSE published[p]]
  /\ UNCHANGED <<file, step, controls>>

ControlInit ==
  /\ published = [p \in Providers |-> "real"]
  /\ captured = {} /\ originals = [p \in Providers |-> "none"]
  /\ file = NoControls /\ step = "idle" /\ controls = NoControls

ControlTypeOK ==
  /\ published \in [Providers -> Modes \union {"real"}]
  /\ captured \subseteq Providers
  /\ originals \in [Providers -> Modes \union {"real", "none"}]
  /\ file \in [Providers -> Modes \union {"original"}]
  /\ step \in {"idle", "load", "truncate", "write"}
  /\ controls \in [Providers -> Modes \union {"original"}]

\* The way back to the provider that the other mod published is never lost:
\* not by a control on a control, nor by one whose replacement() throws after
\* the provider was marked as captured, nor by a restart.
OriginalsKept ==
  \A p \in Providers : IF p \in captured THEN originals[p] = "real" ELSE published[p] = "real"

\* What the file asks the next server to publish can be built:
\* applyPersistedProviderControls() does not keep it from starting.
PersistedIsBuildable ==
  \A p \in Providers : file[p] # "original" => Buildable(p, file[p])
===============================================================================
