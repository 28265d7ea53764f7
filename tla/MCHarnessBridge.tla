---------------------------- MODULE MCHarnessBridge ----------------------------
\* Controls on a control, of a provider that cannot be built, of all providers
\* at once, and waits for a tick.
EXTENDS HarnessBridge

Control(p, mode) == [provider |-> p, mode |-> mode]
SomeOps ==
  {Control("structures", "missing"),
   Control("structures", "original"), Control("principals", "missing"),
   Control("principals", "stale"), Control("all", "original"), Tick}
NoPrincipals == {<<"principals", "stale">>}
===============================================================================
