--------------------------- MODULE MCProtocolClient ---------------------------
\* Two coroutines on one client, as a step and one that timed out before it,
\* over two generations of the child process.
EXTENDS ProtocolClient, TLC

\* No definition and no checked property tells one coroutine from the other.
Interchangeable == Permutations(Tasks)
===============================================================================
