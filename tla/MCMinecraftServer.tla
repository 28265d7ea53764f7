-------------------------- MODULE MCMinecraftServer --------------------------
\* Two tasks that call start() and stop() as they like, as the runner and a
\* step that timed out may, over a few generations of the child process.
EXTENDS MinecraftServer
==============================================================================
