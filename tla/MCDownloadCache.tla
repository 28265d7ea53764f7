--------------------------- MODULE MCDownloadCache ---------------------------
\* The launcher, which no sum pins; a pinned download; a pinned one whose URL
\* has the base name under which the launcher is kept; and a pinned supplied
\* file, which is not installed.
EXTENDS DownloadCache

const_Plan   == <<"launcher", "mod", "twin", "given">>
const_Source ==
  [launcher |-> "cache/launcher", mod |-> "cache/mod", twin |-> "cache/launcher",
   given |-> "given"]
const_Target ==
  [launcher |-> "launcher", mod |-> "mods/mod", twin |-> "mods/launcher", given |-> "none"]

\* A scenario with two pinned downloads of one base name, of which one goes to
\* mods/ and the other beside it.
const_NamesPlan   == <<"launcher", "left", "right">>
const_NamesSource == [launcher |-> "cache/launcher", left |-> "cache/lib", right |-> "cache/lib"]
const_NamesTarget == [launcher |-> "launcher", left |-> "mods/lib", right |-> "lib"]
===============================================================================
