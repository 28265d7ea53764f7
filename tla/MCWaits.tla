------------------------------- MODULE MCWaits -------------------------------
\* Pauses of two units, answers and timers that are late by one or two.
EXTENDS Waits
===============================================================================
