---------------------------- MODULE MCSleepTimer ----------------------------
(* An instance of SleepTimer for TLC.  A timeout of half the counter, and  *)
(* one that may end at its largest value while a longer one runs.          *)
EXTENDS SleepTimer

Symmetry == Permutations(Timers)
=============================================================================
