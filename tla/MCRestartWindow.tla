---------------------------- MODULE MCRestartWindow ----------------------------
(* Small instances of RestartWindow for TLC.                                   *)
EXTENDS RestartWindow

\* What StormStopped needs of the numbers.
ASSUME StormAssumption == StormFits
===============================================================================
