--------------------------- MODULE MCProfilerWorker ---------------------------
(***************************************************************************)
(* An instance of ProfilerWorker for TLC: two threads that start and stop  *)
(* the profiler, intervals that are off, short and long.  MaxTime is above *)
(* the bound of TimelyUpload for the longest of them.                      *)
(***************************************************************************)
EXTENDS ProfilerWorker, TLC

CONSTANTS c1, c2
===============================================================================
