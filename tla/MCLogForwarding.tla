---------------------------- MODULE MCLogForwarding ----------------------------
(***************************************************************************)
(* A thread of the agent and the worker of the profiler, each with calls   *)
(* of logMessage inside its call that sends.  Five entries fill a buffer   *)
(* for two bytes twice, so that a message logged inside send can find it   *)
(* full as well.                                                           *)
(***************************************************************************)
EXTENDS LogForwarding

CONSTANTS agent, worker, e1, e2, e3, e4, e5

MCWorker == <<worker, 0>>
MCLoggers == {<<agent, 0>>, <<agent, 1>>, <<agent, 2>>, <<worker, 1>>, <<worker, 2>>}
MCSizeOf == [e \in Entries |-> IF e = e1 THEN 2 ELSE 1]
===============================================================================
