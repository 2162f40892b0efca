---------------------------- MODULE MCConnectivity ----------------------------
(***************************************************************************)
(* Instances of Connectivity for TLC.                                      *)
(*                                                                         *)
(* The payloads share channel c1, which has a PayloadManager, so that the  *)
(* threads meet at its mutex, or the third one is sent on channel c2.      *)
(***************************************************************************)
EXTENDS Connectivity, TLC

CONSTANTS t1, t2, c1, c2, m1, m2, m3

\* Every payload on the first channel.
OneChannel == [m \in Messages |-> c1]
\* Two payloads on the first channel, the rest on the second.
TwoChannels == [m \in Messages |-> IF m = m3 THEN c2 ELSE c1]
===============================================================================
