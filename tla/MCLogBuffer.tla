----------------------------- MODULE MCLogBuffer ------------------------------
(***************************************************************************)
(* Two loggers and a buffer for two bytes.  Five entries of one and two     *)
(* bytes fill it to the last byte or find it full, and fill it again while *)
(* a logger that found it full has yet to add its entry; the sixth is      *)
(* below the threshold.                                                    *)
(***************************************************************************)
EXTENDS LogBuffer, TLC

CONSTANTS l1, l2, e1, e2, e3, e4, e5, e6

MCSizeOf == [e \in Entries |-> IF e = e1 THEN 1 ELSE 2]
===============================================================================
