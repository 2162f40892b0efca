---------------------------- MODULE MCPayloadStore ----------------------------
(***************************************************************************)
(* Three payloads of one and two bytes behind headers of two bytes, so     *)
(* that a write can tear in the header, between header and payload, and in *)
(* a payload, and that the rest of a torn record can be taken for a header *)
(* or swallow one.                                                         *)
(***************************************************************************)
EXTENDS PayloadStore, TLC

CONSTANTS r1, r2, r3

MCPayloadSize == [r \in Records |-> IF r = r1 THEN 2 ELSE 1]
===============================================================================
