-------------------------- MODULE MCComponentVersion ---------------------------
(***************************************************************************)
(* Three builds, of one component or two; one of the components exists in  *)
(* the namespace of AWS.  The third is given a deeper path in the bucket,  *)
(* which begins with that of the other two.                                *)
(***************************************************************************)
EXTENDS ComponentVersion

CONSTANTS b1, b2, b3, c1, c2, p1, p2

MCComponentsOf ==
  [b \in Builds |-> CASE b = b1 -> <<c1>> [] b = b2 -> <<c1, c2>> [] OTHER -> <<c2, c1>>]
MCPathOf == [b \in Builds |-> IF b = b3 THEN <<p1, p2>> ELSE <<p1>>]
MCAwsLatest == [c \in Components |-> IF c = c1 THEN None ELSE 1]
===============================================================================
