-------------------------------- MODULE Uplink --------------------------------
(***************************************************************************)
(* What ISender::send promises a caller, without the connection, the locks *)
(* and the Greengrass IPC operation behind it.                             *)
(*                                                                         *)
(* A payload is handed over, and the call ends with one ConnectivityError. *)
(* Success means that the nucleus took the payload.  A refused payload     *)
(* (NotConfigured, WrongInputData) goes nowhere.  NoConnection promises    *)
(* nothing: the payload may have been kept on disk, may be on its way and  *)
(* be uplinked later, or may be lost.  It is never both kept and uplinked, *)
(* for then the cloud would get it twice.                                  *)
(***************************************************************************)

CONSTANT Messages

VARIABLES
  outcome,    \* what the call for a message returned, so far
  uplinked,   \* the messages the nucleus took
  kept        \* the messages on disk

upVars == <<outcome, uplinked, kept>>

Refusals == {"NotConfigured", "WrongInputData"}
Outcomes == {"none", "busy", "Success", "NoConnection"} \cup Refusals

UplinkTypeOK ==
  /\ outcome \in [Messages -> Outcomes]
  /\ uplinked \subseteq Messages
  /\ kept \subseteq Messages

UplinkInit ==
  /\ outcome = [m \in Messages |-> "none"]
  /\ uplinked = {}
  /\ kept = {}

Begin(m) ==
  /\ outcome[m] = "none"
  /\ outcome' = [outcome EXCEPT ![m] = "busy"]
  /\ UNCHANGED <<uplinked, kept>>

\* The nucleus takes the payload while the call waits, or after it gave up.
Publish(m) ==
  /\ outcome[m] \in {"busy", "NoConnection"}
  /\ m \notin uplinked \cup kept
  /\ uplinked' = uplinked \cup {m}
  /\ UNCHANGED <<outcome, kept>>

Return(m, r) ==
  /\ outcome[m] = "busy"
  /\ r = "Success" => m \in uplinked
  /\ r \in Refusals => m \notin uplinked
  /\ outcome' = [outcome EXCEPT ![m] = r]
  /\ \/ kept' = kept
     \/ r = "NoConnection" /\ m \notin uplinked /\ kept' = kept \cup {m}
  /\ UNCHANGED uplinked

UplinkNext ==
  \E m \in Messages :
    \/ Begin(m)
    \/ Publish(m)
    \/ \E r \in {"Success", "NoConnection"} \cup Refusals : Return(m, r)

UplinkSpec == UplinkInit /\ [][UplinkNext]_upVars
===============================================================================
