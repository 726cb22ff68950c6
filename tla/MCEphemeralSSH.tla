--------------------------- MODULE MCEphemeralSSH ---------------------------
(* Instances of EphemeralSSH for TLC: two transfers from one workstation,   *)
(* whose public address the router sees, and one from another.              *)
EXTENDS EphemeralSSH

CONSTANTS office, vpn, admin, t1, t2, t3

Local == [t \in Transfers |-> IF t = t1 THEN {office, vpn} ELSE IF t = t2 THEN {office} ELSE {vpn}]
Remote == [t \in Transfers |-> IF t = t3 THEN vpn ELSE office]

Closed == [address |-> {admin}, disabled |-> TRUE]
Open == [address |-> {}, disabled |-> FALSE]
AnyRow == {Closed, Open}
=============================================================================
