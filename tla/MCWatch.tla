------------------------------ MODULE MCWatch ------------------------------
(* Instances of Watch for TLC: a menu of one rule without a comment.       *)
EXTENDS Watch

CONSTANTS accept, drop, uplink

NoSecrets == {{}}

OneRow == {<<[name |-> accept, comment |-> Unset, disabled |-> "false"]>>}
=============================================================================
