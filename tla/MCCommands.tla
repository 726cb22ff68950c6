---------------------------- MODULE MCCommands ----------------------------
(* Every command of the tool, once; and the ones that never ask the gate.    *)
EXTENDS Commands

MCGuarded == Reads \cup GatedWrites

MCAll == MCGuarded \cup UngatedWrites
=============================================================================
