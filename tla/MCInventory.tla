---------------------------- MODULE MCInventory ----------------------------
(* An inventory with one device, or one that routeros-cli left behind, and an *)
(* address book with two hosts of the same group.                            *)
EXTENDS Inventory, TLC

Entry(host, password) == [base |-> "b", host |-> host, password |-> password]

MCBook == <<Entry("h1", "s1"), Entry("h2", None)>>

MCLegacy == [devs |-> ("a" :> [host |-> "h1", id |-> "b"]), default |-> "a"]

MCInitial == {Missing, [MCLegacy EXCEPT !.default = None]}

MCLegacyRing == [n \in Names |-> IF n = "a" THEN "s1" ELSE None]
=============================================================================
