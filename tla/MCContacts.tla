----------------------------- MODULE MCContacts -----------------------------
(* A small instance of Contacts for TLC: bob has a second key.             *)
EXTENDS Contacts

CONSTANTS bob, carol, k1, k2

TwoForBob == [r \in Route |-> IF r = bob THEN {k1, k2} ELSE {k1}]
=============================================================================
