----------------------------- MODULE MCMailbox -----------------------------
(* Small instances of Mailbox for TLC.                                     *)
EXTENDS Mailbox

CONSTANTS bob, carol, eve, x, y

Env(to, id, kind, body) == [to |-> to, id |-> id, kind |-> kind, body |-> body]

(* Two envelopes to bob under one message_id, which carol gets as well, if *)
(* inline, and one to a recipient of another server.                       *)
Mixed == { Env(bob, 1, "reference", x), Env(bob, 1, "reference", y),
           Env(carol, 1, "inline", x), Env(eve, 2, "inline", x) }

(* Two envelopes to bob under one message_id.                              *)
Twins == { Env(bob, 1, "reference", x), Env(bob, 1, "reference", y) }

(* Two messages to bob, for the lease clock and liveness.                    *)
TwoMessages == { Env(bob, 1, "reference", x), Env(bob, 2, "inline", x) }
=============================================================================
