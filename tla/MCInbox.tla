------------------------------ MODULE MCInbox ------------------------------
(* Small instances of Inbox for TLC, and what is in the envelopes.         *)
EXTENDS Inbox, TLC

CONSTANTS bob, x, y, c1, c2

(* alice's message to bob, and an envelope of hers with the content of     *)
(* another of her messages in the place of its own.                        *)
Bob(id) == [key |-> "bob", route |-> "B", role |-> "to", id |-> id]

Written(id, text) == Seal!SignedContent("alice", "A", id, text, {Bob(id)})

Sealed(id, text) ==
    [envelope |-> Seal!EnvelopeFor(Written(id, text), "A", Bob(id)),
     object |-> Seal!ObjectFor(Written(id, text), {Bob(id)})]

Mixture(id) ==
    [Sealed(id, "bye") EXCEPT !.object.content = Written(1, "hello")]

PartsOf == [e \in Envelope |-> IF e.body = x THEN Sealed(e.id, "hello") ELSE Mixture(e.id)]

Env(id, kind, body) == [to |-> bob, id |-> id, kind |-> kind, body |-> body]

(* A sound reference and a mixture, with different message_ids or the same.*)
Two == {Env(1, "reference", x), Env(2, "inline", y)}
Three == {Env(1, "reference", x), Env(1, "inline", y), Env(2, "inline", x)}
OneInline == {Env(1, "inline", x)}

Calls == Permutations(Conn)

(* TLC takes states for one that differ in other answers than "queued",    *)
(* which nothing reads here.                                               *)
ButRefusals ==
    <<now, dbVars, accepting, connVars, crashes, shown, done, wireVars, clientVars,
      acked, {e \in Envelope : <<e, "queued">> \in told}>>
=============================================================================
