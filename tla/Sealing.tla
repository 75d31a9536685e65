------------------------------ MODULE Sealing ------------------------------
(***************************************************************************)
(* What a sender seals and what a receiver accepts.  A message travels in  *)
(* parts - the content, sealed once for all recipients and fetched from    *)
(* the home server; a claim, sealed for one recipient; the outer envelope, *)
(* which servers read - and process_envelope compares them.                *)
(*                                                                         *)
(* Code: EndpointClient.build_* and process_envelope in                    *)
(* src/endpoint/client_core.py, the validate_* functions in                *)
(* src/endpoint/protocol.py.                                               *)
(*                                                                         *)
(* The SHA-256 of a content stands for the content, a signature for the    *)
(* key that verifies it and a fingerprint for the key.  Every part is well *)
(* formed: its size, its timestamps and the version it states are in order.*)
(***************************************************************************)
EXTENDS FiniteSets

CONSTANTS Key, Route, Id, Body, Null

Role == {"to", "cc", "bcc"}
Type == {"message", "other"}

(* RecipientSpec: who is to get it, and where, as what, under which id.    *)
Spec == [key : Key, route : Route, role : Role, id : Id]

(* A signed content: its payload, and who signed it, Null if nobody did.   *)
Payload == [id : Id, type : Type, sender : Key, route : Route, body : Body,
            visible : [{"to", "cc"} -> SUBSET Route]]
Content == [payload : Payload, signer : Key \cup {Null}]

ClaimPayload == [id : Id, content_id : Id, hash : Content, from : Route,
                 route : Route, key : Key, role : Role, sender : Key]
Claim == [payload : ClaimPayload, signer : Key \cup {Null}]

(* The envelope: what servers see, and the claim, sealed for one key.      *)
Outer    == [id : Id, content_id : Id, hash : Content, from : Route,
             route : Route, key : Key, role : Role]
SealedEnvelope == [outer : Outer, claim : Claim, sealed : Key]

(* A content object, or the content of an inline envelope: sealed for the  *)
(* keys of all recipients.                                                 *)
Object == [id : Id, hash : Content, content : Content, sealed : SUBSET Key]

-----------------------------------------------------------------------------
(* The sender.                                                             *)

(* _validate_recipient_specs: no route and no key occurs twice.            *)
Sendable(specs) ==
    /\ specs # {}
    /\ \A s, t \in specs : s.route = t.route \/ s.key = t.key => s = t

RoutesOf(specs, role) == {s.route : s \in {t \in specs : t.role = role}}

(* send_message_fanout: the content names its visible recipients.          *)
SignedContent(key, route, id, body, specs) ==
    [payload |-> [id |-> id, type |-> "message", sender |-> key, route |-> route,
                  body |-> body,
                  visible |-> [r \in {"to", "cc"} |-> RoutesOf(specs, r)]],
     signer |-> key]

(* build_delivery_envelopes: the sender's client makes claims for its own  *)
(* contents only, sent from where it is now.                               *)
ClaimFor(c, route, s) ==
    [payload |-> [id |-> s.id, content_id |-> c.payload.id, hash |-> c, from |-> route,
                  route |-> s.route, key |-> s.key, role |-> s.role,
                  sender |-> c.payload.sender],
     signer |-> c.payload.sender]

OuterOf(p) ==
    [id |-> p.id, content_id |-> p.content_id, hash |-> p.hash, from |-> p.from,
     route |-> p.route, key |-> p.key, role |-> p.role]

EnvelopeFor(c, route, s) ==
    [outer |-> OuterOf(ClaimFor(c, route, s).payload),
     claim |-> ClaimFor(c, route, s),
     sealed |-> s.key]

ObjectFor(c, specs) ==
    [id |-> c.payload.id, hash |-> c, content |-> c, sealed |-> {s.key : s \in specs}]

-----------------------------------------------------------------------------
(* The receiver.                                                           *)

(* The object is the one the envelope refers to.                           *)
Fetched(e, o) == o.id = e.outer.content_id /\ o.hash = e.outer.hash

(* Both signatures verify with the key the content names, and both parts   *)
(* say they are from its owner.                                            *)
FromOneSender(claim, c) ==
    /\ c.signer = c.payload.sender
    /\ claim.payload.sender = c.payload.sender
    /\ claim.signer = c.payload.sender

(* delivery_outer_compare_fields, and the comparisons with the content.    *)
Belongs(e, c) ==
    /\ c = e.outer.hash
    /\ e.claim.payload.hash = e.outer.hash
    /\ c.payload.route = e.claim.payload.from
    /\ e.outer = OuterOf(e.claim.payload)

(* _validate_visible_recipient_role                                        *)
RoleIsShown(c, p) ==
    c.payload.type = "message" =>
        IF p.role = "bcc"
          THEN p.route \notin c.payload.visible["to"] \cup c.payload.visible["cc"]
          ELSE p.route \in c.payload.visible[p.role]

(* Variation: content and claim are not compared.                          *)
AcceptsMixed(key, e, o) ==
    /\ key = e.sealed
    /\ Fetched(e, o)
    /\ key \in o.sealed
    /\ FromOneSender(e.claim, o.content)
    /\ e.outer.key = key
    /\ e.outer = OuterOf(e.claim.payload)

(* process_envelope, for the owner of the key: it can open both parts, and *)
(* they belong together and to it.                                         *)
Accepts(key, e, o) ==
    /\ key = e.sealed
    /\ Fetched(e, o)
    /\ key \in o.sealed
    /\ FromOneSender(e.claim, o.content)
    /\ e.outer.key = key
    /\ Belongs(e, o.content)
    /\ RoleIsShown(o.content, e.claim.payload)

-----------------------------------------------------------------------------
(* Correctness.                                                            *)

(* The signature on the claim, if there is one, was made by a client that  *)
(* built the claim for a content of its own.                               *)
Authentic(e) ==
    \A k \in Key : e.claim.signer = k =>
        \E c \in Content, r \in Route, s \in Spec :
            c.payload.sender = k /\ e.claim = ClaimFor(c, r, s)

(* One client made this very envelope for this very content.               *)
Genuine(key, e, o) ==
    \E r \in Route, s \in Spec :
        /\ s.key = key
        /\ e = EnvelopeFor(o.content, r, s)
        /\ o.content.signer = o.content.payload.sender
        /\ r = o.content.payload.route

=============================================================================
