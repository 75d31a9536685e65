--------------------------- MODULE SealingProofs ---------------------------
(***************************************************************************)
(* What Sealing's checks amount to, for every set of keys, routes, ids and *)
(* bodies: a receiver accepts what one sender sealed for it, all of that   *)
(* and nothing else.                                                       *)
(***************************************************************************)
EXTENDS Sealing, TLAPS

(* Whatever parts of whatever messages are put together, and whatever a    *)
(* server writes on the outside: if process_envelope accepts them, one     *)
(* client made all of them, for this receiver and for one another.         *)
THEOREM AcceptedIsGenuine ==
    ASSUME NEW key \in Key, NEW e \in SealedEnvelope, NEW o \in Object,
           Authentic(e), Accepts(key, e, o)
    PROVE  Genuine(key, e, o)
<1> DEFINE x == o.content
           k == x.payload.sender
<1>1. k \in Key /\ e.claim.signer = k
  <2>1. o.content \in Content
    BY DEF Object
  <2>2. x.payload.sender \in Key
    BY <2>1 DEF Content, Payload
  <2> QED BY <2>2 DEF Accepts, FromOneSender
<1>2. PICK c \in Content, r \in Route, s \in Spec :
         c.payload.sender = k /\ e.claim = ClaimFor(c, r, s)
  BY <1>1 DEF Authentic
<1>3. /\ e.claim.payload.hash = c
      /\ e.claim.payload.from = r
      /\ e.claim.payload.key = s.key
  BY <1>2 DEF ClaimFor
<1>4. c = x
  BY <1>3 DEF Accepts, Belongs
<1>5. e.outer = OuterOf(ClaimFor(x, r, s).payload)
  BY <1>2, <1>4 DEF Accepts, Belongs
<1>6. s.key = key
  <2>1. e.outer.key = e.claim.payload.key
    BY DEF Accepts, Belongs, OuterOf
  <2> QED BY <2>1, <1>3 DEF Accepts
<1>7. e = EnvelopeFor(x, r, s)
  <2>1. e = [outer |-> e.outer, claim |-> e.claim, sealed |-> e.sealed]
    BY DEF SealedEnvelope
  <2>2. e.sealed = s.key
    BY <1>6 DEF Accepts
  <2>3. e.claim = ClaimFor(x, r, s)
    BY <1>2, <1>4
  <2> QED BY <2>1, <2>2, <2>3, <1>5 DEF EnvelopeFor
<1>8. x.signer = x.payload.sender /\ r = x.payload.route
  BY <1>3 DEF Accepts, FromOneSender, Belongs
<1> QED BY <1>6, <1>7, <1>8 DEF Genuine

(* Nothing send_message_fanout sends is turned down for its form: each of  *)
(* its recipients accepts its own envelope.  This is why recipients may    *)
(* not repeat a route: one addressed openly and as bcc would refuse both.  *)
THEOREM FanoutIsAccepted ==
    ASSUME NEW key \in Key, NEW route \in Route, NEW id \in Id, NEW body \in Body,
           NEW specs \in SUBSET Spec, Sendable(specs), NEW s \in specs
    PROVE  LET c == SignedContent(key, route, id, body, specs)
           IN  Accepts(s.key, EnvelopeFor(c, route, s), ObjectFor(c, specs))
<1> DEFINE c == SignedContent(key, route, id, body, specs)
           e == EnvelopeFor(c, route, s)
           o == ObjectFor(c, specs)
           p == e.claim.payload
<1>1. /\ e.sealed = s.key
      /\ e.claim = ClaimFor(c, route, s)
      /\ e.outer = OuterOf(p)
  BY DEF EnvelopeFor
<1>2. /\ p.key = s.key
      /\ p.hash = c
      /\ p.content_id = c.payload.id
      /\ p.from = route
      /\ p.route = s.route
      /\ p.role = s.role
      /\ p.sender = c.payload.sender
      /\ e.claim.signer = c.payload.sender
  BY <1>1 DEF ClaimFor
<1>3. /\ e.outer.key = s.key
      /\ e.outer.hash = c
      /\ e.outer.content_id = c.payload.id
  BY <1>1, <1>2 DEF OuterOf
<1>4. /\ o.content = c
      /\ o.id = c.payload.id
      /\ o.hash = c
      /\ s.key \in o.sealed
  BY DEF ObjectFor
<1>5. /\ c.signer = c.payload.sender
      /\ c.payload.route = route
      /\ \A r \in {"to", "cc"} : c.payload.visible[r] = RoutesOf(specs, r)
  BY DEF SignedContent
<1>6. RoleIsShown(c, p)
  <2>1. s.role \in Role
    BY DEF Spec
  <2>2. CASE s.role = "bcc"
    <3>1. \A r \in {"to", "cc"} : s.route \notin RoutesOf(specs, r)
      BY <2>2 DEF RoutesOf, Sendable
    <3> QED BY <3>1, <2>2, <1>2, <1>5 DEF RoleIsShown
  <2>3. CASE s.role \in {"to", "cc"}
    <3>1. s.route \in RoutesOf(specs, s.role)
      BY DEF RoutesOf
    <3> QED BY <3>1, <2>3, <1>2, <1>5 DEF RoleIsShown
  <2> QED BY <2>1, <2>2, <2>3 DEF Role
<1>7. FromOneSender(e.claim, c)
  BY <1>2, <1>5 DEF FromOneSender
<1>8. Belongs(e, c)
  BY <1>1, <1>2, <1>3, <1>5 DEF Belongs
<1>9. Fetched(e, o)
  BY <1>3, <1>4 DEF Fetched
<1> HIDE DEF c, e, o, p
<1>10. Accepts(s.key, e, o)
  BY <1>1, <1>3, <1>4, <1>6, <1>7, <1>8, <1>9 DEF Accepts, p
<1> QED BY <1>10 DEF c, e, o

=============================================================================
