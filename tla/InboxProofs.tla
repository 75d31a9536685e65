---------------------------- MODULE InboxProofs ----------------------------
(***************************************************************************)
(* Proofs about Inbox, for any mail, any number of overlapping calls and   *)
(* connections, any limit, lease and bound.  What the queue does is taken  *)
(* from MailboxProofs: every step of Inbox is one of Mailbox, or leaves it *)
(* alone.                                                                  *)
(***************************************************************************)
EXTENDS Inbox, MailboxProofs, FiniteSetTheorems

Once(s, e) == \A i, j \in 1..Len(s) : Grants(s[i], e) /\ Grants(s[j], e) => i = j

(* A message is under way to the user in one way at most: returned, held   *)
(* by a call, or granted by a frame on one connection.                     *)
Single(e) ==
    /\ surfaced[e] \in {0, 1}
    /\ surfaced[e] = 1 => \A c \in Conn : e \notin got[c] /\ ~ Has(toClient[c], e)
    /\ \A c, d \in Conn : e \in got[c] => ~ Has(toClient[d], e) /\ (e \in got[d] => c = d)
    /\ \A c, d \in Conn : Has(toClient[c], e) /\ Has(toClient[d], e) => c = d
    /\ \A c \in Conn : Once(toClient[c], e)

(* The invariant, for each envelope ...                                    *)
Sound(e) ==
    /\ Single(e)
    /\ (surfaced[e] # 0 \/ \E c \in Conn : e \in got[c]) => e \in acked
    /\ e \in acked => e \notin Poison /\ ~ OnQueue(e)

(* ... for the frames on the wires, which may be late: they are about      *)
(* messages that were handed out, and an accepted ack is about an accepted *)
(* message; a reject is about one the client may refuse, or has had ...    *)
AckedId(m) == \E e \in acked : e.id = m

SoundFrame ==
    {f \in FrameToClient : /\ f.type = "message" => f.envelope \in shown
                           /\ f.type = "ack" /\ f.ok => AckedId(f.id)}

SoundAsk ==
    {f \in FrameToServer :
        \E e \in shown : /\ e.id = f.id
                         /\ f.type = "ack" => e \notin Poison
                         /\ f.type = "reject" => Refusable(e) \/ e \in acked}

FramesOK(c) ==
    /\ toClient[c] \in Seq(SoundFrame)
    /\ deferred[c] \in Seq(SoundFrame)
    /\ toServer[c] \in Seq(SoundAsk)

(* ... and for each call.                                                  *)
CallOK(c) ==
    /\ at[c] \in {"fetching", "ack", "reject"} => cur[c] \in shown
    /\ at[c] = "ack" => cur[c] \notin Poison

Inv ==
    /\ InboxTypeOK
    /\ IInv
    /\ \A e \in Envelope : Sound(e)
    /\ \A c \in Conn : FramesOK(c) /\ CallOK(c)
    /\ \A m \in processed : AckedId(m)

-----------------------------------------------------------------------------
(* Grants in a sequence of frames.                                         *)

LEMMA EmptyGrants == \A e : ~ Has(<<>>, e) /\ Once(<<>>, e)
  BY DEF Has, Once

LEMMA HeadOfFrames ==
    ASSUME NEW T, NEW s \in Seq(T), s # <<>>
    PROVE  Head(s) \in T /\ Tail(s) \in Seq(T)
  OBVIOUS

LEMMA MoreFrames ==
    ASSUME NEW T, NEW U, T \subseteq U
    PROVE  Seq(T) \subseteq Seq(U)
  OBVIOUS

LEMMA TailGrants ==
    ASSUME NEW T, NEW s \in Seq(T), s # <<>>, NEW e
    PROVE  /\ Has(Tail(s), e) => Has(s, e)
           /\ Grants(Head(s), e) => Has(s, e)
           /\ Once(s, e) => Once(Tail(s), e)
           /\ Once(s, e) /\ Grants(Head(s), e) => ~ Has(Tail(s), e)
<1>1. /\ Len(s) \in Nat /\ Len(s) >= 1 /\ Head(s) = s[1]
      /\ Len(Tail(s)) = Len(s) - 1
      /\ \A i \in 1..Len(Tail(s)) : Tail(s)[i] = s[i + 1] /\ i + 1 \in 1..Len(s) /\ i + 1 # 1
  OBVIOUS
<1>2. Has(Tail(s), e) => Has(s, e)
  BY <1>1 DEF Has
<1>3. Grants(Head(s), e) => Has(s, e)
  BY <1>1 DEF Has
<1>4. ASSUME Once(s, e) PROVE Once(Tail(s), e)
  <2>1. ASSUME NEW i \in 1..Len(Tail(s)), NEW j \in 1..Len(Tail(s)),
               Grants(Tail(s)[i], e), Grants(Tail(s)[j], e)
        PROVE  i = j
    <3>1. i + 1 = j + 1
      BY <1>1, <1>4, <2>1 DEF Once
    <3> QED  BY <3>1, <1>1
  <2> QED  BY <2>1 DEF Once
<1>5. ASSUME Once(s, e), Grants(Head(s), e), Has(Tail(s), e) PROVE FALSE
  <2>1. PICK i \in 1..Len(Tail(s)) : Grants(Tail(s)[i], e)
    BY <1>5 DEF Has
  <2>2. 1 \in 1..Len(s) /\ Grants(s[1], e) /\ Grants(s[i + 1], e)
    BY <1>1, <1>5, <2>1
  <2> QED  BY <1>1, <1>5, <2>1, <2>2 DEF Once
<1> QED  BY <1>2, <1>3, <1>4, <1>5

LEMMA AppendGrants ==
    ASSUME NEW T, NEW s \in Seq(T), NEW f \in T, NEW e
    PROVE  /\ Has(Append(s, f), e) <=> Has(s, e) \/ Grants(f, e)
           /\ Once(s, e) /\ ~ (Has(s, e) /\ Grants(f, e)) => Once(Append(s, f), e)
<1> DEFINE t == Append(s, f)
<1>1. /\ Len(s) \in Nat /\ Len(t) = Len(s) + 1 /\ t[Len(s) + 1] = f
      /\ \A i \in 1..Len(s) : t[i] = s[i]
      /\ 1..Len(t) = 1..Len(s) \cup {Len(s) + 1}
  OBVIOUS
<1> HIDE DEF t
<1>2. Has(t, e) <=> Has(s, e) \/ Grants(f, e)
  BY <1>1 DEF Has
<1>3. ASSUME Once(s, e), ~ (Has(s, e) /\ Grants(f, e)) PROVE Once(t, e)
  BY <1>1, <1>3 DEF Has, Once
<1> QED  BY <1>2, <1>3 DEF t

-----------------------------------------------------------------------------
(* Every step is one of the mailbox, or leaves it alone.                   *)

LEMMA ServerStep ==
    ASSUME InboxTypeOK, NEW c \in Conn, ServerDeliver(c) \/ ServerSettle(c) \/ ServerClose(c)
    PROVE  Next
<1>1. CASE ServerDeliver(c)
  BY <1>1 DEF ServerDeliver, Next, Handler
<1>2. CASE ServerSettle(c)
  <2>1. Head(toServer[c]) \in FrameToServer
    BY <1>2, HeadOfFrames DEF ServerSettle, InboxTypeOK
  <2>2. Head(toServer[c]).id \in MessageId
    BY <2>1 DEF FrameToServer
  <2> QED  BY <1>2, <2>2 DEF ServerSettle, Next, Handler
<1>3. CASE ServerClose(c)
  BY <1>3 DEF ServerClose, Next
<1> QED  BY <1>1, <1>2, <1>3

LEMMA MailboxStep == InboxTypeOK /\ [InboxNext]_allVars => [Next]_vars
<1> SUFFICES ASSUME InboxTypeOK, [InboxNext]_allVars PROVE [Next]_vars
  OBVIOUS
<1>1. ASSUME NEW c \in Conn, Start(c) PROVE Next
  BY <1>1 DEF Start, Next
<1>s. CASE Sender
  BY <1>s DEF Sender, Next
<1>2. ASSUME NEW c \in Conn, Client(c) \/ Return(c) \/ Fail(c) PROVE UNCHANGED vars
  BY <1>2 DEF Client, Read, SendAck, SendReject, Defer, TakeResult, Return, Fail
<1>3. CASE ServerCrash
  BY <1>3 DEF ServerCrash, Next
<1>4. CASE ClockTick
  BY <1>4 DEF ClockTick, Next
<1>5. CASE UNCHANGED allVars
  BY <1>5 DEF allVars
<1> QED  BY <1>1, <1>s, <1>2, <1>3, <1>4, <1>5, ServerStep DEF InboxNext, Server

(* What an ack took off the queue stays away: no step but Enqueue puts an  *)
(* envelope on it, and that only one without a past.                       *)
LEMMA DeliveryKeepsOff ==
    ASSUME IInv, DeliveryStep
    PROVE  {q.env : q \in queue'} = {r.env : r \in queue}
<1>1. PICK f \in [queue -> Row] :
          /\ queue' = {f[r] : r \in queue}
          /\ \A r \in queue : RowStep(r, f[r])
  BY DEF DeliveryStep
<1>2. now \in Nat /\ queue \subseteq Row
  BY ConfigAssumption DEF IInv, TypeOK
<1>3. \A r \in queue : f[r].env = r.env
  BY <1>1, <1>2, RowStepKeeps
<1> QED  BY <1>1, <1>3

(* A settled row is gone, if it was not rejected under quarantine.         *)
LEMMA AckTakesOff ==
    ASSUME IInv, NEW c \in Conn, NEW m, Ack(c, m), NEW e \in Envelope
    PROVE  /\ OnQueue(e)' => OnQueue(e)
           /\ e \in {r.env : r \in ActiveFor(owner[c], m)} => ~ OnQueue(e)'
           /\ e \in {r.env : r \in ActiveFor(owner[c], m)} => OnQueue(e) /\ e.id = m
<1>1. queue' = queue \ ActiveFor(owner[c], m)
  BY DEF Ack
<1>2. OnQueue(e)' <=> \E r \in queue' : r.env = e
  BY DEF OnQueue
<1>3. ASSUME NEW r \in ActiveFor(owner[c], m), r.env = e
      PROVE  ~ OnQueue(e)' /\ OnQueue(e) /\ e.id = m
  <2>1. r \in queue /\ e.id = m
    BY <1>3 DEF ActiveFor, RowsFor, RowsOf
  <2>2. \A s \in queue : s.env = e => s = r
    BY <1>3, <2>1 DEF IInv, RowsUnique, SameId
  <2> QED  BY <1>1, <1>2, <1>3, <2>1, <2>2 DEF OnQueue
<1> QED  BY <1>1, <1>2, <1>3 DEF OnQueue

LEMMA RejectAddsNothing ==
    ASSUME IInv, NEW c \in Conn, NEW m, Reject(c, m), NEW e \in Envelope
    PROVE  OnQueue(e)' => OnQueue(e)
<1> DEFINE hit == ActiveFor(owner[c], m)
<1>1. hit \subseteq queue
  BY DEF ActiveFor, RowsFor, RowsOf
<1>2. \A r \in hit : Quarantined(r).env = r.env
  BY <1>1 DEF Quarantined, IInv, TypeOK, Row
<1>3. queue' \subseteq queue \cup {Quarantined(r) : r \in hit}
  BY DEF Reject
<1> QED  BY <1>1, <1>2, <1>3 DEF OnQueue

LEMMA OffTheQueue ==
    ASSUME Inv, [InboxNext]_allVars, NEW e \in acked
    PROVE  ~ OnQueue(e)'
<1>0. TypeOK /\ IInv /\ e \in Envelope /\ e \in done /\ ~ OnQueue(e)
  BY DEF Inv, IInv, InboxTypeOK, TypeOK, Sound
<1> SUFFICES OnQueue(e)' => OnQueue(e)
  BY <1>0
<1>1. ASSUME UNCHANGED queue PROVE OnQueue(e)' => OnQueue(e)
  BY <1>1 DEF OnQueue
<1>2. ASSUME NEW c \in Conn, Start(c) \/ Client(c) \/ Return(c) \/ Fail(c) \/ ServerClose(c)
      PROVE  UNCHANGED queue
  BY <1>2 DEF Start, Connect, Client, Read, SendAck, SendReject, Defer, TakeResult, Return, Fail,
              ServerClose, Disconnect, vars, dbVars
<1>3. CASE ServerCrash \/ ClockTick \/ UNCHANGED allVars
  BY <1>1, <1>3 DEF ServerCrash, Crash, ClockTick, Tick, dbVars, allVars, vars
<1>4. ASSUME NEW c \in Conn, ServerDeliver(c) PROVE OnQueue(e)' => OnQueue(e)
  <2>1. DeliveryStep
    BY <1>0, <1>4, DeliverIsDelivery, DeliverNextIsDelivery DEF ServerDeliver
  <2>2. {q.env : q \in queue'} = {r.env : r \in queue}
    BY <1>0, <2>1, DeliveryKeepsOff
  <2> QED  BY <2>2 DEF OnQueue
<1>5. ASSUME NEW c \in Conn, ServerSettle(c) PROVE OnQueue(e)' => OnQueue(e)
  <2>1. PICK m : Ack(c, m) \/ Reject(c, m)
    BY <1>5 DEF ServerSettle
  <2> QED  BY <1>0, <2>1, AckTakesOff, RejectAddsNothing
<1>6. CASE Sender
  <2>1. ASSUME NEW d \in Envelope, Submit(d) PROVE UNCHANGED queue
    BY <2>1 DEF Submit, RefuseUnready, RefuseDuplicate, AnswerAlreadyQueued, Remember, dbVars
  <2>2. CASE Enqueue
    <3>1. queue' \subseteq queue \cup {NewRow(accepting)}
      BY <2>2 DEF Enqueue
    <3>2. NewRow(accepting).env = accepting
      BY DEF NewRow
    <3>3. accepting # e
      BY <1>0, <2>2 DEF Enqueue, IInv, AcceptingIsFresh, Settled, SameId
    <3> QED  BY <3>1, <3>2, <3>3 DEF OnQueue
  <2> QED  BY <1>1, <1>6, <2>1, <2>2 DEF Sender
<1> QED  BY <1>1, <1>2, <1>3, <1>4, <1>5, <1>6 DEF InboxNext, Server

(* A message_id names one message, of those the server has let in.         *)
LEMMA OneMail ==
    ASSUME Inv, NEW e \in Admitted, NEW f \in Admitted, e.id = f.id
    PROVE  e = f
<1>1. e \in Envelope /\ f \in Envelope
  BY DEF Admitted, Inv, InboxTypeOK, TypeOK, Row
<1> QED  BY <1>1, InboxAssumption DEF Inv, IInv, OneEnvelopePerMessageId, SameId

LEMMA HandedOutIsAdmitted ==
    Inv => acked \subseteq Admitted /\ shown \subseteq Admitted /\ shown \subseteq Envelope
  BY DEF Admitted, Inv, InboxTypeOK, TypeOK

-----------------------------------------------------------------------------
(* Types.                                                                  *)

LEMMA InitInv == InboxInit => Inv
<1> SUFFICES ASSUME InboxInit PROVE Inv
  OBVIOUS
<1> USE DEF InboxInit
<1>1. IInv /\ TypeOK
  BY InitIInv DEF IInv
<1>2. InboxTypeOK
  BY <1>1 DEF InboxTypeOK
<1>3. \A e \in Envelope : Sound(e)
  BY EmptyGrants DEF Sound, Single
<1>4. \A c \in Conn : FramesOK(c) /\ CallOK(c)
  <2>1. \A T : <<>> \in Seq(T)
    OBVIOUS
  <2> QED  BY <2>1 DEF FramesOK, CallOK
<1> QED  BY <1>1, <1>2, <1>3, <1>4 DEF Inv

LEMMA NextTypes == Inv /\ [InboxNext]_allVars => InboxTypeOK'
<1> SUFFICES ASSUME Inv, [InboxNext]_allVars PROVE InboxTypeOK'
  OBVIOUS
<1>0. InboxTypeOK /\ TypeOK /\ IInv
  BY DEF Inv, IInv
<1>a. TypeOK'
  BY <1>0, MailboxStep, NextTypeOK
<1>b. \A c \in Conn : at[c] \in {"fetching", "ack", "reject"} => cur[c] \in Envelope
  BY HandedOutIsAdmitted DEF Inv, CallOK
<1> USE <1>0, <1>a DEF InboxTypeOK
<1>1. ASSUME NEW c \in Conn, Start(c) PROVE InboxTypeOK'
  <2>1. /\ toClient' \in [Conn -> Seq(FrameToClient)]
        /\ toServer' \in [Conn -> Seq(FrameToServer)]
    BY <1>1 DEF Start
  <2> QED  BY <1>1, <2>1 DEF Start, Connect
<1>2. ASSUME NEW c \in Conn, Read(c) PROVE InboxTypeOK'
  <2>1. PICK f \in NextFrames(c) :
           /\ TakeFrame(c, f)
           /\ \/ f.type = "message" /\ cur' = [cur EXCEPT ![c] = f.envelope]
              \/ UNCHANGED cur
    BY <1>2 DEF Read
  <2>2. f \in FrameToClient
    BY HeadOfFrames DEF NextFrames
  <2>3. f.type = "message" => f.envelope \in Envelope
    BY <2>2 DEF FrameToClient
  <2>4. /\ toClient' \in [Conn -> Seq(FrameToClient)]
        /\ deferred' \in [Conn -> Seq(FrameToClient)]
    <3>1. CASE /\ deferred[c] # <<>>
               /\ deferred' = [deferred EXCEPT ![c] = Tail(@)]
               /\ UNCHANGED toClient
      <4>1. Tail(deferred[c]) \in Seq(FrameToClient)
        BY <3>1, HeadOfFrames
      <4> QED  BY <3>1, <4>1
    <3>2. CASE /\ toClient[c] # <<>>
               /\ toClient' = [toClient EXCEPT ![c] = Tail(@)]
               /\ UNCHANGED deferred
      <4>1. Tail(toClient[c]) \in Seq(FrameToClient)
        BY <3>2, HeadOfFrames
      <4> QED  BY <3>2, <4>1
    <3> QED  BY <2>1, <3>1, <3>2, Zenon DEF TakeFrame
  <2>5. at' \in [Conn -> {"out", "reading", "fetching", "ack", "reject"}]
    BY <1>2 DEF Read
  <2>6. cur' \in [Conn -> Envelope \cup {Null}]
    <3>1. CASE f.type = "message" /\ cur' = [cur EXCEPT ![c] = f.envelope]
      BY <2>3, <3>1
    <3>2. CASE UNCHANGED cur
      BY <3>2
    <3> QED  BY <2>1, <3>1, <3>2
  <2> QED  BY <1>2, <2>4, <2>5, <2>6 DEF Read, vars
<1>3. ASSUME NEW c \in Conn, SendAck(c) \/ SendReject(c) PROVE InboxTypeOK'
  <2>1. PICK type \in {"ack", "reject"} : SendSettle(c, type)
    BY <1>3 DEF SendAck, SendReject
  <2>2. cur[c].id \in MessageId
    BY <1>3, <1>b, EnvelopeAssumption DEF SendAck, SendReject
  <2>3. Settle(type, cur[c].id) \in FrameToServer
    BY <2>2 DEF Settle, FrameToServer
  <2>4. /\ toServer' \in [Conn -> Seq(FrameToServer)]
        /\ at' \in [Conn -> {"out", "reading", "fetching", "ack", "reject"}]
    BY <2>1, <2>3 DEF SendSettle
  <2> QED  BY <1>3, <2>4 DEF SendAck, SendReject, vars
<1>4. ASSUME NEW c \in Conn, Defer(c) PROVE InboxTypeOK'
  <2>1. Head(toClient[c]) \in FrameToClient /\ Tail(toClient[c]) \in Seq(FrameToClient)
    BY <1>4, HeadOfFrames DEF Defer
  <2>2. /\ toClient' \in [Conn -> Seq(FrameToClient)]
        /\ deferred' \in [Conn -> Seq(FrameToClient)]
    BY <1>4, <2>1 DEF Defer
  <2> QED  BY <1>4, <2>2 DEF Defer, vars
<1>5. ASSUME NEW c \in Conn, TakeResult(c) PROVE InboxTypeOK'
  <2>1. Tail(toClient[c]) \in Seq(FrameToClient)
    BY <1>5, HeadOfFrames DEF TakeResult
  <2>2. toClient' \in [Conn -> Seq(FrameToClient)]
    BY <1>5, <2>1 DEF TakeResult
  <2>3. cur[c] \in Envelope /\ cur[c].id \in MessageId
    BY <1>5, <1>b, EnvelopeAssumption DEF TakeResult
  <2>4. got' \in [Conn -> SUBSET Envelope] /\ processed' \subseteq MessageId
    <3>1. CASE /\ processed' = processed \cup {cur[c].id}
               /\ got' = [got EXCEPT ![c] = @ \cup {cur[c]}]
      BY <2>3, <3>1
    <3>2. CASE UNCHANGED <<processed, got>>
      BY <3>2
    <3> QED  BY <1>5, <3>1, <3>2 DEF TakeResult
  <2>5. /\ at' \in [Conn -> {"out", "reading", "fetching", "ack", "reject"}]
        /\ cur' \in [Conn -> Envelope \cup {Null}]
    BY <1>5 DEF TakeResult
  <2> QED  BY <1>5, <2>2, <2>4, <2>5 DEF TakeResult, vars
<1>6. ASSUME NEW c \in Conn, Leave(c)
      PROVE  /\ at' \in [Conn -> {"out", "reading", "fetching", "ack", "reject"}]
             /\ cur' \in [Conn -> Envelope \cup {Null}]
             /\ deferred' \in [Conn -> Seq(FrameToClient)]
             /\ got' \in [Conn -> SUBSET Envelope]
  BY <1>6 DEF Leave
<1>7. ASSUME NEW c \in Conn, Return(c) PROVE InboxTypeOK'
  <2>1. surfaced' \in [Envelope -> Nat]
    BY <1>7 DEF Return
  <2> QED  BY <1>6, <1>7, <2>1 DEF Return, vars, wireVars
<1>8. ASSUME NEW c \in Conn, Fail(c) PROVE InboxTypeOK'
  <2>1. [toServer EXCEPT ![c] = <<>>] \in [Conn -> Seq(FrameToServer)]
    OBVIOUS
  <2>2. toServer' \in [Conn -> Seq(FrameToServer)]
    BY <1>8, <2>1 DEF Fail
  <2> QED  BY <1>6, <1>8, <2>2 DEF Fail, vars
<1>9. ASSUME NEW c \in Conn, ServerDeliver(c) PROVE InboxTypeOK'
  <2>1. Handed \subseteq Envelope
    BY DEF Handed, TypeOK, Row
  <2>2. \A e \in Envelope : Message(e) \in FrameToClient
    BY DEF Message, FrameToClient
  <2>3. toClient' \in [Conn -> Seq(FrameToClient)]
    <3>1. CASE UNCHANGED toClient
      BY <3>1
    <3>2. ASSUME NEW e \in Handed, toClient' = [toClient EXCEPT ![c] = Append(@, Message(e))]
          PROVE  toClient' \in [Conn -> Seq(FrameToClient)]
      <4>1. Message(e) \in FrameToClient
        BY <2>1, <2>2
      <4>2. Append(toClient[c], Message(e)) \in Seq(FrameToClient)
        BY <4>1
      <4> QED  BY <3>2, <4>2
    <3> QED  BY <1>9, <3>1, <3>2 DEF ServerDeliver
  <2>4. UNCHANGED done
    BY <1>9 DEF ServerDeliver, Deliver, DeliverNext
  <2> QED  BY <1>9, <2>3, <2>4 DEF ServerDeliver, clientVars
<1>10. ASSUME NEW c \in Conn, ServerSettle(c) PROVE InboxTypeOK'
  <2> DEFINE f   == Head(toServer[c])
             hit == {r.env : r \in ActiveFor(owner[c], f.id)}
  <2>1. f \in FrameToServer /\ Tail(toServer[c]) \in Seq(FrameToServer)
    BY <1>10, HeadOfFrames DEF ServerSettle
  <2>2. Result(f.type, f.id, hit # {}) \in FrameToClient
    BY <2>1 DEF Result, FrameToServer, FrameToClient
  <2>3. /\ toClient' = [toClient EXCEPT ![c] = Append(@, Result(f.type, f.id, hit # {}))]
        /\ toServer' = [toServer EXCEPT ![c] = Tail(@)]
        /\ UNCHANGED clientVars
    BY <1>10 DEF ServerSettle
  <2>4. /\ toClient' \in [Conn -> Seq(FrameToClient)]
        /\ toServer' \in [Conn -> Seq(FrameToServer)]
    BY <2>1, <2>2, <2>3
  <2>5. acked' \subseteq done'
    BY <1>10 DEF ServerSettle, Ack, Reject
  <2> QED  BY <2>3, <2>4, <2>5 DEF clientVars
<1>11. ASSUME NEW c \in Conn, ServerClose(c) PROVE InboxTypeOK'
  BY <1>11 DEF ServerClose, Disconnect, wireVars, clientVars
<1>12. CASE ServerCrash \/ ClockTick
  BY <1>12 DEF ServerCrash, Crash, ClockTick, Tick, wireVars, clientVars
<1>13. CASE UNCHANGED allVars
  BY <1>13 DEF allVars, vars, wireVars, clientVars
<1>14. CASE Sender
  <2>1. UNCHANGED done
    BY <1>14 DEF Sender, Submit, RefuseUnready, RefuseDuplicate, AnswerAlreadyQueued, Remember,
                 Enqueue
  <2> QED  BY <1>14, <2>1 DEF Sender, wireVars, clientVars
<1> QED  BY <1>1, <1>2, <1>3, <1>4, <1>5, <1>7, <1>8, <1>9, <1>10, <1>11, <1>12, <1>13, <1>14
            DEF InboxNext, Client, Server

-----------------------------------------------------------------------------
(* Frames and calls.                                                       *)

(* What was handed out, and what was acknowledged, stays in the books.     *)
LEMMA HistoryGrows == Inv /\ [InboxNext]_allVars => shown \subseteq shown' /\ acked \subseteq acked'
<1> SUFFICES ASSUME Inv, [InboxNext]_allVars
             PROVE  shown \subseteq shown' /\ acked \subseteq acked'
  OBVIOUS
<1>0. TypeOK
  BY DEF Inv, InboxTypeOK
<1>1. CASE Sender
  BY <1>1 DEF Sender, Submit, RefuseUnready, RefuseDuplicate, AnswerAlreadyQueued, Remember, Enqueue
<1>2. ASSUME NEW c \in Conn, Start(c) \/ Client(c) \/ Return(c) \/ Fail(c) \/ ServerClose(c)
      PROVE  UNCHANGED <<shown, acked>>
  BY <1>2 DEF Start, Connect, Client, Read, SendAck, SendReject, Defer, TakeResult, Return, Fail,
              ServerClose, Disconnect, vars
<1>3. ASSUME NEW c \in Conn, ServerDeliver(c) PROVE shown \subseteq shown' /\ UNCHANGED acked
  BY <1>0, <1>3, DeliverIsDelivery, DeliverNextIsDelivery DEF ServerDeliver, DeliveryStep
<1>4. ASSUME NEW c \in Conn, ServerSettle(c) PROVE acked \subseteq acked' /\ UNCHANGED shown
  BY <1>4 DEF ServerSettle, Ack, Reject
<1>5. CASE ServerCrash \/ ClockTick \/ UNCHANGED allVars
  BY <1>5 DEF ServerCrash, Crash, ClockTick, Tick, allVars, vars
<1> QED  BY <1>1, <1>2, <1>3, <1>4, <1>5 DEF InboxNext, Server

(* A delivery sends what it has just leased, and books it as handed out.   *)
LEMMA HandedIsShown ==
    ASSUME TypeOK, NEW c \in Conn, Deliver(c) \/ DeliverNext(c), NEW e \in Handed
    PROVE  e \in shown'
<1>1. PICK q \in queue' \ queue : q.state = "leased" /\ e = q.env
  BY DEF Handed
<1>2. queue \subseteq Row /\ now \in Nat
  BY ConfigAssumption DEF TypeOK
<1>3. ASSUME NEW rows, NEW r \in rows, NEW rest, LeaseAndSend(c, rows, r, rest), r \in Row,
             \A p \in rows : p \in queue \/ p.state = "queued"
      PROVE  e \in shown'
  <2>1. q = Leased(r)
    BY <1>1, <1>3 DEF LeaseAndSend
  <2>2. Leased(r).env = r.env
    BY <1>2, <1>3, LeasedType
  <2> QED  BY <1>1, <1>3, <2>1, <2>2 DEF LeaseAndSend
<1>4. CASE Deliver(c)
  <2> DEFINE rows    == Requeued(owner[c])
             waiting == QueuedIn(rows, owner[c])
  <2>1. \A p \in rows : p \in queue \/ p.state = "queued"
    BY <1>2 DEF Requeued, Row
  <2>2. rows \subseteq Row
    BY <1>2, RequeuedType DEF TypeOK
  <2>3. CASE queue' = rows
    BY <1>1, <2>1, <2>3
  <2>4. CASE \E r \in Earliest(waiting) : LeaseAndSend(c, rows, r, waiting)
    <3>1. PICK r \in Earliest(waiting) : LeaseAndSend(c, rows, r, waiting)
      BY <2>4
    <3>2. r \in rows
      BY EarliestIsMember DEF QueuedIn
    <3> QED  BY <1>3, <2>1, <2>2, <3>1, <3>2
  <2> QED  BY <1>4, <2>3, <2>4 DEF Deliver
<1>5. CASE DeliverNext(c)
  <2> DEFINE left == {r \in InBatch(c) : Leasable(r)}
  <2>1. CASE UNCHANGED queue
    BY <1>1, <2>1
  <2>2. CASE \E r \in Earliest(left) : LeaseAndSend(c, queue, r, InBatch(c))
    <3>1. PICK r \in Earliest(left) : LeaseAndSend(c, queue, r, InBatch(c))
      BY <2>2
    <3>2. r \in queue
      BY EarliestIsMember DEF InBatch, RowsOf
    <3> QED  BY <1>2, <1>3, <3>1, <3>2
  <2> QED  BY <1>5, <2>1, <2>2 DEF DeliverNext
<1> QED  BY <1>4, <1>5

LEMMA NextFramesOK ==
    ASSUME Inv, [InboxNext]_allVars, NEW d \in Conn
    PROVE  FramesOK(d)'
<1> DEFINE In  == SoundFrame
           Out == SoundAsk
<1>0. InboxTypeOK /\ TypeOK
  BY DEF Inv, InboxTypeOK
<1>1. \A c \in Conn : toClient[c] \in Seq(In) /\ deferred[c] \in Seq(In) /\ toServer[c] \in Seq(Out)
  BY DEF Inv, FramesOK
<1>2. shown \subseteq shown' /\ acked \subseteq acked'
  BY HistoryGrows
<1>3. In \subseteq In' /\ Out \subseteq Out'
  BY <1>2 DEF SoundFrame, SoundAsk, AckedId
<1>4. Seq(In) \subseteq Seq(In') /\ Seq(Out) \subseteq Seq(Out')
  BY <1>3, MoreFrames
<1>e. <<>> \in Seq(In') /\ <<>> \in Seq(Out')
  OBVIOUS
<1> HIDE DEF In, Out
<1> SUFFICES toClient'[d] \in Seq(In') /\ deferred'[d] \in Seq(In') /\ toServer'[d] \in Seq(Out')
  BY DEF FramesOK, In, Out
<1>5. /\ UNCHANGED toClient => toClient'[d] \in Seq(In')
      /\ UNCHANGED deferred => deferred'[d] \in Seq(In')
      /\ UNCHANGED toServer => toServer'[d] \in Seq(Out')
  BY <1>1, <1>4
(* What a frame at the head leaves behind, and what one that comes adds.   *)
<1>6. ASSUME NEW c \in Conn
      PROVE  /\ toClient[c] # <<>> => Head(toClient[c]) \in In /\ Tail(toClient[c]) \in Seq(In')
             /\ deferred[c] # <<>> => Head(deferred[c]) \in In /\ Tail(deferred[c]) \in Seq(In')
             /\ toServer[c] # <<>> => Head(toServer[c]) \in Out /\ Tail(toServer[c]) \in Seq(Out')
  BY <1>1, <1>4, HeadOfFrames
<1>7. ASSUME NEW c \in Conn
      PROVE  /\ \A f \in In' : /\ Append(toClient[c], f) \in Seq(In')
                              /\ Append(deferred[c], f) \in Seq(In')
             /\ \A f \in Out' : Append(toServer[c], f) \in Seq(Out')
  BY <1>1, <1>4
<1>8. ASSUME NEW c \in Conn, Start(c) PROVE toClient'[d] \in Seq(In') /\ toServer'[d] \in Seq(Out')
  <2>1. /\ toClient'[d] \in {toClient[d], <<>>}
        /\ toServer'[d] \in {toServer[d], <<>>}
    BY <1>0, <1>8 DEF Start, InboxTypeOK
  <2> QED  BY <1>1, <1>4, <1>e, <2>1
<1>9. ASSUME NEW c \in Conn, Read(c) PROVE toClient'[d] \in Seq(In') /\ deferred'[d] \in Seq(In')
  <2>1. \/ /\ deferred[c] # <<>>
           /\ deferred' = [deferred EXCEPT ![c] = Tail(@)]
           /\ UNCHANGED toClient
        \/ /\ toClient[c] # <<>>
           /\ toClient' = [toClient EXCEPT ![c] = Tail(@)]
           /\ UNCHANGED deferred
    BY <1>9 DEF Read, TakeFrame
  <2>2. CASE /\ deferred[c] # <<>>
             /\ deferred' = [deferred EXCEPT ![c] = Tail(@)]
             /\ UNCHANGED toClient
    <3>1. deferred'[d] = IF d = c THEN Tail(deferred[c]) ELSE deferred[d]
      BY <1>0, <2>2 DEF InboxTypeOK
    <3> QED  BY <1>1, <1>4, <1>5, <1>6, <2>2, <3>1
  <2>3. CASE /\ toClient[c] # <<>>
             /\ toClient' = [toClient EXCEPT ![c] = Tail(@)]
             /\ UNCHANGED deferred
    <3>1. toClient'[d] = IF d = c THEN Tail(toClient[c]) ELSE toClient[d]
      BY <1>0, <2>3 DEF InboxTypeOK
    <3> QED  BY <1>1, <1>4, <1>5, <1>6, <2>3, <3>1
  <2> QED  BY <2>1, <2>2, <2>3
(* The client answers for what it was handed: it acknowledges what it      *)
(* accepts; it rejects what it does not, or what it has had already.       *)
<1>10. ASSUME NEW c \in Conn, NEW type \in {"ack", "reject"}, SendSettle(c, type),
              cur[c] \in shown,
              type = "ack" => cur[c] \notin Poison,
              type = "reject" => Refusable(cur[c]) \/ cur[c] \in acked
       PROVE  toServer'[d] \in Seq(Out')
  <2>1. cur[c] \in Envelope /\ cur[c].id \in MessageId
    BY <1>10, HandedOutIsAdmitted, EnvelopeAssumption
  <2>2. Settle(type, cur[c].id) \in Out
    BY <1>10, <2>1 DEF Settle, SoundAsk, FrameToServer, Out
  <2>3. toServer'[d] = IF d = c THEN Append(toServer[c], Settle(type, cur[c].id)) ELSE toServer[d]
    BY <1>0, <1>10 DEF SendSettle, InboxTypeOK
  <2> QED  BY <1>1, <1>3, <1>4, <1>7, <2>2, <2>3
<1>11. ASSUME NEW c \in Conn, SendAck(c) PROVE toServer'[d] \in Seq(Out')
  BY <1>10, <1>11 DEF SendAck, Accepts, Inv, CallOK
<1>12. ASSUME NEW c \in Conn, SendReject(c) PROVE toServer'[d] \in Seq(Out')
  <2>1. cur[c] \in shown
    BY <1>12 DEF SendReject, Inv, CallOK
  <2>2. cur[c].id \in processed => cur[c] \in acked
    <3>1. ASSUME cur[c].id \in processed PROVE cur[c] \in acked
      <4>1. PICK g \in acked : g.id = cur[c].id
        BY <3>1 DEF Inv, AckedId
      <4> QED  BY <2>1, <4>1, OneMail, HandedOutIsAdmitted
    <3> QED  BY <3>1
  <2>3. Refusable(cur[c]) \/ cur[c] \in acked
    BY <1>12, <2>2 DEF SendReject, Accepts, Refusable
  <2> QED  BY <1>10, <1>12, <2>1, <2>3 DEF SendReject
<1>13. ASSUME NEW c \in Conn, Defer(c) PROVE toClient'[d] \in Seq(In') /\ deferred'[d] \in Seq(In')
  <2>1. /\ toClient[c] # <<>>
        /\ toClient'[d] = IF d = c THEN Tail(toClient[c]) ELSE toClient[d]
        /\ deferred'[d] = IF d = c THEN Append(deferred[c], Head(toClient[c])) ELSE deferred[d]
    BY <1>0, <1>13 DEF Defer, InboxTypeOK
  <2> QED  BY <1>1, <1>3, <1>4, <1>6, <1>7, <2>1
<1>14. ASSUME NEW c \in Conn, TakeResult(c) PROVE toClient'[d] \in Seq(In')
  <2>1. /\ toClient[c] # <<>>
        /\ toClient'[d] = IF d = c THEN Tail(toClient[c]) ELSE toClient[d]
    BY <1>0, <1>14 DEF TakeResult, InboxTypeOK
  <2> QED  BY <1>1, <1>4, <1>6, <2>1
<1>15. ASSUME NEW c \in Conn, Leave(c) PROVE deferred'[d] \in Seq(In')
  <2>1. deferred'[d] \in {deferred[d], <<>>}
    BY <1>0, <1>15 DEF Leave, InboxTypeOK
  <2> QED  BY <1>1, <1>4, <1>e, <2>1
<1>16. ASSUME NEW c \in Conn, Fail(c) PROVE toServer'[d] \in Seq(Out')
  <2>1. toServer'[d] \in {toServer[d], <<>>}
    BY <1>0, <1>16 DEF Fail, InboxTypeOK
  <2> QED  BY <1>1, <1>4, <1>e, <2>1
<1>17. ASSUME NEW c \in Conn, ServerDeliver(c) PROVE toClient'[d] \in Seq(In')
  <2>1. CASE UNCHANGED toClient
    BY <1>5, <2>1
  <2>2. ASSUME NEW e \in Handed, toClient' = [toClient EXCEPT ![c] = Append(@, Message(e))]
        PROVE  toClient'[d] \in Seq(In')
    <3>1. e \in shown'
      BY <1>0, <1>17, <2>2, HandedIsShown DEF ServerDeliver
    <3>2. e \in Envelope
      <4>1. TypeOK'
        BY <1>0, MailboxStep, NextTypeOK
      <4> QED  BY <3>1, <4>1 DEF TypeOK
    <3>3. Message(e) \in In'
      BY <3>1, <3>2 DEF Message, SoundFrame, FrameToClient, In
    <3>4. toClient'[d] = IF d = c THEN Append(toClient[c], Message(e)) ELSE toClient[d]
      BY <1>0, <2>2 DEF InboxTypeOK
    <3> QED  BY <1>1, <1>4, <1>7, <3>3, <3>4
  <2> QED  BY <1>17, <2>1, <2>2 DEF ServerDeliver
<1>18. ASSUME NEW c \in Conn, ServerSettle(c)
       PROVE  toClient'[d] \in Seq(In') /\ toServer'[d] \in Seq(Out')
  <2> DEFINE f   == Head(toServer[c])
             hit == {r.env : r \in ActiveFor(owner[c], f.id)}
             g   == Result(f.type, f.id, hit # {})
  <2>1. f \in FrameToServer
    BY <1>18, <1>0, HeadOfFrames DEF ServerSettle, InboxTypeOK
  <2>2. /\ g \in FrameToClient /\ f.type \in {"ack", "reject"}
        /\ g.type = f.type /\ g.id = f.id /\ g.ok = (hit # {})
    BY <2>1 DEF Result, FrameToServer, FrameToClient
  <2>3. /\ f.type = "ack" => acked' = acked \cup hit
        /\ toServer[c] # <<>>
        /\ toClient' = [toClient EXCEPT ![c] = Append(@, g)]
        /\ toServer' = [toServer EXCEPT ![c] = Tail(@)]
    BY <1>18 DEF ServerSettle
  <2>4. \A x \in hit : x.id = f.id
    BY DEF ActiveFor, RowsFor, RowsOf
  <2>5. g \in In'
    <3>1. g.type = "ack" /\ g.ok => \E x \in hit : x \in acked' /\ x.id = g.id
      BY <2>2, <2>3, <2>4
    <3> HIDE DEF g
    <3> QED  BY <2>2, <3>1 DEF SoundFrame, AckedId, In
  <2>6. /\ toClient'[d] = IF d = c THEN Append(toClient[c], g) ELSE toClient[d]
        /\ toServer'[d] = IF d = c THEN Tail(toServer[c]) ELSE toServer[d]
    BY <1>0, <2>3 DEF InboxTypeOK
  <2> HIDE DEF f, g, hit
  <2> QED  BY <1>1, <1>4, <1>6, <1>7, <2>3, <2>5, <2>6
<1>19. /\ \A c \in Conn : Start(c) => UNCHANGED deferred
       /\ \A c \in Conn : Read(c) => UNCHANGED toServer
       /\ \A c \in Conn : SendAck(c) \/ SendReject(c) => UNCHANGED <<toClient, deferred>>
       /\ \A c \in Conn : Defer(c) => UNCHANGED toServer
       /\ \A c \in Conn : TakeResult(c) => UNCHANGED <<toServer, deferred>>
       /\ \A c \in Conn : Return(c) => Leave(c) /\ UNCHANGED <<toClient, toServer>>
       /\ \A c \in Conn : Fail(c) => Leave(c) /\ UNCHANGED toClient
       /\ \A c \in Conn : ServerDeliver(c) => UNCHANGED <<toServer, deferred>>
       /\ \A c \in Conn : ServerSettle(c) => UNCHANGED deferred
       /\ \A c \in Conn : ServerClose(c) => UNCHANGED <<toClient, toServer, deferred>>
  BY DEF Start, Read, SendAck, SendReject, Defer, TakeResult, Return, Fail, ServerDeliver,
         ServerSettle, ServerClose, wireVars, clientVars
<1>20. Sender \/ ServerCrash \/ ClockTick \/ UNCHANGED allVars => UNCHANGED <<toClient, toServer, deferred>>
  BY DEF Sender, ServerCrash, ClockTick, allVars, wireVars, clientVars
<1>21. ASSUME NEW c \in Conn, Client(c)
       PROVE  toClient'[d] \in Seq(In') /\ deferred'[d] \in Seq(In') /\ toServer'[d] \in Seq(Out')
  BY <1>5, <1>9, <1>11, <1>12, <1>13, <1>14, <1>19, <1>21, Zenon DEF Client
<1> QED  BY <1>5, <1>8, <1>15, <1>16, <1>17, <1>18, <1>19, <1>20, <1>21, Zenon DEF InboxNext, Server

(* What a call works on was handed to it, and it acknowledges only what it *)
(* accepts.                                                                *)
LEMMA NextCallOK ==
    ASSUME Inv, [InboxNext]_allVars, NEW d \in Conn
    PROVE  CallOK(d)'
<1>0. InboxTypeOK /\ CallOK(d) /\ shown \subseteq shown'
  BY HistoryGrows DEF Inv
<1> USE <1>0 DEF CallOK, InboxTypeOK
<1>1. ASSUME NEW c \in Conn, Start(c) PROVE CallOK(d)'
  BY <1>1 DEF Start
<1>2. ASSUME NEW c \in Conn, Read(c) PROVE CallOK(d)'
  <2>1. PICK f \in NextFrames(c) :
           IF f.type = "message"
           THEN /\ cur' = [cur EXCEPT ![c] = f.envelope]
                /\ at' = [at EXCEPT ![c] = "fetching"]
           ELSE UNCHANGED <<cur, at>>
    BY <1>2 DEF Read
  <2>2. f \in SoundFrame
    <3>1. toClient[c] \in Seq(SoundFrame) /\ deferred[c] \in Seq(SoundFrame)
      BY DEF Inv, FramesOK
    <3> QED  BY <3>1, HeadOfFrames DEF NextFrames
  <2>3. f.type = "message" => f.envelope \in shown'
    BY <2>2 DEF SoundFrame
  <2> QED  BY <2>1, <2>3
<1>3. ASSUME NEW c \in Conn, SendAck(c) \/ SendReject(c) PROVE CallOK(d)'
  BY <1>3 DEF SendAck, SendReject, SendSettle, Accepts
<1>4. ASSUME NEW c \in Conn, TakeResult(c) \/ Return(c) \/ Fail(c) PROVE CallOK(d)'
  BY <1>4 DEF TakeResult, Return, Fail, Leave
<1>5. ASSUME UNCHANGED <<at, cur>> PROVE CallOK(d)'
  BY <1>5
<1>6. ASSUME NEW c \in Conn, Defer(c) \/ Server(c) \/ ServerClose(c)
      PROVE  UNCHANGED <<at, cur>>
  BY <1>6 DEF Defer, Server, ServerDeliver, ServerSettle, ServerClose, clientVars
<1>7. Sender \/ ServerCrash \/ ClockTick \/ UNCHANGED allVars => UNCHANGED <<at, cur>>
  BY DEF Sender, ServerCrash, ClockTick, allVars, clientVars
<1> QED  BY <1>1, <1>2, <1>3, <1>4, <1>5, <1>6, <1>7 DEF InboxNext, Client

LEMMA NextProcessed ==
    ASSUME Inv, [InboxNext]_allVars, NEW m \in processed'
    PROVE  AckedId(m)'
<1>1. acked \subseteq acked'
  BY HistoryGrows
<1>2. CASE m \in processed
  BY <1>1, <1>2 DEF Inv, AckedId
<1>3. ASSUME NEW c \in Conn, TakeResult(c), m \notin processed PROVE AckedId(m)'
  <2>1. /\ toClient[c] # <<>> /\ m = cur[c].id
        /\ Head(toClient[c]).type = "ack" /\ Head(toClient[c]).ok /\ Head(toClient[c]).id = m
    BY <1>3 DEF TakeResult
  <2>2. Head(toClient[c]) \in SoundFrame
    BY <2>1, HeadOfFrames DEF Inv, FramesOK
  <2> QED  BY <1>1, <2>1, <2>2 DEF SoundFrame, AckedId
<1>4. ASSUME NEW c \in Conn,
             \/ Start(c) \/ Read(c) \/ SendAck(c) \/ SendReject(c) \/ Defer(c) \/ Return(c)
             \/ Fail(c) \/ Server(c) \/ ServerClose(c)
      PROVE  UNCHANGED processed
  BY <1>4 DEF Start, Read, SendAck, SendReject, Defer, Return, Fail, Server, ServerDeliver,
              ServerSettle, ServerClose, clientVars
<1>5. Sender \/ ServerCrash \/ ClockTick \/ UNCHANGED allVars => UNCHANGED processed
  BY DEF Sender, ServerCrash, ClockTick, allVars, clientVars
<1> QED  BY <1>2, <1>3, <1>4, <1>5 DEF InboxNext, Client

-----------------------------------------------------------------------------
(* Each envelope goes one way.                                             *)

NoNewGrants(e) ==
    \A c \in Conn : /\ Has(toClient'[c], e) => Has(toClient[c], e)
                    /\ Once(toClient[c], e) => Once(toClient'[c], e)

LEMMA FramesGone ==
    ASSUME InboxTypeOK, NEW c \in Conn, NEW e,
           \/ UNCHANGED toClient
           \/ toClient' = [toClient EXCEPT ![c] = <<>>]
           \/ toClient[c] # <<>> /\ toClient' = [toClient EXCEPT ![c] = Tail(@)]
    PROVE  NoNewGrants(e)
<1> USE DEF InboxTypeOK, NoNewGrants
<1>1. CASE UNCHANGED toClient
  BY <1>1
<1>2. CASE toClient' = [toClient EXCEPT ![c] = <<>>]
  <2>1. \A d \in Conn : toClient'[d] = IF d = c THEN <<>> ELSE toClient[d]
    BY <1>2
  <2> QED  BY <2>1, EmptyGrants
<1>3. CASE toClient[c] # <<>> /\ toClient' = [toClient EXCEPT ![c] = Tail(@)]
  <2>1. \A d \in Conn : toClient'[d] = IF d = c THEN Tail(toClient[c]) ELSE toClient[d]
    BY <1>3
  <2>2. toClient[c] \in Seq(FrameToClient)
    OBVIOUS
  <2>3. /\ Has(Tail(toClient[c]), e) => Has(toClient[c], e)
        /\ Once(toClient[c], e) => Once(Tail(toClient[c]), e)
    BY <1>3, <2>2, TailGrants
  <2> QED  BY <2>1, <2>3
<1> QED  BY <1>1, <1>2, <1>3

LEMMA FrameComes ==
    ASSUME InboxTypeOK, NEW c \in Conn, NEW e, NEW f \in FrameToClient, ~ Grants(f, e),
           toClient' = [toClient EXCEPT ![c] = Append(@, f)]
    PROVE  NoNewGrants(e)
<1>1. \A d \in Conn : toClient'[d] = IF d = c THEN Append(toClient[c], f) ELSE toClient[d]
  BY DEF InboxTypeOK
<1>2. toClient[c] \in Seq(FrameToClient)
  BY DEF InboxTypeOK
<1>3. /\ Has(Append(toClient[c], f), e) => Has(toClient[c], e)
      /\ Once(toClient[c], e) => Once(Append(toClient[c], f), e)
  BY <1>2, AppendGrants
<1> QED  BY <1>1, <1>3 DEF NoNewGrants

(* A step that brings no new grant, and takes none up.                     *)
LEMMA NothingNew ==
    ASSUME NEW e \in Envelope, Sound(e), NoNewGrants(e),
           \A c \in Conn : e \in got'[c] => e \in got[c],
           surfaced'[e] = surfaced[e],
           e \in acked => e \in acked',
           e \in acked' => e \notin Poison /\ ~ OnQueue(e)'
    PROVE  Sound(e)'
<1>1. Single(e)'
  BY DEF Sound, Single, NoNewGrants
<1>2. (surfaced'[e] # 0 \/ \E c \in Conn : e \in got'[c]) => e \in acked'
  BY DEF Sound
<1> QED  BY <1>1, <1>2 DEF Sound

(* A granted message is one that was acknowledged.                         *)
LEMMA GrantedIsAcked ==
    ASSUME Inv, NEW c \in Conn, NEW e, Has(toClient[c], e)
    PROVE  AckedId(e.id)
<1>1. toClient[c] \in Seq(SoundFrame)
  BY DEF Inv, FramesOK
<1>2. PICK i \in 1..Len(toClient[c]) : Grants(toClient[c][i], e)
  BY DEF Has
<1>3. toClient[c][i] \in SoundFrame
  BY <1>1
<1> QED  BY <1>2, <1>3 DEF Grants, SoundFrame

LEMMA NextSound ==
    ASSUME Inv, [InboxNext]_allVars, NEW e \in Envelope
    PROVE  Sound(e)'
<1>0. InboxTypeOK /\ IInv /\ Sound(e)
  BY DEF Inv
<1>b. e \in acked => e \notin Poison /\ ~ OnQueue(e)'
  BY <1>0, OffTheQueue DEF Sound
<1>a. ASSUME NoNewGrants(e), \A c \in Conn : e \in got'[c] => e \in got[c],
             UNCHANGED <<surfaced, acked>>
      PROVE  Sound(e)'
  BY <1>0, <1>a, <1>b, NothingNew
(* Steps that only move frames, or drop them.                              *)
<1>1. ASSUME NEW c \in Conn,
             \/ Start(c) \/ Read(c) \/ SendAck(c) \/ SendReject(c) \/ Defer(c)
             \/ Fail(c) \/ ServerClose(c)
      PROVE  Sound(e)'
  <2>1. /\ \/ UNCHANGED toClient
           \/ toClient' = [toClient EXCEPT ![c] = <<>>]
           \/ toClient[c] # <<>> /\ toClient' = [toClient EXCEPT ![c] = Tail(@)]
        /\ UNCHANGED <<surfaced, acked>>
        /\ UNCHANGED got \/ got' = [got EXCEPT ![c] = {}]
    BY <1>1 DEF Start, Read, TakeFrame, SendAck, SendReject, SendSettle, Defer, Fail, Leave,
                ServerClose, wireVars, clientVars
  <2>2. \A d \in Conn : e \in got'[d] => e \in got[d]
    BY <1>0, <2>1 DEF InboxTypeOK
  <2>3. NoNewGrants(e)
    BY <1>0, <2>1, FramesGone
  <2> QED  BY <1>a, <2>1, <2>2, <2>3
<1>2. ASSUME UNCHANGED <<toClient, got, surfaced, acked>> PROVE Sound(e)'
  <2>1. NoNewGrants(e)
    BY <1>2 DEF NoNewGrants
  <2> QED  BY <1>2, <1>a, <2>1
<1>3. CASE Sender \/ ServerCrash \/ ClockTick \/ UNCHANGED allVars
  BY <1>2, <1>3 DEF Sender, ServerCrash, ClockTick, allVars, wireVars, clientVars
<1>4. ASSUME NEW c \in Conn, ServerDeliver(c) PROVE Sound(e)'
  <2>0. UNCHANGED <<got, surfaced, acked>>
    BY <1>4 DEF ServerDeliver, clientVars
  <2>1. CASE UNCHANGED toClient
    BY <1>2, <2>0, <2>1
  <2>2. ASSUME NEW m \in Handed, toClient' = [toClient EXCEPT ![c] = Append(@, Message(m))]
        PROVE  Sound(e)'
    <3>1. TypeOK'
      BY MailboxStep, NextTypeOK, <1>0 DEF InboxTypeOK
    <3>2. Message(m) \in FrameToClient /\ ~ Grants(Message(m), e)
      BY <3>1 DEF Handed, TypeOK, Row, Message, FrameToClient, Grants
    <3> QED  BY <1>0, <1>a, <2>0, <2>2, <3>2, FrameComes
  <2> QED  BY <1>4, <2>1, <2>2 DEF ServerDeliver
(* An ack or a reject is settled: the only step that grants a message.     *)
<1>5. ASSUME NEW c \in Conn, ServerSettle(c) PROVE Sound(e)'
  <2> DEFINE f   == Head(toServer[c])
             hit == {r.env : r \in ActiveFor(owner[c], f.id)}
             g   == Result(f.type, f.id, hit # {})
  <2>1. f \in FrameToServer /\ f \in SoundAsk
    <3>1. toServer[c] # <<>> /\ toServer[c] \in Seq(FrameToServer) /\ toServer[c] \in Seq(SoundAsk)
      BY <1>5, <1>0 DEF ServerSettle, InboxTypeOK, Inv, FramesOK
    <3> QED  BY <3>1, HeadOfFrames
  <2>2. /\ g \in FrameToClient /\ f.type \in {"ack", "reject"}
        /\ g.type = f.type /\ g.id = f.id /\ g.ok = (hit # {})
    BY <2>1 DEF Result, FrameToServer, FrameToClient
  <2>3. /\ toClient' = [toClient EXCEPT ![c] = Append(@, g)]
        /\ UNCHANGED <<got, surfaced>>
    BY <1>5 DEF ServerSettle, clientVars
  <2>4. \/ f.type = "ack" /\ Ack(c, f.id) /\ acked' = acked \cup hit
        \/ f.type = "reject" /\ Reject(c, f.id) /\ UNCHANGED acked
    BY <1>5 DEF ServerSettle
  <2>5. \A x \in hit : x \in Admitted /\ x \in Envelope /\ x.id = f.id /\ OnQueue(x)
    BY <1>0 DEF ActiveFor, RowsFor, RowsOf, Admitted, IInv, TypeOK, Row, OnQueue
  <2>6. f.type = "ack" => \A x \in hit : x \notin Poison
    <3>1. ASSUME f.type = "ack", NEW x \in hit PROVE x \notin Poison
      <4>1. PICK y \in shown : y.id = f.id /\ y \notin Poison
        BY <2>1, <3>1 DEF SoundAsk
      <4> QED  BY <2>5, <4>1, OneMail, HandedOutIsAdmitted
    <3> QED  BY <3>1
  <2>7. e \in acked' => e \notin Poison /\ ~ OnQueue(e)'
    <3>1. Ack(c, f.id) /\ e \in hit => ~ OnQueue(e)'
      BY <1>0, AckTakesOff
    <3> QED  BY <1>b, <2>4, <2>6, <3>1
  <2> HIDE DEF f, hit, g
  <2>8. CASE ~ Grants(g, e)
    <3>1. NoNewGrants(e)
      BY <1>0, <2>2, <2>3, <2>8, FrameComes
    <3> QED  BY <1>0, <2>3, <2>4, <2>7, <3>1, NothingNew
  <2>9. CASE Grants(g, e)
    <3>1. f.id = e.id /\ hit # {}
      BY <2>2, <2>9 DEF Grants
    (* Only one message has this message_id.  It was on the queue, so      *)
    (* nothing of this message_id had been granted.                        *)
    <3>2. ~ AckedId(e.id)
      <4>1. PICK x \in hit : TRUE
        BY <3>1
      <4>2. x \notin acked
        BY <2>5, <4>1 DEF Inv, Sound
      <4>3. ASSUME NEW h \in acked, h.id = e.id PROVE FALSE
        <5>1. h = x
          BY <2>5, <3>1, <4>1, <4>3, OneMail, HandedOutIsAdmitted
        <5> QED  BY <4>2, <4>3, <5>1
      <4> QED  BY <4>3 DEF AckedId
    <3>3. e \notin acked
      BY <3>2 DEF AckedId
    <3>4. \A d \in Conn : e \notin got[d] /\ ~ Has(toClient[d], e)
      BY <1>0, <3>2, <3>3, GrantedIsAcked DEF Sound
    <3>5. surfaced[e] = 0
      BY <1>0, <3>3 DEF Sound
    <3>6. \A d \in Conn : toClient'[d] = IF d = c THEN Append(toClient[c], g) ELSE toClient[d]
      BY <1>0, <2>3 DEF InboxTypeOK
    <3>7. toClient[c] \in Seq(FrameToClient)
      BY <1>0 DEF InboxTypeOK
    <3>8. \A d \in Conn : (Has(toClient'[d], e) => d = c) /\ Once(toClient'[d], e)
      BY <1>0, <2>2, <3>4, <3>6, <3>7, AppendGrants DEF Sound, Single
    <3>9. Single(e)'
      BY <2>3, <3>4, <3>5, <3>8 DEF Single
    <3> QED  BY <2>3, <2>7, <3>4, <3>5, <3>9 DEF Sound
  <2> QED  BY <2>8, <2>9
(* The result is taken: a grant becomes a message held by the call.        *)
<1>6. ASSUME NEW c \in Conn, TakeResult(c) PROVE Sound(e)'
  <2> DEFINE f == Head(toClient[c])
  <2>0. UNCHANGED <<surfaced, acked>>
    BY <1>6 DEF TakeResult
  <2>1. toClient[c] # <<>> /\ toClient' = [toClient EXCEPT ![c] = Tail(@)]
    BY <1>6 DEF TakeResult
  <2>2. NoNewGrants(e)
    BY <1>0, <2>1, FramesGone
  <2>3. CASE UNCHANGED got
    BY <1>a, <2>0, <2>2, <2>3
  <2>4. CASE /\ f.type = "ack" /\ f.ok /\ f.id = cur[c].id /\ at[c] = "ack"
             /\ got' = [got EXCEPT ![c] = @ \cup {cur[c]}]
    <3>1. cur[c] \in shown
      BY <2>4 DEF Inv, CallOK
    <3>2. CASE cur[c] # e
      <4>1. \A d \in Conn : e \in got'[d] => e \in got[d]
        BY <1>0, <2>4, <3>2 DEF InboxTypeOK
      <4> QED  BY <1>a, <2>0, <2>2, <4>1
    <3>3. CASE cur[c] = e
      <4>1. Grants(f, e)
        BY <2>4, <3>3 DEF Grants
      <4>2. toClient[c] \in Seq(FrameToClient)
        BY <1>0 DEF InboxTypeOK
      <4>3. /\ Has(toClient[c], e)
            /\ Once(toClient[c], e) => ~ Has(Tail(toClient[c]), e)
        BY <2>1, <4>1, <4>2, TailGrants
      <4>4. e \in acked
        <5>1. PICK h \in acked : h.id = e.id
          BY <4>3, GrantedIsAcked DEF AckedId
        <5> QED  BY <3>1, <3>3, <5>1, OneMail, HandedOutIsAdmitted
      <4>5. /\ surfaced[e] = 0
            /\ \A d \in Conn : e \notin got[d] /\ (d # c => ~ Has(toClient[d], e))
            /\ Once(toClient[c], e)
        BY <1>0, <4>3 DEF Sound, Single
      <4>6. \A d \in Conn : toClient'[d] = IF d = c THEN Tail(toClient[c]) ELSE toClient[d]
        BY <1>0, <2>1 DEF InboxTypeOK
      <4>7. \A d \in Conn : ~ Has(toClient'[d], e)
        BY <4>3, <4>5, <4>6
      <4>8. \A d \in Conn : e \in got'[d] => d = c
        BY <1>0, <2>4, <4>5 DEF InboxTypeOK
      <4>9. \A d \in Conn : Once(toClient'[d], e)
        BY <1>0, <2>2 DEF NoNewGrants, Sound, Single
      <4>10. Single(e)'
        BY <2>0, <4>5, <4>7, <4>8, <4>9 DEF Single
      <4> QED  BY <1>b, <2>0, <4>4, <4>10 DEF Sound
    <3> QED  BY <3>2, <3>3
  <2>5. f.type = at[c] /\ f.id = cur[c].id
    BY <1>6 DEF TakeResult
  <2>6. CASE f.type = "ack" /\ f.ok
    BY <1>6, <2>4, <2>5, <2>6 DEF TakeResult
  <2>7. CASE ~ (f.type = "ack" /\ f.ok)
    BY <1>6, <2>3, <2>7 DEF TakeResult
  <2> QED  BY <2>6, <2>7
(* The call returns what it holds.                                         *)
<1>7. ASSUME NEW c \in Conn, Return(c) PROVE Sound(e)'
  <2>1. /\ UNCHANGED <<toClient, acked>>
        /\ got' = [got EXCEPT ![c] = {}]
        /\ surfaced'[e] = surfaced[e] + IF e \in got[c] THEN 1 ELSE 0
    BY <1>7 DEF Return, Leave, wireVars
  <2>2. \A d \in Conn : e \in got'[d] => d # c /\ e \in got[d]
    BY <1>0, <2>1 DEF InboxTypeOK
  <2>3. NoNewGrants(e)
    BY <2>1 DEF NoNewGrants
  <2>4. CASE e \notin got[c]
    <3>1. surfaced'[e] = surfaced[e]
      BY <1>0, <2>1, <2>4 DEF Sound, Single
    <3> QED  BY <1>0, <1>b, <2>1, <2>2, <2>3, <3>1, NothingNew
  <2>5. CASE e \in got[c]
    <3>1. /\ surfaced[e] = 0 /\ e \in acked
          /\ \A d \in Conn : ~ Has(toClient[d], e) /\ (e \in got[d] => d = c)
      BY <1>0, <2>5 DEF Sound, Single
    <3>2. surfaced'[e] = 1
      BY <2>1, <2>5, <3>1
    <3>3. Single(e)'
      BY <1>0, <2>1, <2>2, <3>1, <3>2 DEF Sound, Single
    <3> QED  BY <1>b, <2>1, <3>1, <3>3 DEF Sound
  <2> QED  BY <2>4, <2>5
<1> QED  BY <1>1, <1>3, <1>4, <1>5, <1>6, <1>7 DEF InboxNext, Client, Server

LEMMA NextInv == Inv /\ [InboxNext]_allVars => Inv'
<1> SUFFICES ASSUME Inv, [InboxNext]_allVars PROVE Inv'
  OBVIOUS
<1>1. InboxTypeOK'
  BY NextTypes
<1>2. IInv'
  BY MailboxStep, NextIInv DEF Inv
<1>3. \A e \in Envelope : Sound(e)'
  BY NextSound
<1>4. \A c \in Conn : FramesOK(c)' /\ CallOK(c)'
  BY NextFramesOK, NextCallOK
<1>5. \A m \in processed' : AckedId(m)'
  BY NextProcessed
<1> QED  BY <1>1, <1>2, <1>3, <1>4, <1>5 DEF Inv

LEMMA InvHolds == InboxSpec => []Inv
  BY InitInv, NextInv, PTL DEF InboxSpec

-----------------------------------------------------------------------------
(* The theorems.                                                           *)

(* How many copies there are, by counting.                                 *)
LEMMA CopiesCounted ==
    ASSUME InboxTypeOK, NEW e \in Envelope, Single(e)
    PROVE  /\ Copies(e) \in {0, 1}
           /\ Copies(e) > 0 => surfaced[e] # 0 \/ \E c \in Conn : e \in got[c]
<1> DEFINE Holders == {c \in Conn : e \in got[c]}
<1>1. surfaced[e] \in {0, 1}
  BY DEF Single
<1>2. CASE Holders = {}
  BY <1>1, <1>2, FS_EmptySet DEF Copies
<1>3. ASSUME NEW c \in Conn, e \in got[c]
      PROVE  Copies(e) = 1
  <2>1. Holders = {c} /\ surfaced[e] = 0
    BY <1>3 DEF Single
  <2>2. Cardinality(Holders) = 1
    BY <2>1, FS_Singleton
  <2> QED  BY <2>1, <2>2 DEF Copies
<1> QED  BY <1>2, <1>3

LEMMA CopiesAreAcked ==
    ASSUME Inv, NEW e \in Envelope
    PROVE  Copies(e) \in {0, 1} /\ (Copies(e) > 0 => e \in acked)
  BY CopiesCounted DEF Inv, Sound

(* Every variable keeps its type.                                          *)
THEOREM InboxTypeCorrect == InboxSpec => []InboxTypeOK
<1>1. Inv => InboxTypeOK
  BY DEF Inv
<1> QED  BY <1>1, InvHolds, PTL

(* The composition with the client only does to the mailbox what Mailbox   *)
(* allows, so what is proved of its steps, LeaseHoldsAlmost with them,      *)
(* holds here as well.                                                     *)
THEOREM InboxStepsAreMailbox == InboxSpec => [][Next]_vars
<1>1. Inv => InboxTypeOK
  BY DEF Inv
<1> QED  BY <1>1, InvHolds, MailboxStep, PTL DEF InboxSpec

(* A message reaches the user at most once, and no other under its         *)
(* message_id, however calls, connections and leases overlap, whatever     *)
(* senders repeat and whatever is lost with a connection or a crash.       *)
THEOREM MessageSurfacedOnce == InboxSpec => []SurfacedOnce
<1>1. Inv => SurfacedOnce
  <2> SUFFICES ASSUME Inv, NEW e \in Envelope, NEW f \in Envelope, e.id = f.id, Copies(e) > 0
               PROVE  Copies(e) = 1 /\ (e # f => Copies(f) = 0)
    BY DEF SurfacedOnce
  <2>1. Copies(f) > 0 => e = f
    BY CopiesAreAcked, OneMail, HandedOutIsAdmitted
  <2> QED  BY <2>1, CopiesAreAcked
<1> QED  BY <1>1, InvHolds, PTL

(* What reaches the user was acknowledged.                                 *)
THEOREM WhatSurfacedIsAcked == InboxSpec => []SurfacedIsAcked
<1>1. Inv => SurfacedIsAcked
  BY CopiesAreAcked DEF SurfacedIsAcked
<1> QED  BY <1>1, InvHolds, PTL

(* What processed_messages.json lists was acknowledged and is off the      *)
(* queue.                                                                  *)
THEOREM WhatIsProcessedIsAcked == InboxSpec => []ProcessedIsAcked
<1>1. Inv => ProcessedIsAcked
  <2> SUFFICES ASSUME Inv, NEW m \in processed
               PROVE  (\E e \in acked : e.id = m) /\ \A r \in queue : r.env.id # m
    BY DEF ProcessedIsAcked
  <2>1. PICK e \in acked : e.id = m
    BY DEF Inv, AckedId
  <2>2. e \in Envelope /\ ~ OnQueue(e)
    BY DEF Inv, Sound, InboxTypeOK, TypeOK
  <2>3. ASSUME NEW r \in queue, r.env.id = m PROVE FALSE
    <3>1. r.env \in Admitted
      BY <2>3 DEF Admitted
    <3>2. r.env = e
      BY <2>1, <2>3, <3>1, OneMail, HandedOutIsAdmitted
    <3> QED  BY <2>2, <2>3, <3>2 DEF OnQueue
  <2> QED  BY <2>1, <2>3
<1> QED  BY <1>1, InvHolds, PTL

(* Sealing's theorems are about the operators of Seal.                     *)
SealingLaws == INSTANCE SealingProofs WITH Id <- MessageId, Body <- Text

LEMMA SameParts ==
    /\ SealingLaws!SealedEnvelope = Seal!SealedEnvelope
    /\ SealingLaws!Object = Seal!Object
  BY DEF Seal!SealedEnvelope, Seal!Object, Seal!Outer, Seal!Claim, Seal!ClaimPayload,
         Seal!Content, Seal!Payload, Seal!Role, Seal!Type,
         SealingLaws!SealedEnvelope, SealingLaws!Object, SealingLaws!Outer, SealingLaws!Claim,
         SealingLaws!ClaimPayload, SealingLaws!Content, SealingLaws!Payload,
         SealingLaws!Role, SealingLaws!Type

LEMMA SameChecks ==
    ASSUME NEW key, NEW e, NEW o
    PROVE  Seal!Accepts(key, e, o) <=> SealingLaws!Accepts(key, e, o)
  BY DEF Seal!Accepts, Seal!Fetched, Seal!FromOneSender, Seal!Belongs, Seal!RoleIsShown,
         Seal!OuterOf,
         SealingLaws!Accepts, SealingLaws!Fetched, SealingLaws!FromOneSender,
         SealingLaws!Belongs, SealingLaws!RoleIsShown, SealingLaws!OuterOf

LEMMA SameSenders ==
    ASSUME NEW key, NEW e, NEW o
    PROVE  /\ Seal!Authentic(e) <=> SealingLaws!Authentic(e)
           /\ Seal!Genuine(key, e, o) <=> SealingLaws!Genuine(key, e, o)
<1>1. Seal!Spec = SealingLaws!Spec /\ Seal!Content = SealingLaws!Content
  BY DEF Seal!Spec, Seal!Role, Seal!Type, Seal!Content, Seal!Payload,
         SealingLaws!Spec, SealingLaws!Role, SealingLaws!Type, SealingLaws!Content,
         SealingLaws!Payload
<1>2. \A c, r, s : /\ Seal!ClaimFor(c, r, s) = SealingLaws!ClaimFor(c, r, s)
                   /\ Seal!EnvelopeFor(c, r, s) = SealingLaws!EnvelopeFor(c, r, s)
  BY DEF Seal!ClaimFor, Seal!EnvelopeFor, Seal!OuterOf,
         SealingLaws!ClaimFor, SealingLaws!EnvelopeFor, SealingLaws!OuterOf
<1>3. Seal!Authentic(e) <=> SealingLaws!Authentic(e)
  BY <1>1, <1>2 DEF Seal!Authentic, SealingLaws!Authentic
<1>4. Seal!Genuine(key, e, o) <=> SealingLaws!Genuine(key, e, o)
  BY <1>1, <1>2 DEF Seal!Genuine, SealingLaws!Genuine
<1> QED  BY <1>3, <1>4

(* What reaches the user is genuine: the parts of its envelope are one     *)
(* client's, and were made for this user.                                  *)
THEOREM WhatSurfacedIsGenuine == InboxSpec => []SurfacedIsGenuine
<1>1. Inv => SurfacedIsGenuine
  <2> SUFFICES ASSUME Inv, NEW e \in Envelope, Copies(e) > 0
               PROVE  Seal!Genuine(Me, Parts[e].envelope, Parts[e].object)
    BY DEF SurfacedIsGenuine
  <2>1. e \notin Poison
    BY CopiesAreAcked DEF Inv, Sound
  <2>2. SealingLaws!Accepts(Me, Parts[e].envelope, Parts[e].object)
    BY <2>1, SameChecks DEF Poison
  <2>3. /\ Me \in Key
        /\ Parts[e].envelope \in SealingLaws!SealedEnvelope
        /\ Parts[e].object \in SealingLaws!Object
        /\ SealingLaws!Authentic(Parts[e].envelope)
    BY PartsAssumption, SameParts, SameSenders
  <2>4. SealingLaws!Genuine(Me, Parts[e].envelope, Parts[e].object)
    BY <2>2, <2>3, SealingLaws!AcceptedIsGenuine
  <2> QED  BY <2>4, SameSenders
<1> QED  BY <1>1, InvHolds, PTL

-----------------------------------------------------------------------------
(* The refinement: server and client together are the channel that         *)
(* Delivery describes.                                                     *)

(* What the mailbox side of the mapping does in a step of the client, ...  *)
LEMMA MailStays ==
    ASSUME UNCHANGED <<queue, told>>
    PROVE  UNCHANGED <<Promised, Waiting>>
  BY DEF Promised, Waiting, Active

(* ... and of a delivery, which changes neither a row's envelope nor       *)
(* whether it is active.                                                   *)
LEMMA DeliveryKeepsWaiting ==
    ASSUME TypeOK, DeliveryStep
    PROVE  UNCHANGED <<Promised, Waiting>>
<1>1. PICK f \in [queue -> Row] :
          /\ queue' = {f[r] : r \in queue}
          /\ \A r \in queue : RowStep(r, f[r])
  BY DEF DeliveryStep
<1>2. now \in Nat /\ queue \subseteq Row
  BY ConfigAssumption DEF TypeOK
<1>3. \A r \in queue : f[r].env = r.env /\ (Active(f[r]) <=> Active(r))
  BY <1>1, <1>2, RowStepKeeps
<1>4. Waiting' = {r.env : r \in {q \in queue' : Active(q)}}
  BY DEF Waiting, Active
<1>5. Waiting' = Waiting
  BY <1>1, <1>3, <1>4 DEF Waiting
<1>6. UNCHANGED Promised
  BY DEF DeliveryStep, Promised
<1> QED  BY <1>5, <1>6

(* Where nothing is granted and nothing returned, grants can only be lost. *)
LEMMA LosingIsAllowed ==
    ASSUME Granted' \subseteq Granted, UNCHANGED <<Promised, Waiting, surfaced>>
    PROVE  Channel!Next
<1> DEFINE some == Granted \ Granted'
<1>1. some \in SUBSET Granted /\ Granted' = Granted \ some
  OBVIOUS
<1>2. Channel!Lose(some)
  BY <1>1 DEF Channel!Lose
<1> QED  BY <1>1, <1>2 DEF Channel!Next

LEMMA FewerGrants ==
    ASSUME UNCHANGED acked, \A e \in acked, c \in Conn : Holds(c, e)' => Holds(c, e)
    PROVE  Granted' \subseteq Granted
  BY DEF Granted

LEMMA NoNewIsFewer ==
    ASSUME UNCHANGED acked, acked \subseteq Envelope,
           \A e \in Envelope : NoNewGrants(e),
           \A c \in Conn : got'[c] \subseteq got[c]
    PROVE  Granted' \subseteq Granted
<1>1. \A e \in acked, c \in Conn : Holds(c, e)' => Holds(c, e)
  BY DEF NoNewGrants, Holds
<1> QED  BY <1>1, FewerGrants

LEMMA InitRefines == InboxInit => Channel!Init
  BY DEF InboxInit, Init, Channel!Init, Promised, Waiting, Granted

(* The answer "queued" posts a message of a new message_id.                *)
LEMMA EnqueuePosts ==
    ASSUME Inv, Enqueue, UNCHANGED <<toClient, got, surfaced, acked>>
    PROVE  \E e \in Envelope : Channel!Post(e)
<1> DEFINE e == accepting
<1>0. TypeOK /\ e \in Envelope
  BY DEF Enqueue, Inv, InboxTypeOK, TypeOK
<1>1. \A f \in Settled : f \in Envelope => f.id # e.id
  BY <1>0, InboxAssumption DEF Enqueue, Inv, IInv, AcceptingIsFresh, SameId
<1>2. RowsFor(e.to, e.id) = {}
  BY <1>0, <1>1 DEF RowsFor, RowsOf, Settled, TypeOK, Row
<1>3. queue' = queue \cup {NewRow(e)} /\ told' = told \cup {<<e, "queued">>}
  BY <1>2 DEF Enqueue, Answer
<1>4. \A f \in Promised : f.id # e.id
  BY <1>1 DEF Promised, Inv, IInv, QueuedIsKept, OnQueue, Settled
<1>5. Promised' = Promised \cup {e}
  BY <1>0, <1>3 DEF Promised
<1>6. Waiting' = Waiting \cup {e}
  <2>1. NewRow(e).env = e /\ Active(NewRow(e))
    BY DEF NewRow, Active
  <2>2. Waiting' = {r.env : r \in {q \in queue' : Active(q)}}
    BY DEF Waiting, Active
  <2> HIDE DEF e
  <2> QED  BY <1>3, <2>1, <2>2 DEF Waiting
<1>7. UNCHANGED <<Granted, surfaced>>
  BY DEF Granted, Holds, Has
<1> QED  BY <1>0, <1>4, <1>5, <1>6, <1>7 DEF Channel!Post

LEMMA SenderRefines ==
    ASSUME Inv, Sender
    PROVE  Channel!Next \/ UNCHANGED <<Promised, Waiting, Granted, surfaced>>
<1>1. UNCHANGED <<toClient, got, surfaced, acked>>
  BY DEF Sender, wireVars, clientVars
<1>2. UNCHANGED <<Granted, surfaced>>
  BY <1>1 DEF Granted, Holds, Has
<1>3. ASSUME NEW e \in Envelope, Submit(e) PROVE UNCHANGED <<Promised, Waiting>>
  <2>1. UNCHANGED queue
    BY <1>3 DEF Submit, RefuseUnready, RefuseDuplicate, AnswerAlreadyQueued, Remember, dbVars
  <2>2. \/ told' = told
        \/ told' = told \cup {<<e, "refused">>}
        \/ told' = told \cup {<<e, "already_queued">>}
    BY <1>3 DEF Submit, RefuseUnready, RefuseDuplicate, AnswerAlreadyQueued, Remember, Answer
  <2>3. UNCHANGED Promised
    BY <2>2 DEF Promised
  <2>4. UNCHANGED Waiting
    BY <2>1 DEF Waiting, Active
  <2> QED  BY <2>3, <2>4
<1>4. CASE Enqueue
  BY <1>1, <1>4, EnqueuePosts DEF Channel!Next
<1> QED  BY <1>2, <1>3, <1>4 DEF Sender

(* One row at most is settled, and its message leaves the mailbox.         *)
LEMMA SettlingOne ==
    ASSUME Inv, NEW c \in Conn, NEW m, NEW x, x \in {r.env : r \in ActiveFor(owner[c], m)},
           Ack(c, m) \/ Reject(c, m)
    PROVE  /\ {r.env : r \in ActiveFor(owner[c], m)} = {x}
           /\ x \in Envelope /\ x.id = m /\ x \in Admitted /\ x \in Waiting /\ x \notin acked
           /\ Waiting' = Waiting \ {x}
<1> DEFINE hit == ActiveFor(owner[c], m)
<1>0. TypeOK /\ IInv
  BY DEF Inv, InboxTypeOK
<1>1. \A r \in hit : r \in queue /\ Active(r) /\ r.env.id = m /\ r.env \in Envelope
  BY <1>0 DEF ActiveFor, RowsFor, RowsOf, TypeOK, Row
<1>2. PICK r \in hit : x = r.env
  OBVIOUS
<1>3. \A s \in queue : s.env = x => s = r
  BY <1>0, <1>1, <1>2 DEF IInv, RowsUnique, SameId
<1>4. \A s \in hit : s = r
  BY <1>0, <1>1, <1>2, InboxAssumption DEF IInv, RowsUnique, SameId
<1>5. hit = {r}
  BY <1>4
<1>6. Waiting' = {q.env : q \in {p \in queue' : Active(p)}}
  BY DEF Waiting, Active
<1>7. \A p : p \in queue' /\ Active(p) <=> p \in queue /\ Active(p) /\ p # r
  <2>1. CASE Ack(c, m)
    BY <1>5, <2>1 DEF Ack
  <2>2. CASE Reject(c, m)
    <3>1. ~ Active(Quarantined(r))
      BY <1>0, <1>1 DEF Quarantined, Active, TypeOK, Row
    <3>2. \/ queue' = queue \ {r}
          \/ queue' = (queue \ {r}) \cup {Quarantined(r)}
      BY <1>5, <2>2 DEF Reject
    <3> QED  BY <3>1, <3>2
  <2> QED  BY <2>1, <2>2
<1>8. Waiting' = Waiting \ {x}
  BY <1>2, <1>3, <1>6, <1>7 DEF Waiting
<1>9. x \in Waiting /\ x \in Admitted
  BY <1>1, <1>2 DEF Waiting, Admitted
<1>10. x \notin acked
  BY <1>1, <1>2 DEF Inv, Sound, OnQueue
<1> HIDE DEF hit
<1>11. {s.env : s \in hit} = {x}
  BY <1>2, <1>5
<1> QED  BY <1>1, <1>2, <1>8, <1>9, <1>10, <1>11 DEF hit

(* No row is settled: nothing leaves.                                      *)
LEMMA SettlingNone ==
    ASSUME NEW c \in Conn, NEW m, {r.env : r \in ActiveFor(owner[c], m)} = {},
           Ack(c, m) \/ Reject(c, m)
    PROVE  UNCHANGED queue
<1>1. ActiveFor(owner[c], m) = {}
  OBVIOUS
<1> QED  BY <1>1 DEF Ack, Reject

(* An accepted ack is a Grant, an accepted reject a Drop.                  *)
LEMMA SettleRefines ==
    ASSUME Inv, NEW c \in Conn, ServerSettle(c)
    PROVE  Channel!Next
<1> DEFINE f   == Head(toServer[c])
           hit == {r.env : r \in ActiveFor(owner[c], f.id)}
           g   == Result(f.type, f.id, hit # {})
<1>0. InboxTypeOK /\ IInv
  BY DEF Inv
<1>1. f \in FrameToServer /\ f \in SoundAsk
  <2>1. toServer[c] # <<>> /\ toServer[c] \in Seq(FrameToServer) /\ toServer[c] \in Seq(SoundAsk)
    BY <1>0 DEF ServerSettle, InboxTypeOK, Inv, FramesOK
  <2> QED  BY <2>1, HeadOfFrames
<1>2. /\ g \in FrameToClient /\ f.type \in {"ack", "reject"}
      /\ g.type = f.type /\ g.id = f.id /\ g.ok = (hit # {})
  BY <1>1 DEF Result, FrameToServer, FrameToClient
<1>3. /\ toClient' = [toClient EXCEPT ![c] = Append(@, g)]
      /\ UNCHANGED <<got, surfaced>>
  BY DEF ServerSettle, clientVars
<1>4. \/ f.type = "ack" /\ Ack(c, f.id) /\ acked' = acked \cup hit
      \/ f.type = "reject" /\ Reject(c, f.id) /\ UNCHANGED acked
  BY DEF ServerSettle
<1>5. UNCHANGED <<Promised, surfaced>>
  BY <1>3, <1>4 DEF Ack, Reject, Promised
<1>6. PICK y \in shown : /\ y.id = f.id
                         /\ f.type = "ack" => y \notin Poison
                         /\ f.type = "reject" => Refusable(y) \/ y \in acked
  BY <1>1 DEF SoundAsk
<1>7. acked \subseteq Envelope /\ acked' \subseteq acked \cup hit
  BY <1>0, <1>4 DEF InboxTypeOK, TypeOK
<1>f. \A x \in hit : /\ hit = {x} /\ x \in Envelope /\ x.id = f.id /\ x \in Admitted
                     /\ x \in Waiting /\ x \notin acked /\ Waiting' = Waiting \ {x}
                     /\ x = y
  <2>1. ASSUME NEW x \in hit
        PROVE  /\ hit = {x} /\ x \in Envelope /\ x.id = f.id /\ x \in Admitted
               /\ x \in Waiting /\ x \notin acked /\ Waiting' = Waiting \ {x}
    BY <1>4, SettlingOne
  <2> QED  BY <2>1, <1>6, OneMail, HandedOutIsAdmitted
<1>g. hit = {} => UNCHANGED queue
  BY <1>4, SettlingNone
<1> HIDE DEF f, hit, g
(* The result grants what it is about, if a row was found.                 *)
<1>8. \A e : \A d \in Conn :
         Holds(d, e)' <=> Holds(d, e) \/ (d = c /\ Grants(g, e))
  <2>1. \A d \in Conn : toClient'[d] = IF d = c THEN Append(toClient[c], g) ELSE toClient[d]
    BY <1>0, <1>3 DEF InboxTypeOK
  <2>2. \A e : Has(Append(toClient[c], g), e) <=> Has(toClient[c], e) \/ Grants(g, e)
    <3>1. toClient[c] \in Seq(FrameToClient)
      BY <1>0 DEF InboxTypeOK
    <3> QED  BY <1>2, <3>1, AppendGrants
  <2> QED  BY <1>3, <2>1, <2>2 DEF Holds
<1>9. ASSUME hit = {} PROVE Channel!Next
  <2>1. UNCHANGED acked
    BY <1>4, <1>9
  <2>2. \A e \in acked, d \in Conn : Holds(d, e)' => Holds(d, e)
    BY <1>2, <1>8, <1>9 DEF Grants
  <2>3. UNCHANGED Waiting
    BY <1>9, <1>g DEF Waiting, Active
  <2> QED  BY <1>5, <2>1, <2>2, <2>3, FewerGrants, LosingIsAllowed
<1>10. ASSUME NEW x \in hit, f.type = "ack" PROVE Channel!Next
  <2>1. acked' = acked \cup {x}
    BY <1>4, <1>f, <1>10
  <2>2. \A e \in acked' : Grants(g, e) <=> e = x
    <3>1. \A e \in acked' : e \in Admitted
      BY <1>f, <1>10, <2>1, HandedOutIsAdmitted
    <3>2. \A e \in acked' : e.id = x.id => e = x
      BY <1>f, <1>10, <3>1, OneMail
    <3> QED  BY <1>2, <1>f, <1>10, <3>2 DEF Grants
  <2>3. Granted' = Granted \cup {x}
    <3>1. Granted' = {e \in acked' : \E d \in Conn : Holds(d, e)'}
      BY DEF Granted, Holds, Has, Grants
    <3>2. \A e \in acked' : (\E d \in Conn : Holds(d, e)') <=> (\E d \in Conn : Holds(d, e)) \/ e = x
      BY <1>8, <2>2
    <3> QED  BY <2>1, <3>1, <3>2 DEF Granted
  <2>4. x \in Waiting \ Poison
    BY <1>6, <1>f, <1>10
  <2>5. Channel!Grant(x)
    BY <1>5, <1>f, <1>10, <2>3, <2>4 DEF Channel!Grant
  <2> QED  BY <1>f, <1>10, <2>5 DEF Channel!Next
<1>11. ASSUME NEW x \in hit, f.type = "reject" PROVE Channel!Next
  <2>1. UNCHANGED acked
    BY <1>4, <1>11
  <2>2. \A e \in acked, d \in Conn : Holds(d, e)' <=> Holds(d, e)
    BY <1>2, <1>8, <1>11 DEF Grants
  <2>3. UNCHANGED Granted
    <3>1. Granted' = {e \in acked' : \E d \in Conn : Holds(d, e)'}
      BY DEF Granted, Holds, Has, Grants
    <3> QED  BY <2>1, <2>2, <3>1 DEF Granted
  <2>4. x \in Waiting \cap {e \in Envelope : Refusable(e)}
    BY <1>6, <1>f, <1>11
  <2>5. Channel!Drop(x)
    BY <1>5, <1>f, <1>11, <2>3, <2>4 DEF Channel!Drop
  <2> QED  BY <1>f, <1>11, <2>5 DEF Channel!Next
<1> QED  BY <1>2, <1>9, <1>10, <1>11

(* A returning call gives what it holds, and no other call holds that.     *)
LEMMA ReturnRefines ==
    ASSUME Inv, NEW c \in Conn, Return(c)
    PROVE  Channel!Next
<1>0. InboxTypeOK /\ acked \subseteq Envelope
  BY DEF Inv, InboxTypeOK, TypeOK
<1>1. /\ UNCHANGED <<queue, told, toClient, acked>>
      /\ got' = [got EXCEPT ![c] = {}]
      /\ surfaced' = [e \in Envelope |-> surfaced[e] + IF e \in got[c] THEN 1 ELSE 0]
  BY DEF Return, Leave, vars, dbVars, wireVars
<1>2. got[c] \subseteq Granted
  BY <1>0 DEF Inv, Sound, Granted, Holds, InboxTypeOK
<1>3. ASSUME NEW e \in Envelope, NEW d \in Conn
      PROVE  Holds(d, e)' <=> Holds(d, e) /\ e \notin got[c]
  <2>1. Holds(d, e)' <=> e \in got'[d] \/ Has(toClient'[d], e)
    BY DEF Holds, Has, Grants
  <2>2. e \in got'[d] <=> e \in got[d] /\ d # c
    BY <1>0, <1>1 DEF InboxTypeOK
  <2>3. e \in got[c] => ~ Has(toClient[d], e) /\ (e \in got[d] => d = c)
    BY DEF Inv, Sound, Single
  <2> QED  BY <1>1, <2>1, <2>2, <2>3 DEF Holds
<1>4. Granted' = Granted \ got[c]
  <2>1. Granted' = {e \in acked' : \E d \in Conn : Holds(d, e)'}
    BY DEF Granted, Holds, Has, Grants
  <2>2. \A e \in acked : (\E d \in Conn : Holds(d, e)') <=> (\E d \in Conn : Holds(d, e)) /\ e \notin got[c]
    BY <1>0, <1>3
  <2> QED  BY <1>1, <2>1, <2>2 DEF Granted
<1>5. UNCHANGED <<Promised, Waiting>>
  BY <1>1, MailStays
<1>6. Channel!Give(got[c])
  BY <1>1, <1>4, <1>5 DEF Channel!Give
<1> QED  BY <1>2, <1>6 DEF Channel!Next

(* A grant that is heard of becomes a message the call holds.              *)
LEMMA TakeResultKeepsGrants ==
    ASSUME Inv, NEW c \in Conn, TakeResult(c)
    PROVE  Granted' \subseteq Granted
<1> DEFINE f == Head(toClient[c])
<1>0. InboxTypeOK
  BY DEF Inv
<1>1. /\ toClient[c] # <<>> /\ toClient' = [toClient EXCEPT ![c] = Tail(@)]
      /\ f.id = cur[c].id
      /\ \/ UNCHANGED got
         \/ f.type = "ack" /\ f.ok /\ got' = [got EXCEPT ![c] = @ \cup {cur[c]}]
      /\ UNCHANGED acked
  BY DEF TakeResult
<1>2. \A e \in Envelope : NoNewGrants(e)
  BY <1>0, <1>1, FramesGone
<1>3. ASSUME NEW e \in acked, NEW d \in Conn, Holds(d, e)' PROVE Holds(d, e)
  <2>0. e \in Envelope
    BY <1>0 DEF InboxTypeOK, TypeOK
  <2>1. e \in got'[d] \/ Has(toClient'[d], e)
    BY <1>3 DEF Holds, Has, Grants
  <2>2. CASE Has(toClient'[d], e)
    BY <1>2, <2>0, <2>2 DEF NoNewGrants, Holds
  <2>3. CASE e \in got'[d] /\ e \notin got[d]
    <3>1. d = c /\ e = cur[c] /\ f.type = "ack" /\ f.ok
      BY <1>0, <1>1, <2>3 DEF InboxTypeOK
    <3>2. Grants(f, e)
      BY <1>1, <3>1 DEF Grants
    <3>3. toClient[c] \in Seq(FrameToClient)
      BY <1>0 DEF InboxTypeOK
    <3>4. Has(toClient[c], e)
      BY <1>1, <3>2, <3>3, TailGrants
    <3> QED  BY <3>1, <3>4 DEF Holds
  <2>4. CASE e \in got[d]
    BY <2>4 DEF Holds
  <2> QED  BY <2>1, <2>2, <2>3, <2>4
<1> QED  BY <1>1, <1>3, FewerGrants

(* Every other step is one the channel does not see, or loses a grant.     *)
LEMMA NextRefines ==
    ASSUME Inv, [InboxNext]_allVars
    PROVE  Channel!Next \/ UNCHANGED <<Promised, Waiting, Granted, surfaced>>
<1>0. InboxTypeOK /\ IInv /\ TypeOK /\ acked \subseteq Envelope
  BY DEF Inv, InboxTypeOK, TypeOK
<1>1. ASSUME NEW c \in Conn,
             \/ Start(c) \/ Read(c) \/ SendAck(c) \/ SendReject(c) \/ Defer(c)
             \/ Fail(c) \/ ServerClose(c)
      PROVE  Channel!Next
  <2>1. /\ \/ UNCHANGED toClient
           \/ toClient' = [toClient EXCEPT ![c] = <<>>]
           \/ toClient[c] # <<>> /\ toClient' = [toClient EXCEPT ![c] = Tail(@)]
        /\ UNCHANGED <<surfaced, acked>>
        /\ UNCHANGED got \/ got' = [got EXCEPT ![c] = {}]
    BY <1>1 DEF Start, Read, TakeFrame, SendAck, SendReject, SendSettle, Defer, Fail, Leave,
                ServerClose, wireVars, clientVars
  <2>2. \A d \in Conn : got'[d] \subseteq got[d]
    BY <1>0, <2>1 DEF InboxTypeOK
  <2>3. \A e \in Envelope : NoNewGrants(e)
    BY <1>0, <2>1, FramesGone
  <2>4. UNCHANGED <<queue, told>>
    BY <1>1 DEF Start, Connect, Read, SendAck, SendReject, Defer, Fail, ServerClose, Disconnect,
                vars, dbVars
  <2> QED  BY <1>0, <2>1, <2>2, <2>3, <2>4, NoNewIsFewer, MailStays, LosingIsAllowed
<1>2. ASSUME NEW c \in Conn, TakeResult(c) PROVE Channel!Next
  <2>1. UNCHANGED <<queue, told, surfaced>>
    BY <1>2 DEF TakeResult, vars
  <2> QED  BY <1>2, <2>1, TakeResultKeepsGrants, MailStays, LosingIsAllowed
<1>3. ASSUME NEW c \in Conn, ServerDeliver(c) PROVE Channel!Next
  <2>1. DeliveryStep /\ UNCHANGED <<got, surfaced, acked>>
    BY <1>0, <1>3, DeliverIsDelivery, DeliverNextIsDelivery DEF ServerDeliver, clientVars
  <2>2. UNCHANGED <<Promised, Waiting>>
    BY <1>0, <2>1, DeliveryKeepsWaiting
  <2>3. \A e \in Envelope : NoNewGrants(e)
    <3>1. CASE UNCHANGED toClient
      BY <3>1 DEF NoNewGrants
    <3>2. ASSUME NEW m \in Handed, toClient' = [toClient EXCEPT ![c] = Append(@, Message(m))]
          PROVE  \A e \in Envelope : NoNewGrants(e)
      <4>1. TypeOK'
        BY MailboxStep, NextTypeOK, <1>0
      <4>2. Message(m) \in FrameToClient /\ \A e \in Envelope : ~ Grants(Message(m), e)
        BY <4>1 DEF Handed, TypeOK, Row, Message, FrameToClient, Grants
      <4> QED  BY <1>0, <3>2, <4>2, FrameComes
    <3> QED  BY <1>3, <3>1, <3>2 DEF ServerDeliver
  <2>4. \A d \in Conn : got'[d] \subseteq got[d]
    BY <2>1
  <2> QED  BY <1>0, <2>1, <2>2, <2>3, <2>4, NoNewIsFewer, LosingIsAllowed
<1>4. CASE ServerCrash \/ ClockTick \/ UNCHANGED allVars
  <2>1. UNCHANGED <<queue, told, toClient, got, surfaced, acked>>
    BY <1>4 DEF ServerCrash, Crash, ClockTick, Tick, allVars, vars, dbVars, wireVars, clientVars
  <2>2. UNCHANGED Granted
    BY <2>1 DEF Granted, Holds, Has, Grants
  <2> QED  BY <2>1, <2>2, MailStays
<1> QED  BY <1>0, <1>1, <1>2, <1>3, <1>4, SenderRefines, SettleRefines, ReturnRefines
            DEF InboxNext, Client, Server

(* Whatever senders repeat, and however leases, connections, calls and     *)
(* crashes interleave, the user's view of the mail is that of Delivery: a  *)
(* message_id is taken once; its message waits until it is granted to a    *)
(* call or, if the client may refuse it, dropped; and only what was        *)
(* granted is returned.                                                    *)
THEOREM InboxIsDelivery == InboxSpec => IsDelivery
<1>1. InboxInit => Channel!Init
  BY InitRefines
<1>2. Inv /\ [InboxNext]_allVars => [Channel!Next]_<<Promised, Waiting, Granted, surfaced>>
  BY NextRefines
<1> QED  BY <1>1, <1>2, InvHolds, PTL DEF InboxSpec, IsDelivery, Channel!Spec

=============================================================================
