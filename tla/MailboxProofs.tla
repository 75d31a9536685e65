--------------------------- MODULE MailboxProofs ---------------------------
(* Theorems about Mailbox, for every value of its constants.               *)
EXTENDS Mailbox, TLAPS

-----------------------------------------------------------------------------
(* Types.                                                                  *)

(* Clock arithmetic stays within the integers.                             *)
LEMMA SecondType == \A t \in Nat : Second(t) \in Nat
  BY ConfigAssumption DEF Second

(* A leased row is a row.                                                  *)
LEMMA LeasedType ==
    ASSUME now \in Nat, NEW r \in Row
    PROVE  /\ Leased(r) \in Row
           /\ Leased(r).env = r.env
           /\ Leased(r).state = "leased"
           /\ Leased(r).attempt = now
           /\ Leased(r).lease = LeaseDeadline
  <1>1. LeaseDeadline \in Int
    BY SecondType, ConfigAssumption DEF LeaseDeadline
  <1> QED  BY <1>1 DEF Leased, Row

(* Requeueing expired leases maps rows to rows of the same envelope.       *)
LEMMA RequeuedType ==
    ASSUME queue \subseteq Row, NEW cl \in Hosted
    PROVE  Requeued(cl) \subseteq Row
  BY DEF Requeued, Row

LEMMA LeaseAndSendType ==
    ASSUME TypeOK, NEW c \in Conn, NEW rows \in SUBSET Row, NEW r \in rows,
           NEW rest \in SUBSET Row, LeaseAndSend(c, rows, r, rest)
    PROVE  /\ queue' \subseteq Row
           /\ shown' \subseteq Envelope
           /\ batch' \in [Conn -> SUBSET MessageId]
           /\ pc' \in [Conn -> {"closed", "loop", "sending", "receive"}]
  <1>1. now \in Nat
    BY ConfigAssumption DEF TypeOK
  <1>2. Leased(r) \in Row
    BY <1>1, LeasedType
  <1>3. {s.env.id : s \in {t \in rest : Before(r, t)}} \subseteq MessageId
    BY EnvelopeAssumption DEF Row
  <1>4. r.env \in Envelope
    BY DEF Row
  <1> QED  BY <1>2, <1>3, <1>4 DEF LeaseAndSend, TypeOK

LEMMA EarliestIsMember ==
    ASSUME NEW S, NEW r \in Earliest(S)
    PROVE  r \in S
  BY DEF Earliest

LEMMA InitTypeOK == Init => TypeOK
  BY ConfigAssumption DEF Init, TypeOK

(* Type correctness is inductive on its own.                               *)
LEMMA NextTypeOK == TypeOK /\ [Next]_vars => TypeOK'
<1> SUFFICES ASSUME TypeOK, [Next]_vars
             PROVE  TypeOK'
    OBVIOUS
<1> USE DEF TypeOK, dbVars, connVars
<1>0. now \in Nat /\ MaxTime \in Nat /\ MaxCrashes \in Nat
    BY ConfigAssumption
<1>1. ASSUME NEW e \in Envelope, Submit(e)
      PROVE  TypeOK'
  <2>1. e.to \in Recipient /\ e.id \in MessageId /\ e.body \in Body
    BY EnvelopeAssumption
  <2>2. CASE RefuseUnready(e)
    BY <2>2 DEF RefuseUnready, Answer, Status
  <2>3. CASE RefuseDuplicate(e)
    BY <2>3 DEF RefuseDuplicate, Answer, Status
  <2>4. CASE AnswerAlreadyQueued(e)
    BY <2>4 DEF AnswerAlreadyQueued, Answer, Status
  <2>5. CASE Remember(e)
    <3>1. [to |-> e.to, id |-> e.id, digest |-> Digest(e)] \in ReplayRow
      BY <2>1, <2>5 DEF Remember, ReplayRow, Digest
    <3> QED  BY <2>5, <3>1 DEF Remember
  <2> QED  BY <1>1, <2>2, <2>3, <2>4, <2>5 DEF Submit
<1>2. CASE Enqueue
  <2>1. accepting \in Envelope
    BY <1>2 DEF Enqueue
  <2>2. NewRow(accepting) \in Row
    BY <1>0, <2>1, SecondType DEF NewRow, Row
  <2> QED  BY <1>2, <2>1, <2>2 DEF Enqueue, Answer, Status
<1>3. ASSUME NEW c \in Conn, NEW cl \in Hosted, Connect(c, cl)
      PROVE  TypeOK'
    BY <1>3 DEF Connect
<1>4. ASSUME NEW c \in Conn, Disconnect(c)
      PROVE  TypeOK'
    BY <1>4 DEF Disconnect
<1>5. ASSUME NEW c \in Conn, Deliver(c)
      PROVE  TypeOK'
  <2> DEFINE rows    == Requeued(owner[c])
             waiting == QueuedIn(rows, owner[c])
  <2>1. rows \subseteq Row /\ waiting \subseteq Row
    BY RequeuedType DEF QueuedIn
  <2>2. CASE /\ waiting = {}
             /\ queue' = rows
             /\ pc' = [pc EXCEPT ![c] = "receive"]
             /\ UNCHANGED <<batch, shown>>
    BY <1>5, <2>1, <2>2 DEF Deliver
  <2>3. CASE \E r \in Earliest(waiting) : LeaseAndSend(c, rows, r, waiting)
    <3>1. PICK r \in Earliest(waiting) : LeaseAndSend(c, rows, r, waiting)
      BY <2>3
    <3>2. r \in waiting /\ r \in rows
      BY EarliestIsMember DEF QueuedIn
    <3>3. /\ queue' \subseteq Row
          /\ shown' \subseteq Envelope
          /\ batch' \in [Conn -> SUBSET MessageId]
          /\ pc' \in [Conn -> {"closed", "loop", "sending", "receive"}]
      BY <2>1, <3>1, <3>2, LeaseAndSendType
    <3> QED  BY <1>5, <3>3 DEF Deliver
  <2> QED  BY <1>5, <2>2, <2>3 DEF Deliver
<1>6. ASSUME NEW c \in Conn, DeliverNext(c)
      PROVE  TypeOK'
  <2> DEFINE left == {r \in InBatch(c) : Leasable(r)}
  <2>1. InBatch(c) \subseteq queue /\ left \subseteq queue
    BY DEF InBatch, RowsOf
  <2>2. CASE /\ left = {}
             /\ pc' = [pc EXCEPT ![c] = "receive"]
             /\ batch' = [batch EXCEPT ![c] = {}]
             /\ UNCHANGED <<queue, shown>>
    BY <1>6, <2>2 DEF DeliverNext
  <2>3. CASE \E r \in Earliest(left) : LeaseAndSend(c, queue, r, InBatch(c))
    <3>1. PICK r \in Earliest(left) : LeaseAndSend(c, queue, r, InBatch(c))
      BY <2>3
    <3>2. r \in queue
      BY <2>1, EarliestIsMember
    <3>3. /\ queue' \subseteq Row
          /\ shown' \subseteq Envelope
          /\ batch' \in [Conn -> SUBSET MessageId]
          /\ pc' \in [Conn -> {"closed", "loop", "sending", "receive"}]
      BY <2>1, <3>1, <3>2, LeaseAndSendType
    <3> QED  BY <1>6, <3>3 DEF DeliverNext
  <2> QED  BY <1>6, <2>2, <2>3 DEF DeliverNext
<1>7. ASSUME NEW c \in Conn, NEW m \in MessageId, Ack(c, m)
      PROVE  TypeOK'
  <2>1. {r.env : r \in ActiveFor(owner[c], m)} \subseteq Envelope
    BY DEF ActiveFor, RowsFor, RowsOf, Row
  <2> QED  BY <1>7, <2>1 DEF Ack
<1>8. ASSUME NEW c \in Conn, NEW m \in MessageId, Reject(c, m)
      PROVE  TypeOK'
  <2>1. ActiveFor(owner[c], m) \subseteq Row
    BY DEF ActiveFor, RowsFor, RowsOf
  <2>2. {r.env : r \in ActiveFor(owner[c], m)} \subseteq Envelope
    BY <2>1 DEF Row
  <2>3. {Quarantined(r) : r \in ActiveFor(owner[c], m)} \subseteq Row
    BY <2>1 DEF Quarantined, Row
  <2> QED  BY <1>8, <2>2, <2>3 DEF Reject
<1>9. CASE Crash
    BY <1>0, <1>9 DEF Crash
<1>10. CASE Tick
    BY <1>0, <1>10 DEF Tick
<1>11. CASE UNCHANGED vars
    BY <1>11 DEF vars
<1> QED
    BY <1>1, <1>2, <1>3, <1>4, <1>5, <1>6, <1>7, <1>8, <1>9, <1>10, <1>11
    DEF Next, Handler

(* Every variable keeps its type in every behaviour of the mailbox.        *)
THEOREM TypeCorrect == Spec => []TypeOK
  BY InitTypeOK, NextTypeOK, PTL DEF Spec

-----------------------------------------------------------------------------
(* The safety invariants.                                                  *)
(*                                                                         *)
(* None of them is inductive alone.  What carries them is that the table   *)
(* queue_messages has one row per message_id, that every admitted envelope *)
(* is remembered, and that the envelope in hand between the two            *)
(* transactions shares its message_id with nothing admitted before it.     *)

RowsUnique == \A r, s \in queue : SameId(r.env, s.env) => r = s

Settled == {r.env : r \in queue} \cup shown \cup done

AcceptingIsFresh ==
    accepting # Null => \A e \in Settled : ~ SameId(e, accepting)

IInv ==
    /\ TypeOK
    /\ RowsUnique
    /\ AdmittedIsRemembered
    /\ AcceptingIsFresh
    /\ OneEnvelopePerMessageId
    /\ FinishedStaysFinished
    /\ QueuedIsKept

(* What a delivery does to one row: nothing, requeue it, or lease it.      *)
Requeue(r) == [r EXCEPT !.state = "queued", !.lease = Null]

RowStep(r, q) ==
    \/ q = r
    \/ r.state = "leased" /\ Expired(r) /\ q = Requeue(r)
    \/ Leasable(r) /\ q = Leased(r)

DeliveryStep ==
    /\ \E f \in [queue -> Row] :
          /\ queue' = {f[r] : r \in queue}
          /\ \A r \in queue : RowStep(r, f[r])
    /\ shown \subseteq shown'
    /\ shown' \subseteq shown \cup {r.env : r \in queue}
    /\ UNCHANGED <<now, replay, accepting, told, done>>

(* The envelope and the activity of a row survive a delivery.              *)
LEMMA RowStepKeeps ==
    ASSUME now \in Nat, NEW r \in Row, NEW q \in Row, RowStep(r, q)
    PROVE  q.env = r.env /\ (Active(q) <=> Active(r)) /\ q.created = r.created
  BY DEF RowStep, Requeue, Leased, Leasable, Active, Row

LEMMA RequeueType ==
    ASSUME NEW r \in Row
    PROVE  Requeue(r) \in Row /\ Requeue(r).env = r.env
  BY DEF Requeue, Row

LEMMA LeaseAndSendIsDelivery ==
    ASSUME TypeOK, NEW c \in Conn, NEW g \in [queue -> Row],
           \A x \in queue : \/ g[x] = x
                            \/ x.state = "leased" /\ Expired(x) /\ g[x] = Requeue(x),
           NEW r \in {g[x] : x \in queue}, Leasable(r),
           NEW rest,
           LeaseAndSend(c, {g[x] : x \in queue}, r, rest),
           UNCHANGED <<now, replay, accepting, told, done>>
    PROVE  DeliveryStep
<1> DEFINE f == [x \in queue |-> IF g[x] = r THEN Leased(r) ELSE g[x]]
<1>0. now \in Nat /\ queue \subseteq Row
    BY ConfigAssumption DEF TypeOK
<1>1. Leased(r) \in Row
    BY <1>0, LeasedType
<1>2. f \in [queue -> Row]
    BY <1>1
<1>3. queue' = {f[x] : x \in queue}
  <2>1. queue' = ({g[x] : x \in queue} \ {r}) \cup {Leased(r)}
    BY DEF LeaseAndSend
  <2>2. PICK x0 \in queue : r = g[x0]
    OBVIOUS
  <2> QED  BY <2>1, <2>2
<1>4. ASSUME NEW x \in queue
      PROVE  RowStep(x, f[x])
  <2>1. CASE g[x] # r
    BY <2>1 DEF RowStep
  <2>2. CASE g[x] = r
    <3>1. Leasable(x)
      BY <2>2 DEF Leasable
    <3>2. Leased(r) = Leased(x)
      BY <1>0, <2>2 DEF Leased, Requeue, Row
    <3> QED  BY <2>2, <3>1, <3>2 DEF RowStep
  <2> QED  BY <2>1, <2>2
<1>5. r.env \in {x.env : x \in queue}
  <2>1. PICK x \in queue : r = g[x]
    OBVIOUS
  <2>2. g[x].env = x.env
    BY <1>0, RequeueType
  <2> QED  BY <2>1, <2>2
<1>6. shown' = shown \cup {r.env}
    BY DEF LeaseAndSend
<1> HIDE DEF f
<1> QED  BY <1>2, <1>3, <1>4, <1>5, <1>6 DEF DeliveryStep

(* Both delivery actions only requeue and lease rows.                      *)
LEMMA DeliverIsDelivery ==
    ASSUME TypeOK, NEW c \in Conn, Deliver(c)
    PROVE  DeliveryStep
<1> DEFINE g == [x \in queue |-> IF x.env.to = owner[c] /\ x.state = "leased" /\ Expired(x)
                                 THEN Requeue(x) ELSE x]
           rows    == Requeued(owner[c])
           waiting == QueuedIn(rows, owner[c])
<1>1. queue \subseteq Row
    BY DEF TypeOK
<1>2. g \in [queue -> Row]
    BY <1>1, RequeueType
<1>3. rows = {g[x] : x \in queue}
    BY DEF Requeued, Requeue
<1>4. \A x \in queue : \/ g[x] = x
                       \/ x.state = "leased" /\ Expired(x) /\ g[x] = Requeue(x)
    OBVIOUS
<1>5. UNCHANGED <<now, replay, accepting, told, done>>
    BY DEF Deliver
<1>6. CASE queue' = rows /\ UNCHANGED shown
  <2>1. \A x \in queue : RowStep(x, g[x])
    BY <1>4 DEF RowStep
  <2> HIDE DEF g
  <2> QED  BY <1>2, <1>3, <1>5, <1>6, <2>1 DEF DeliveryStep
<1>7. CASE \E r \in Earliest(waiting) : LeaseAndSend(c, rows, r, waiting)
  <2>1. PICK r \in Earliest(waiting) : LeaseAndSend(c, rows, r, waiting)
    BY <1>7
  <2>2. r \in rows /\ r.state = "queued"
    BY EarliestIsMember DEF QueuedIn
  <2>3. Leasable(r)
    BY <2>2 DEF Leasable
  <2> HIDE DEF g, rows, waiting
  <2> QED  BY <1>2, <1>3, <1>4, <1>5, <2>1, <2>2, <2>3, LeaseAndSendIsDelivery
<1> QED  BY <1>6, <1>7 DEF Deliver

LEMMA DeliverNextIsDelivery ==
    ASSUME TypeOK, NEW c \in Conn, DeliverNext(c)
    PROVE  DeliveryStep
<1> DEFINE g    == [x \in queue |-> x]
           left == {r \in InBatch(c) : Leasable(r)}
<1>1. g \in [queue -> Row] /\ queue = {g[x] : x \in queue}
    BY DEF TypeOK
<1>2. \A x \in queue : g[x] = x
    OBVIOUS
<1>3. UNCHANGED <<now, replay, accepting, told, done>>
    BY DEF DeliverNext
<1>4. CASE UNCHANGED <<queue, shown>>
  <2>1. \A x \in queue : RowStep(x, g[x])
    BY <1>2 DEF RowStep
  <2> HIDE DEF g
  <2> QED  BY <1>1, <1>3, <1>4, <2>1 DEF DeliveryStep
<1>5. CASE \E r \in Earliest(left) : LeaseAndSend(c, queue, r, InBatch(c))
  <2>1. PICK r \in Earliest(left) : LeaseAndSend(c, queue, r, InBatch(c))
    BY <1>5
  <2>2. r \in queue /\ Leasable(r)
    BY EarliestIsMember DEF InBatch, RowsOf
  <2> HIDE DEF g, left
  <2> QED  BY <1>1, <1>2, <1>3, <2>1, <2>2, LeaseAndSendIsDelivery
<1> QED  BY <1>4, <1>5 DEF DeliverNext

(* One proof for both: a delivery keeps the invariant.                     *)
LEMMA DeliveryKeepsIInv ==
    ASSUME IInv, TypeOK', DeliveryStep
    PROVE  IInv'
<1>1. PICK f \in [queue -> Row] :
          /\ queue' = {f[r] : r \in queue}
          /\ \A r \in queue : RowStep(r, f[r])
    BY DEF DeliveryStep
<1>2. now \in Nat /\ queue \subseteq Row
    BY ConfigAssumption DEF IInv, TypeOK
<1>3. \A r \in queue : f[r].env = r.env /\ (Active(f[r]) <=> Active(r))
    BY <1>1, <1>2, RowStepKeeps
<1>4. {q.env : q \in queue'} = {r.env : r \in queue}
    BY <1>1, <1>3
<1>5. UNCHANGED <<replay, accepting, told, done>>
    BY DEF DeliveryStep
<1>6. shown \subseteq shown' /\ shown' \subseteq shown \cup {r.env : r \in queue}
    BY DEF DeliveryStep
<1>7. Settled' = Settled /\ Admitted' = Admitted
    BY <1>4, <1>5, <1>6 DEF Settled, Admitted
<1>8. RowsUnique'
  <2> SUFFICES ASSUME NEW p \in queue', NEW q \in queue', SameId(p.env, q.env)
               PROVE  p = q
    BY DEF RowsUnique, SameId
  <2>1. PICK r \in queue, s \in queue : p = f[r] /\ q = f[s]
    BY <1>1
  <2>2. SameId(r.env, s.env)
    BY <1>3, <2>1
  <2> QED  BY <2>1, <2>2 DEF IInv, RowsUnique
<1>9. AdmittedIsRemembered' /\ AcceptingIsFresh' /\ OneEnvelopePerMessageId'
    BY <1>5, <1>7 DEF IInv, AdmittedIsRemembered, AcceptingIsFresh,
                      OneEnvelopePerMessageId, ReplayOf, Digest, SameId
<1>10. FinishedStaysFinished'
  <2> SUFFICES ASSUME NEW e \in done, NEW q \in queue',
                      q.env.to = e.to, q.env.id = e.id, Active(q)
               PROVE  FALSE
    BY <1>5 DEF FinishedStaysFinished, ActiveFor, RowsFor, RowsOf, Active
  <2>1. PICK r \in queue : q = f[r]
    BY <1>1
  <2>2. r \in ActiveFor(e.to, e.id)
    BY <1>3, <2>1 DEF ActiveFor, RowsFor, RowsOf
  <2> QED  BY <2>2 DEF IInv, FinishedStaysFinished
<1>11. QueuedIsKept'
  <2>1. \A e : OnQueue(e) => OnQueue(e)'
    BY <1>1, <1>3 DEF OnQueue
  <2> QED  BY <1>5, <2>1 DEF IInv, QueuedIsKept
<1> QED  BY <1>8, <1>9, <1>10, <1>11 DEF IInv

LEMMA InitIInv == Init => IInv
<1> SUFFICES ASSUME Init
             PROVE  IInv
    OBVIOUS
<1>1. TypeOK
    BY InitTypeOK
<1> QED  BY <1>1 DEF Init, IInv, RowsUnique, AdmittedIsRemembered, Admitted,
                     AcceptingIsFresh, Settled, OneEnvelopePerMessageId,
                     FinishedStaysFinished, QueuedIsKept

(* Acknowledging and rejecting take the active rows of one message_id off  *)
(* the queue; at most one of them comes back, as rejected.                 *)
LEMMA SettlingKeepsIInv ==
    ASSUME IInv, TypeOK', NEW cl, NEW m, NEW kept,
           kept = {} \/ kept = {Quarantined(r) : r \in ActiveFor(cl, m)},
           queue' = (queue \ ActiveFor(cl, m)) \cup kept,
           done' = done \cup {r.env : r \in ActiveFor(cl, m)},
           UNCHANGED <<replay, accepting, told, shown>>
    PROVE  IInv'
<1> DEFINE hit == ActiveFor(cl, m)
<1>1. hit \subseteq queue /\ queue \subseteq Row
    BY DEF ActiveFor, RowsFor, RowsOf, IInv, TypeOK
<1>2. \A r \in hit : r.env.to = cl /\ r.env.id = m /\ Active(r)
    BY DEF ActiveFor, RowsFor, RowsOf
<1>3. \A r \in Row : Quarantined(r).env = r.env /\ ~ Active(Quarantined(r))
    BY DEF Quarantined, Row, Active
<1>4. \A q \in queue' : \/ q \in queue \ hit
                        \/ \E r \in hit : q = Quarantined(r)
    OBVIOUS
<1>5. Settled' = Settled /\ Admitted' \subseteq Admitted
  <2>1. {q.env : q \in queue'} \subseteq {r.env : r \in queue}
    BY <1>1, <1>3, <1>4
  <2>2. {r.env : r \in queue} \subseteq {q.env : q \in queue'} \cup done'
    BY <1>1
  <2>3. done' \subseteq done \cup {r.env : r \in queue}
    BY <1>1
  <2> QED  BY <2>1, <2>2, <2>3 DEF Settled, Admitted
<1>6. RowsUnique'
  <2> SUFFICES ASSUME NEW p \in queue', NEW q \in queue', SameId(p.env, q.env)
               PROVE  p = q
    BY DEF RowsUnique, SameId
  <2>1. PICK r \in queue : r.env = p.env /\ (p = r \/ (r \in hit /\ p = Quarantined(r)))
    BY <1>1, <1>3, <1>4
  <2>2. PICK s \in queue : s.env = q.env /\ (q = s \/ (s \in hit /\ q = Quarantined(s)))
    BY <1>1, <1>3, <1>4
  <2>3. r = s
    BY <2>1, <2>2 DEF IInv, RowsUnique
  <2>4. CASE r \in hit
    BY <1>1, <1>2, <1>3, <1>4, <2>1, <2>2, <2>3, <2>4 DEF IInv, RowsUnique, SameId
  <2>5. CASE r \notin hit
    BY <2>1, <2>2, <2>3, <2>5
  <2> QED  BY <2>4, <2>5
<1>7. AdmittedIsRemembered' /\ AcceptingIsFresh' /\ OneEnvelopePerMessageId'
    BY <1>5 DEF IInv, AdmittedIsRemembered, AcceptingIsFresh,
                OneEnvelopePerMessageId, ReplayOf, Digest, SameId
<1>8. FinishedStaysFinished'
  <2> SUFFICES ASSUME NEW e \in done', NEW q \in queue',
                      q.env.to = e.to, q.env.id = e.id, Active(q)
               PROVE  FALSE
    BY DEF FinishedStaysFinished, ActiveFor, RowsFor, RowsOf, Active
  <2>1. q \in queue \ hit
    BY <1>1, <1>3, <1>4
  <2>2. CASE e \in done
    BY <2>1, <2>2 DEF IInv, FinishedStaysFinished, ActiveFor, RowsFor, RowsOf
  <2>3. CASE e \in {r.env : r \in hit}
    BY <1>2, <2>1, <2>3 DEF ActiveFor, RowsFor, RowsOf
  <2> QED  BY <2>2, <2>3
<1>9. QueuedIsKept'
  <2>1. \A e : OnQueue(e) => OnQueue(e)' \/ e \in done'
    BY DEF OnQueue
  <2> QED  BY <2>1 DEF IInv, QueuedIsKept
<1> QED  BY <1>6, <1>7, <1>8, <1>9 DEF IInv

LEMMA NextIInv == IInv /\ [Next]_vars => IInv'
<1> SUFFICES ASSUME IInv, [Next]_vars
             PROVE  IInv'
    OBVIOUS
<1>0. TypeOK /\ TypeOK'
    BY NextTypeOK DEF IInv
<1> DEFINE Kept == UNCHANGED <<queue, replay, shown, done>>
<1>a. ASSUME Kept, accepting' = accepting \/ accepting' = Null,
             \A e \in Envelope : <<e, "queued">> \in told' => <<e, "queued">> \in told
      PROVE  IInv'
  <2>1. Admitted' \subseteq Admitted /\ Settled' = Settled
    BY <1>a DEF Admitted, Settled
  <2> QED  BY <1>0, <1>a, <2>1 DEF IInv, RowsUnique, AdmittedIsRemembered,
              AcceptingIsFresh, OneEnvelopePerMessageId, FinishedStaysFinished,
              QueuedIsKept, OnQueue, ReplayOf, Digest, SameId, ActiveFor,
              RowsFor, RowsOf, Active
<1>1. ASSUME NEW e \in Envelope, Submit(e)
      PROVE  IInv'
  <2>1. CASE RefuseUnready(e)
    BY <1>a, <2>1 DEF RefuseUnready, Answer, dbVars
  <2>2. CASE RefuseDuplicate(e)
    BY <1>a, <2>2 DEF RefuseDuplicate, Answer, dbVars
  <2>3. CASE AnswerAlreadyQueued(e)
    BY <1>a, <2>3 DEF AnswerAlreadyQueued, Answer, dbVars
  <2>4. CASE Remember(e)
    <3> DEFINE new == [to |-> e.to, id |-> e.id, digest |-> Digest(e)]
    <3>0. /\ accepting = Null /\ accepting' = e
          /\ UNCHANGED <<queue, shown, done, told>>
          /\ replay' = replay \cup {new}
      BY <2>4 DEF Remember
    <3>1. /\ accepting = Null /\ accepting' = e
          /\ UNCHANGED <<queue, shown, done, told>>
          /\ replay \subseteq replay'
          /\ \E p \in replay' : p.to = e.to /\ p.id = e.id /\ p.digest = Digest(e)
      <4>1. new \in replay' /\ new.to = e.to /\ new.id = e.id /\ new.digest = Digest(e)
        BY <3>0
      <4> QED  BY <3>0, <4>1
    <3>2. \A f \in Admitted : ~ SameId(f, e)
      BY <2>4 DEF Remember, IInv, AdmittedIsRemembered, ReplayOf, SameId
    <3>3. Settled' = Settled /\ Settled \subseteq Admitted
      BY <3>1 DEF Settled, Admitted
    <3>4. Admitted' = Admitted \cup {e}
      BY <3>1, EnvelopeAssumption DEF Admitted
    <3>5. AdmittedIsRemembered'
      BY <3>1, <3>4 DEF IInv, AdmittedIsRemembered, ReplayOf, Digest
    <3>6. AcceptingIsFresh' /\ OneEnvelopePerMessageId'
      BY <3>1, <3>2, <3>3, <3>4 DEF IInv, AcceptingIsFresh,
                                    OneEnvelopePerMessageId, SameId
    <3> QED  BY <1>0, <3>1, <3>5, <3>6 DEF IInv, RowsUnique,
                FinishedStaysFinished, QueuedIsKept, OnQueue, SameId,
                ActiveFor, RowsFor, RowsOf, Active
  <2> QED  BY <1>1, <2>1, <2>2, <2>3, <2>4 DEF Submit
<1>2. CASE Enqueue
  <2> DEFINE e == accepting
  <2>1. e # Null /\ e \in Envelope /\ accepting' = Null
    BY <1>0, <1>2 DEF Enqueue, TypeOK
  <2>2. RowsFor(e.to, e.id) = {}
    BY <2>1 DEF IInv, AcceptingIsFresh, Settled, RowsFor, RowsOf, SameId
  <2>3. /\ queue' = queue \cup {NewRow(e)}
        /\ told' = told \cup {<<e, "queued">>}
        /\ UNCHANGED <<replay, shown, done>>
    BY <1>2, <2>2 DEF Enqueue, Answer
  <2>4. NewRow(e).env = e /\ \A r \in queue : ~ SameId(r.env, e)
    BY <2>2 DEF NewRow, RowsFor, RowsOf, SameId
  <2>5. Admitted' = Admitted
    BY <2>1, <2>3, <2>4 DEF Admitted
  <2>6. RowsUnique'
    BY <2>3, <2>4 DEF IInv, RowsUnique, SameId
  <2>7. AdmittedIsRemembered' /\ AcceptingIsFresh' /\ OneEnvelopePerMessageId'
    BY <2>1, <2>3, <2>5 DEF IInv, AdmittedIsRemembered, AcceptingIsFresh,
                            OneEnvelopePerMessageId, ReplayOf, Digest
  <2>8. FinishedStaysFinished'
    <3>1. \A f \in done : ~ SameId(f, e)
      BY <2>1 DEF IInv, AcceptingIsFresh, Settled
    <3> QED  BY <2>3, <2>4, <3>1 DEF IInv, FinishedStaysFinished, SameId,
                ActiveFor, RowsFor, RowsOf, Active
  <2>9. QueuedIsKept'
    BY <2>3, <2>4 DEF IInv, QueuedIsKept, OnQueue
  <2> QED  BY <1>0, <2>6, <2>7, <2>8, <2>9 DEF IInv
<1>3. ASSUME NEW c \in Conn, NEW cl \in Hosted, Connect(c, cl)
      PROVE  IInv'
    BY <1>3, <1>a DEF Connect, dbVars
<1>4. ASSUME NEW c \in Conn, Disconnect(c)
      PROVE  IInv'
    BY <1>4, <1>a DEF Disconnect, dbVars
<1>5. ASSUME NEW c \in Conn, Deliver(c)
      PROVE  IInv'
    BY <1>0, <1>5, DeliverIsDelivery, DeliveryKeepsIInv
<1>6. ASSUME NEW c \in Conn, DeliverNext(c)
      PROVE  IInv'
    BY <1>0, <1>6, DeliverNextIsDelivery, DeliveryKeepsIInv
<1>7. ASSUME NEW c \in Conn, NEW m \in MessageId, Ack(c, m)
      PROVE  IInv'
  <2>1. /\ queue' = (queue \ ActiveFor(owner[c], m)) \cup {}
        /\ done' = done \cup {r.env : r \in ActiveFor(owner[c], m)}
        /\ UNCHANGED <<replay, accepting, told, shown>>
    BY <1>7 DEF Ack
  <2> QED  BY <1>0, <2>1, SettlingKeepsIInv
<1>8. ASSUME NEW c \in Conn, NEW m \in MessageId, Reject(c, m)
      PROVE  IInv'
  <2> DEFINE kept == IF RejectedPolicy = "quarantine"
                     THEN {Quarantined(r) : r \in ActiveFor(owner[c], m)} ELSE {}
  <2>1. /\ queue' = (queue \ ActiveFor(owner[c], m)) \cup kept
        /\ done' = done \cup {r.env : r \in ActiveFor(owner[c], m)}
        /\ UNCHANGED <<replay, accepting, told, shown>>
    BY <1>8 DEF Reject
  <2>2. kept = {} \/ kept = {Quarantined(r) : r \in ActiveFor(owner[c], m)}
    OBVIOUS
  <2> HIDE DEF kept
  <2> QED  BY <1>0, <2>1, <2>2, SettlingKeepsIInv
<1>9. CASE Crash
    BY <1>9, <1>a DEF Crash, dbVars
<1>10. CASE Tick
    BY <1>10, <1>a DEF Tick, dbVars
<1>11. CASE UNCHANGED vars
    BY <1>11, <1>a DEF vars
<1> QED
    BY <1>1, <1>2, <1>3, <1>4, <1>5, <1>6, <1>7, <1>8, <1>9, <1>10, <1>11
    DEF Next, Handler

LEMMA InvariantHolds == Spec => []IInv
  BY InitIInv, NextIInv, PTL DEF Spec

(* A message its client has acknowledged or rejected never returns to the  *)
(* queue, whatever the senders retry and whenever the server dies.         *)
THEOREM FinishedForGood == Spec => []FinishedStaysFinished
<1>1. IInv => FinishedStaysFinished
    BY DEF IInv
<1> QED  BY <1>1, InvariantHolds, PTL

(* Whatever was admitted is remembered in the replay table, with its       *)
(* digest.                                                                 *)
THEOREM AdmittedRemembered == Spec => []AdmittedIsRemembered
<1>1. IInv => AdmittedIsRemembered
    BY DEF IInv
<1> QED  BY <1>1, InvariantHolds, PTL

(* One message_id of one client stands for at most one envelope, ever.     *)
THEOREM OneEnvelope == Spec => []OneEnvelopePerMessageId
<1>1. IInv => OneEnvelopePerMessageId
    BY DEF IInv
<1> QED  BY <1>1, InvariantHolds, PTL

(* MessageQueue.add never fails on its primary key.                        *)
THEOREM NoCollision == Spec => []EnqueueNeverCollides
<1>1. IInv => EnqueueNeverCollides
    BY DEF IInv, EnqueueNeverCollides, AcceptingIsFresh, Settled, RowsFor,
           RowsOf, SameId
<1> QED  BY <1>1, InvariantHolds, PTL

(* A sender answered "queued" can rely on it.                              *)
THEOREM QueuedKept == Spec => []QueuedIsKept
<1>1. IInv => QueuedIsKept
    BY DEF IInv
<1> QED  BY <1>1, InvariantHolds, PTL

-----------------------------------------------------------------------------
(* A server that never dies.                                               *)

InCustody(e) == OnQueue(e) \/ e \in done

(* What is remembered is an envelope that is in custody, or about to be.   *)
RememberedIsInCustody ==
    \A p \in replay : \E e \in Envelope :
        /\ e.to = p.to /\ e.id = p.id /\ p.digest = Digest(e)
        /\ InCustody(e) \/ accepting = e

(* Rows that leave the queue leave it for `done'.                          *)
LEMMA CustodyStays ==
    ASSUME IInv, [Next]_vars, NEW e \in Envelope, InCustody(e)
    PROVE  InCustody(e)'
<1>0. TypeOK /\ queue \subseteq Row
  BY DEF IInv, TypeOK
<1> USE DEF InCustody, OnQueue
<1>a. ASSUME queue \subseteq queue', done \subseteq done' PROVE InCustody(e)'
  BY <1>a
<1>1. ASSUME NEW f \in Envelope, Submit(f) PROVE InCustody(e)'
  BY <1>1 DEF Submit, RefuseUnready, RefuseDuplicate, AnswerAlreadyQueued, Remember, dbVars
<1>2. CASE Enqueue
  BY <1>2 DEF Enqueue
<1>3. ASSUME NEW c \in Conn, Disconnect(c) \/ \E cl \in Hosted : Connect(c, cl)
      PROVE  InCustody(e)'
  BY <1>3 DEF Connect, Disconnect, dbVars
<1>4. ASSUME NEW c \in Conn, Deliver(c) \/ DeliverNext(c) PROVE InCustody(e)'
  <2>1. DeliveryStep
    BY <1>0, <1>4, DeliverIsDelivery, DeliverNextIsDelivery
  <2>2. PICK f \in [queue -> Row] :
            /\ queue' = {f[r] : r \in queue}
            /\ \A r \in queue : RowStep(r, f[r])
    BY <2>1 DEF DeliveryStep
  <2>3. now \in Nat
    BY <1>0, ConfigAssumption DEF TypeOK
  <2>4. \A r \in queue : f[r] \in queue' /\ f[r].env = r.env
    BY <1>0, <2>2, <2>3, RowStepKeeps
  <2>5. UNCHANGED done
    BY <2>1 DEF DeliveryStep
  <2> QED  BY <2>4, <2>5
<1>5. ASSUME NEW c \in Conn, NEW m, Ack(c, m) \/ Reject(c, m) PROVE InCustody(e)'
  <2> DEFINE hit == ActiveFor(owner[c], m)
  <2>1. queue \ hit \subseteq queue' /\ done' = done \cup {r.env : r \in hit}
    BY <1>5 DEF Ack, Reject
  <2> HIDE DEF hit
  <2> QED  BY <2>1
<1>6. CASE Crash \/ Tick \/ UNCHANGED vars
  BY <1>6 DEF Crash, Tick, dbVars, vars
<1> QED  BY <1>1, <1>2, <1>3, <1>4, <1>5, <1>6 DEF Next, Handler

LEMMA NextRemembered ==
    ASSUME MaxCrashes = 0, IInv, RememberedIsInCustody, [Next]_vars
    PROVE  RememberedIsInCustody'
<1>0. TypeOK
  BY DEF IInv
<1>1. ASSUME NEW e \in Envelope, Remember(e) PROVE RememberedIsInCustody'
  <2> DEFINE new == [to |-> e.to, id |-> e.id, digest |-> Digest(e)]
  <2>1. /\ replay' = replay \cup {new} /\ accepting' = e /\ accepting = Null
        /\ new.to = e.to /\ new.id = e.id /\ new.digest = Digest(e)
    BY <1>1 DEF Remember
  <2> HIDE DEF new
  <2>2. \A f \in Envelope : InCustody(f) => InCustody(f)'
    BY CustodyStays
  <2>3. \A f : Digest(f)' = Digest(f)
    BY DEF Digest
  <2> QED  BY <2>1, <2>2, <2>3, EnvelopeAssumption DEF RememberedIsInCustody
<1>2. CASE Enqueue
  <2>1. PICK a \in Envelope : a = accepting
    BY <1>0, <1>2 DEF Enqueue, TypeOK
  <2>2. RowsFor(a.to, a.id) = {}
    BY <1>2, <2>1 DEF Enqueue, IInv, AcceptingIsFresh, Settled, RowsFor, RowsOf, SameId
  <2>3. NewRow(a) \in queue' /\ NewRow(a).env = a /\ UNCHANGED replay
    BY <1>2, <2>1, <2>2 DEF Enqueue, NewRow
  <2>4. InCustody(a)'
    BY <2>3 DEF InCustody, OnQueue
  <2>5. \A f \in Envelope : InCustody(f) => InCustody(f)'
    BY CustodyStays
  <2>6. \A f : Digest(f)' = Digest(f)
    BY DEF Digest
  <2> QED  BY <2>1, <2>3, <2>4, <2>5, <2>6 DEF RememberedIsInCustody
<1>3. ASSUME UNCHANGED <<replay, accepting>> PROVE RememberedIsInCustody'
  <2>1. \A f \in Envelope : InCustody(f) => InCustody(f)'
    BY CustodyStays
  <2> QED  BY <1>3, <2>1 DEF RememberedIsInCustody, Digest
<1>4. ASSUME NEW e \in Envelope, RefuseUnready(e) \/ RefuseDuplicate(e) \/ AnswerAlreadyQueued(e)
      PROVE  UNCHANGED <<replay, accepting>>
  BY <1>4 DEF RefuseUnready, RefuseDuplicate, AnswerAlreadyQueued, dbVars
<1>5. ASSUME NEW c \in Conn, Disconnect(c) \/ Handler(c) \/ \E cl \in Hosted : Connect(c, cl)
      PROVE  UNCHANGED <<replay, accepting>>
  BY <1>5 DEF Connect, Disconnect, Handler, Deliver, DeliverNext, Ack, Reject, dbVars
<1>6. ~ Crash
  BY <1>0 DEF Crash, TypeOK
<1>7. Tick \/ UNCHANGED vars => UNCHANGED <<replay, accepting>>
  BY DEF Tick, dbVars, vars
<1> QED  BY <1>1, <1>2, <1>3, <1>4, <1>5, <1>6, <1>7 DEF Next, Submit

(* Only AnswerAlreadyQueued says so, of the envelope that is remembered.   *)
LEMMA NextAlreadyQueued ==
    ASSUME MaxCrashes = 0, IInv, RememberedIsInCustody, AlreadyQueuedIsKept, [Next]_vars
    PROVE  AlreadyQueuedIsKept'
<1> SUFFICES ASSUME NEW e \in Envelope, <<e, "already_queued">> \in told'
             PROVE  InCustody(e)'
  BY DEF AlreadyQueuedIsKept, InCustody, OnQueue
<1>1. CASE <<e, "already_queued">> \in told
  BY <1>1, CustodyStays DEF AlreadyQueuedIsKept, InCustody
<1>2. ASSUME NEW f \in Envelope, AnswerAlreadyQueued(f), f = e PROVE InCustody(e)'
  <2>1. PICK p \in replay : p.to = e.to /\ p.id = e.id /\ p.digest = Digest(e)
    BY <1>2 DEF AnswerAlreadyQueued, ReplayOf
  <2>2. accepting = Null /\ e.kind = "reference"
    BY <1>2 DEF AnswerAlreadyQueued
  <2>3. PICK g \in Envelope : /\ g.to = e.to /\ g.id = e.id /\ Digest(g) = Digest(e)
                             /\ InCustody(g)
    BY <2>1, <2>2, EnvelopeAssumption DEF RememberedIsInCustody
  <2>4. Digest(e) = e.body /\ e.body # Null
    BY <2>2, EnvelopeAssumption DEF Digest
  <2>5. g.kind = "reference" /\ g.body = e.body
    BY <2>3, <2>4, EnvelopeAssumption DEF Digest, Kind
  <2>6. g = e
    BY <2>2, <2>3, <2>5, EnvelopeAssumption
  <2> QED  BY <2>3, <2>6, CustodyStays
<1>3. \/ <<e, "already_queued">> \in told
      \/ \E f \in Envelope : f = e /\ AnswerAlreadyQueued(f)
  <2>1. ASSUME NEW f \in Envelope, Submit(f), ~ AnswerAlreadyQueued(f)
        PROVE  <<e, "already_queued">> \in told
    BY <2>1 DEF Submit, RefuseUnready, RefuseDuplicate, Remember, Answer
  <2>2. ASSUME NEW f \in Envelope, AnswerAlreadyQueued(f), f # e
        PROVE  <<e, "already_queued">> \in told
    BY <2>2 DEF AnswerAlreadyQueued, Answer
  <2>3. CASE Enqueue
    BY <2>3 DEF Enqueue, Answer
  <2>4. ASSUME UNCHANGED told PROVE <<e, "already_queued">> \in told
    BY <2>4
  <2>5. ASSUME NEW c \in Conn, Disconnect(c) \/ Handler(c) \/ \E cl \in Hosted : Connect(c, cl)
        PROVE  UNCHANGED told
    BY <2>5 DEF Connect, Disconnect, Handler, Deliver, DeliverNext, Ack, Reject
  <2>6. Crash \/ Tick \/ UNCHANGED vars => UNCHANGED told
    BY DEF Crash, Tick, vars
  <2> QED  BY <2>1, <2>2, <2>3, <2>4, <2>5, <2>6 DEF Next
<1> QED  BY <1>1, <1>2, <1>3

(* While no server process dies, a sender whose retry was answered         *)
(* "already_queued" can rely on it, too: remember and add are one step to  *)
(* everyone else.                                                          *)
THEOREM AlreadyQueuedKept == ASSUME MaxCrashes = 0 PROVE Spec => []AlreadyQueuedIsKept
<1>1. Init => RememberedIsInCustody /\ AlreadyQueuedIsKept
  BY DEF Init, RememberedIsInCustody, AlreadyQueuedIsKept
<1>2. IInv /\ RememberedIsInCustody /\ AlreadyQueuedIsKept /\ [Next]_vars
         => (RememberedIsInCustody /\ AlreadyQueuedIsKept)'
  BY NextRemembered, NextAlreadyQueued
<1> QED  BY <1>1, <1>2, InvariantHolds, PTL DEF Spec

-----------------------------------------------------------------------------
(* How long a lease holds.                                                 *)

(* A deadline in whole seconds, compared in whole seconds, is passed more  *)
(* than LeaseSeconds - 1 seconds after the lease.                          *)
LEMMA SecondBounds ==
    ASSUME NEW t \in Nat
    PROVE  /\ Second(t) * TicksPerSecond <= t
           /\ t < (Second(t) + 1) * TicksPerSecond
<1> DEFINE n == TicksPerSecond
<1>1. n \in Nat /\ n > 0
    BY ConfigAssumption
<1>2. t = n * (t \div n) + (t % n) /\ t % n \in 0..(n - 1) /\ t \div n \in Nat
    BY <1>1
<1> QED  BY <1>1, <1>2 DEF Second

LEMMA WholeSecondsApart ==
    ASSUME NEW a \in Nat, NEW b \in Nat, Second(b) >= Second(a) + LeaseSeconds
    PROVE  b - a > (LeaseSeconds - 1) * TicksPerSecond
<1> DEFINE n == TicksPerSecond
           l == LeaseSeconds
           p == Second(a)
           q == Second(b)
<1>1. n \in Nat /\ n > 0 /\ l \in Nat /\ p \in Nat /\ q \in Nat /\ q >= p + l
    BY ConfigAssumption, SecondType
<1>2. q * n <= b /\ a < (p + 1) * n
    BY SecondBounds
<1> HIDE DEF n, l, p, q
<1>3. q * n >= (p + l) * n
    BY <1>1
<1>4. (p + l) * n - (p + 1) * n = (l - 1) * n
    BY <1>1
<1> QED  BY <1>1, <1>2, <1>3, <1>4 DEF n, l, p, q

LEMMA SecondMonotone ==
    ASSUME NEW t \in Nat
    PROVE  Second(t + 1) >= Second(t)
  BY ConfigAssumption DEF Second

LeaseAge(r) ==
    /\ r.attempt # Never => r.attempt <= now
    /\ r.state = "leased" =>
          r.attempt # Never /\ r.lease = Second(r.attempt) + LeaseSeconds
    /\ r.state = "queued" /\ r.attempt # Never =>
          Second(now) >= Second(r.attempt) + LeaseSeconds

LeaseInv == \A r \in queue : LeaseAge(r)

(* What one delivery does to the lease of a row.                           *)
LEMMA RowStepLease ==
    ASSUME now \in Nat, NEW r \in Row, NEW q \in Row, RowStep(r, q), LeaseAge(r)
    PROVE  /\ LeaseAge(q)
           /\ q.attempt # r.attempt /\ r.attempt # Never =>
                 q.attempt - r.attempt > (LeaseSeconds - 1) * TicksPerSecond
<1>1. Second(now) \in Int /\ LeaseSeconds \in Int /\ Never \notin Nat
    BY SecondType, ConfigAssumption DEF Never
<1>2. CASE q = r
    BY <1>2
<1>3. CASE r.state = "leased" /\ Expired(r) /\ q = Requeue(r)
  <2>1. q.state = "queued" /\ q.attempt = r.attempt
    BY <1>3 DEF Requeue, Row
  <2>2. Second(now) >= Second(r.attempt) + LeaseSeconds /\ r.attempt <= now
    BY <1>3 DEF LeaseAge, Expired
  <2> QED  BY <2>1, <2>2 DEF LeaseAge
<1>4. CASE Leasable(r) /\ q = Leased(r)
  <2>1. q.state = "leased" /\ q.attempt = now /\ q.lease = Second(now) + LeaseSeconds
    BY <1>4, LeasedType DEF LeaseDeadline
  <2>2. LeaseAge(q)
    BY <1>1, <2>1 DEF LeaseAge
  <2>3. ASSUME r.attempt # Never
        PROVE  now - r.attempt > (LeaseSeconds - 1) * TicksPerSecond
    <3>1. r.attempt \in Nat
      BY <2>3 DEF Row
    <3>2. Second(now) >= Second(r.attempt) + LeaseSeconds
      BY <1>4, <2>3 DEF Leasable, LeaseAge, Expired
    <3> QED  BY <3>1, <3>2, WholeSecondsApart
  <2> QED  BY <2>1, <2>2, <2>3
<1> QED  BY <1>2, <1>3, <1>4 DEF RowStep

LEMMA InitLeaseInv == Init => LeaseInv
  BY DEF Init, LeaseInv

(* Every step keeps LeaseInv and leases no row before its time.            *)
LEMMA NextLease ==
    ASSUME IInv, IInv', LeaseInv, [Next]_vars
    PROVE  LeaseInv' /\ ReleasedAfter((LeaseSeconds - 1) * TicksPerSecond)
<1>0. /\ TypeOK /\ queue \subseteq Row /\ now \in Nat
      /\ \A r, s \in queue : r.env = s.env => r = s
      /\ \A r, s \in queue' : r.env = s.env => r = s
    BY ConfigAssumption DEF IInv, TypeOK, RowsUnique, SameId
<1>a. ASSUME UNCHANGED now,
             \A q \in queue' : \/ q \in queue
                               \/ q.attempt = Never /\ q.state # "leased"
                               \/ \E r \in queue : q = Quarantined(r)
      PROVE  LeaseInv'
  <2>1. \A r \in Row : /\ Quarantined(r).attempt = r.attempt
                       /\ Quarantined(r).state = "rejected"
    BY DEF Quarantined, Row
  <2>2. ASSUME NEW q \in queue'
        PROVE  LeaseAge(q)'
    BY <1>0, <1>a, <2>1, <2>2 DEF LeaseInv, LeaseAge
  <2> QED  BY <2>2 DEF LeaseInv
<1>b. ASSUME \A r \in queue, q \in queue' :
                 r.env = q.env => q.attempt = r.attempt
      PROVE  ReleasedAfter((LeaseSeconds - 1) * TicksPerSecond)
    BY <1>b DEF ReleasedAfter
<1>c. ASSUME DeliveryStep
      PROVE  LeaseInv' /\ ReleasedAfter((LeaseSeconds - 1) * TicksPerSecond)
  <2>1. PICK f \in [queue -> Row] :
            /\ queue' = {f[r] : r \in queue}
            /\ \A r \in queue : RowStep(r, f[r])
    BY <1>c DEF DeliveryStep
  <2>2. ASSUME NEW r \in queue
        PROVE  /\ f[r].env = r.env
               /\ LeaseAge(f[r])
               /\ f[r].attempt # r.attempt /\ r.attempt # Never =>
                     f[r].attempt - r.attempt > (LeaseSeconds - 1) * TicksPerSecond
    BY <1>0, <2>1, RowStepKeeps, RowStepLease DEF LeaseInv
  <2>3. now' = now
    BY <1>c DEF DeliveryStep
  <2>4. LeaseInv'
    BY <2>1, <2>2, <2>3 DEF LeaseInv, LeaseAge
  <2>5. ASSUME NEW r \in queue, NEW q \in queue', r.env = q.env
        PROVE  q = f[r]
    BY <1>0, <2>1, <2>2, <2>5
  <2> QED  BY <2>2, <2>4, <2>5 DEF ReleasedAfter
<1>1. ASSUME NEW e \in Envelope, Submit(e)
      PROVE  UNCHANGED <<now, queue>>
    BY <1>1 DEF Submit, RefuseUnready, RefuseDuplicate, AnswerAlreadyQueued,
                Remember, dbVars
<1>2. CASE Enqueue
  <2>1. now' = now /\ (queue' = queue \/ queue' = queue \cup {NewRow(accepting)})
    BY <1>2 DEF Enqueue
  <2>2. NewRow(accepting).attempt = Never /\ NewRow(accepting).state = "queued"
    BY DEF NewRow
  <2>3. LeaseInv'
    BY <1>a, <2>1, <2>2
  <2>4. ReleasedAfter((LeaseSeconds - 1) * TicksPerSecond)
    BY <1>0, <1>b, <2>1
  <2> QED  BY <2>3, <2>4
<1>3. ASSUME NEW c \in Conn, NEW cl \in Hosted, Connect(c, cl)
      PROVE  UNCHANGED <<now, queue>>
    BY <1>3 DEF Connect, dbVars
<1>4. ASSUME NEW c \in Conn, Disconnect(c)
      PROVE  UNCHANGED <<now, queue>>
    BY <1>4 DEF Disconnect, dbVars
<1>5. ASSUME NEW c \in Conn, Deliver(c) \/ DeliverNext(c)
      PROVE  DeliveryStep
    BY <1>0, <1>5, DeliverIsDelivery, DeliverNextIsDelivery
<1>6. ASSUME NEW c \in Conn, NEW m \in MessageId, Ack(c, m) \/ Reject(c, m)
      PROVE  LeaseInv' /\ ReleasedAfter((LeaseSeconds - 1) * TicksPerSecond)
  <2> DEFINE hit == ActiveFor(owner[c], m)
  <2>1. now' = now /\ \A q \in queue' : q \in queue \/ \E r \in hit : q = Quarantined(r)
    BY <1>6 DEF Ack, Reject
  <2>2. hit \subseteq queue
    BY DEF ActiveFor, RowsFor, RowsOf
  <2>3. \A r \in Row : /\ Quarantined(r).attempt = r.attempt
                       /\ Quarantined(r).env = r.env
    BY DEF Quarantined, Row
  <2>4. LeaseInv'
    BY <1>a, <2>1, <2>2
  <2>5. ReleasedAfter((LeaseSeconds - 1) * TicksPerSecond)
    BY <1>0, <1>b, <2>1, <2>2, <2>3
  <2> QED  BY <2>4, <2>5
<1>7. CASE Crash
    BY <1>0, <1>7, <1>a, <1>b DEF Crash, dbVars
<1>8. CASE Tick
  <2>1. now' = now + 1 /\ queue' = queue
    BY <1>8 DEF Tick, dbVars
  <2>2. Second(now + 1) >= Second(now) /\ Second(now) \in Nat /\ Second(now + 1) \in Nat
    BY <1>0, SecondMonotone, SecondType
  <2>3. ASSUME NEW r \in queue
        PROVE  LeaseAge(r)'
    <3>1. LeaseAge(r) /\ r \in Row
      BY <1>0 DEF LeaseInv
    <3>2. r.attempt # Never => r.attempt \in Nat
      BY <3>1 DEF Row
    <3>3. r.attempt # Never => Second(r.attempt) \in Nat
      BY <3>2, SecondType
    <3>4. LeaseSeconds \in Nat
      BY ConfigAssumption
    <3>5. Second(now)' = Second(now + 1)
      BY <2>1 DEF Second
    <3> QED  BY <1>0, <2>1, <2>2, <3>1, <3>2, <3>3, <3>4, <3>5 DEF LeaseAge
  <2> QED  BY <1>0, <1>b, <2>1, <2>3 DEF LeaseInv
<1>9. CASE UNCHANGED vars
    BY <1>0, <1>9, <1>a, <1>b DEF vars
<1>10. ASSUME UNCHANGED <<now, queue>>
       PROVE  LeaseInv' /\ ReleasedAfter((LeaseSeconds - 1) * TicksPerSecond)
    BY <1>0, <1>10, <1>a, <1>b
<1> QED
    BY <1>c, <1>1, <1>2, <1>3, <1>4, <1>5, <1>6, <1>7, <1>8, <1>9, <1>10
    DEF Next, Handler

(* A message under lease is not handed out again for more than             *)
(* LeaseSeconds - 1 seconds, on whatever connection.                       *)
THEOREM LeaseHolds == Spec => LeaseHoldsAlmost
<1>1. IInv /\ LeaseInv /\ [Next]_vars => IInv' /\ LeaseInv'
    BY NextIInv, NextLease
<1>2. IInv /\ LeaseInv /\ [Next]_vars =>
          [ReleasedAfter((LeaseSeconds - 1) * TicksPerSecond)]_vars
    BY NextIInv, NextLease
<1> QED  BY <1>1, <1>2, InitIInv, InitLeaseInv, PTL DEF Spec, LeaseHoldsAlmost

=============================================================================
