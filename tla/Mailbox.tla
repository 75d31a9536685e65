------------------------------ MODULE Mailbox ------------------------------
(***************************************************************************)
(* The server's mailbox: how one endpoint server accepts envelopes for     *)
(* the clients it hosts, hands them to the clients' inbox connections      *)
(* under leases, and forgets them when they are acknowledged or rejected.  *)
(*                                                                         *)
(* Code: ServerState.accept_envelope_for_local and websocket_inbox in      *)
(* src/endpoint/server_core.py, MessageQueue and ReplayStore in            *)
(* src/endpoint/storage.py.                                                *)
(*                                                                         *)
(* Scheduling.  The server is one asyncio process, so the handlers take    *)
(* turns and give way only at an await: each action below is the code      *)
(* between two awaits.  Every call of MessageQueue and ReplayStore is a    *)
(* SQLite transaction of its own, so a crash may fall between two of them; *)
(* where that leaves a different database behind, the code between the two *)
(* awaits is split in two actions and `accepting' keeps the other handlers *)
(* out in between.                                                         *)
(***************************************************************************)
EXTENDS Integers

CONSTANTS
    Hosted,          \* the client_refs this server hosts
    Recipient,       \* the client_refs senders write to: Hosted and others
    MessageId,       \* message_ids, numbered in their lexicographic order
    Body,            \* everything else an envelope's digest covers
    Envelope,        \* the envelopes that senders submit
    Conn,            \* slots for WebSocket connections to the inboxes
    RejectedPolicy,  \* ServerConfig.rejected_policy
    TicksPerSecond,  \* clock resolution of the model
    LeaseSeconds,    \* ServerConfig.lease_seconds
    MaxTime,         \* bound: the clock stops after this tick
    MaxCrashes,      \* bound: how often the server process dies
    Null             \* SQL NULL, and "no envelope in hand"

Kind == {"inline", "reference"}

ASSUME EnvelopeAssumption ==
    /\ Envelope \subseteq [to : Recipient, id : MessageId, kind : Kind, body : Body]
    /\ Hosted \subseteq Recipient
    /\ MessageId \subseteq Int
    /\ Null \notin Body
    /\ Null \notin Envelope

ASSUME ConfigAssumption ==
    /\ RejectedPolicy \in {"drop", "quarantine"}
    /\ TicksPerSecond \in Nat \ {0}
    /\ LeaseSeconds \in Nat \ {0}
    /\ MaxTime \in Nat
    /\ MaxCrashes \in Nat

Never == -1   \* last_attempt_at of a row that has not been leased yet

VARIABLES
    now,        \* the server's clock, in ticks
    queue,      \* table queue_messages: a set of rows
    replay,     \* table replay_messages: a set of rows
    accepting,  \* the envelope between its replay and its queue transaction
    pc,         \* where each inbox handler is in its loop
    owner,      \* the client each connection authenticated as
    batch,      \* what is left of the snapshot each handler is delivering
    crashes,    \* how often the process has died
    told,       \* history: the answers senders were given
    shown,      \* history: the envelopes handed to a connection
    done        \* history: the envelopes taken off a queue by a client

dbVars   == <<queue, replay>>
connVars == <<pc, owner, batch>>
vars     == <<now, queue, replay, accepting, pc, owner, batch, crashes,
              told, shown, done>>

Status == {"queued", "already_queued", "refused"}

(* One row of queue_messages.  `attempt' is last_attempt_at, kept here to  *)
(* the tick; the column itself is cut to the second and never read back.   *)
(* delivery_attempts, which nothing reads either, is left out.             *)
Row == [ env     : Envelope,
         state   : {"queued", "leased", "rejected"},
         lease   : Int \cup {Null},
         attempt : Nat \cup {Never},
         created : Nat ]

ReplayRow == [to : Hosted, id : MessageId, digest : Body \cup {Null}]

-----------------------------------------------------------------------------
(* Time: now_iso() and the lease deadline are both cut to whole seconds.   *)

Second(t) == t \div TicksPerSecond

(* Variation: the deadline is the time of the lease.                       *)
LeaseDeadlineNow == Second(now)

LeaseDeadline == Second(now) + LeaseSeconds

Expired(r) == r.lease # Null /\ r.lease <= Second(now)

(* The rows of a client's mailbox, and those a client can still settle.    *)
RowsOf(cl)        == {r \in queue : r.env.to = cl}
Active(r)         == r.state \in {"queued", "leased"}
RowsFor(cl, m)    == {r \in RowsOf(cl) : r.env.id = m}
ActiveFor(cl, m)  == {r \in RowsFor(cl, m) : Active(r)}

(* ORDER BY created_at ASC, message_id ASC *)
Before(r, s) ==
    \/ r.created < s.created
    \/ r.created = s.created /\ r.env.id < s.env.id

Earliest(S) == {r \in S : \A s \in S : ~ Before(s, r)}

-----------------------------------------------------------------------------
(* Accepting an envelope.                                                  *)

(* What the replay table stores: the digest of a reference delivery, and   *)
(* nothing for an inline one.                                              *)
Digest(e) == IF e.kind = "reference" THEN e.body ELSE Null

(* Variation: the digest is part of the key.                               *)
ReplayOfDigest(e) ==
    {p \in replay : p.to = e.to /\ p.id = e.id /\ p.digest = Digest(e)}

ReplayOf(e) == {p \in replay : p.to = e.to /\ p.id = e.id}

Answer(e, status) == told' = told \cup {<<e, status>>}

(* The recipient is not hosted here, or the content a reference delivery   *)
(* names is expired, missing or different (ContentStore decides which; any *)
(* of them can be the case here).                                          *)
RefuseUnready(e) ==
    /\ accepting = Null
    /\ e.to \notin Hosted \/ e.kind = "reference"
    /\ Answer(e, "refused")
    /\ UNCHANGED <<now, dbVars, accepting, connVars, crashes, shown, done>>

(* ReplayStore.remember finds the message_id of an inline envelope, or     *)
(* remember_delivery finds it with another digest: 409.                    *)
RefuseDuplicate(e) ==
    /\ accepting = Null
    /\ e.to \in Hosted
    /\ \E p \in ReplayOf(e) : e.kind = "inline" \/ p.digest # Digest(e)
    /\ Answer(e, "refused")
    /\ UNCHANGED <<now, dbVars, accepting, connVars, crashes, shown, done>>

(* remember_delivery finds the message_id with the same digest.            *)
AnswerAlreadyQueued(e) ==
    /\ accepting = Null
    /\ e.to \in Hosted
    /\ e.kind = "reference"
    /\ \E p \in ReplayOf(e) : p.digest = Digest(e)
    /\ Answer(e, "already_queued")
    /\ UNCHANGED <<now, dbVars, accepting, connVars, crashes, shown, done>>

(* Variation: the first transaction leaves no trace.                       *)
RememberNothing(e) ==
    /\ accepting = Null
    /\ e.to \in Hosted
    /\ ReplayOf(e) = {}
    /\ accepting' = e
    /\ UNCHANGED <<now, dbVars, connVars, crashes, told, shown, done>>

(* The first transaction: the message_id is new and is remembered.         *)
Remember(e) ==
    /\ accepting = Null
    /\ e.to \in Hosted
    /\ ReplayOf(e) = {}
    /\ replay' = replay \cup {[to |-> e.to, id |-> e.id, digest |-> Digest(e)]}
    /\ accepting' = e
    /\ UNCHANGED <<now, queue, connVars, crashes, told, shown, done>>

(* Variation: a state the column's CHECK does not list.                    *)
NewRowAsNew(e) == [env |-> e, state |-> "new", lease |-> Null,
                   attempt |-> Never, created |-> Second(now)]

NewRow(e) == [env |-> e, state |-> "queued", lease |-> Null,
              attempt |-> Never, created |-> Second(now)]

(* The second transaction: MessageQueue.add, whose INSERT fails on the     *)
(* primary key (client_ref, message_id), and the answer.                   *)
Enqueue ==
    /\ accepting # Null
    /\ LET fresh == RowsFor(accepting.to, accepting.id) = {}
       IN  /\ queue' = IF fresh THEN queue \cup {NewRow(accepting)} ELSE queue
           /\ Answer(accepting, IF fresh THEN "queued" ELSE "refused")
    /\ accepting' = Null
    /\ UNCHANGED <<now, replay, connVars, crashes, shown, done>>

-----------------------------------------------------------------------------
(* The inbox handler of a connection.                                      *)

Connect(c, cl) ==
    /\ accepting = Null
    /\ pc[c] = "closed"
    /\ pc' = [pc EXCEPT ![c] = "loop"]
    /\ owner' = [owner EXCEPT ![c] = cl]
    /\ UNCHANGED <<now, dbVars, accepting, batch, crashes, told, shown, done>>

Disconnect(c) ==
    /\ accepting = Null
    /\ pc[c] # "closed"
    /\ pc' = [pc EXCEPT ![c] = "closed"]
    /\ batch' = [batch EXCEPT ![c] = {}]
    /\ UNCHANGED <<now, dbVars, accepting, owner, crashes, told, shown, done>>

(* MessageQueue.lease: the row a successful lease turns r into.            *)
Leasable(r) == r.state = "queued" \/ (r.state = "leased" /\ Expired(r))

Leased(r) == [r EXCEPT !.state = "leased", !.lease = LeaseDeadline,
                       !.attempt = now]

(* Variations: expired leases are purged; expired leases are left alone.   *)
RequeuedPurging(cl) ==
    {r \in queue : ~ (r.env.to = cl /\ r.state = "leased" /\ Expired(r))}

RequeuedNever(cl) == queue

(* MessageQueue.deliverable: the client's expired leases go back to queued *)
Requeued(cl) ==
    {IF r.env.to = cl /\ r.state = "leased" /\ Expired(r)
     THEN [r EXCEPT !.state = "queued", !.lease = Null] ELSE r : r \in queue}

QueuedIn(rows, cl) == {r \in rows : r.env.to = cl /\ r.state = "queued"}

(* Lease row r of `rows' and hand it to connection c; the handler then     *)
(* awaits the send, and still has to try `rest'.                           *)
LeaseAndSend(c, rows, r, rest) ==
    /\ queue' = (rows \ {r}) \cup {Leased(r)}
    /\ shown' = shown \cup {r.env}
    /\ batch' = [batch EXCEPT ![c] = {s.env.id : s \in {t \in rest : Before(r, t)}}]
    /\ pc' = [pc EXCEPT ![c] = "sending"]

(* The top of the loop: after the previous result was sent, or when 0.2    *)
(* seconds have passed without a frame ("receive"), take the snapshot of   *)
(* the queued rows and lease the first of them.                            *)
Deliver(c) ==
    /\ accepting = Null
    /\ pc[c] \in {"loop", "receive"}
    /\ LET rows    == Requeued(owner[c])
           waiting == QueuedIn(rows, owner[c])
       IN  \/ /\ waiting = {}
              /\ queue' = rows
              /\ pc' = [pc EXCEPT ![c] = "receive"]
              /\ UNCHANGED <<batch, shown>>
           \/ \E r \in Earliest(waiting) : LeaseAndSend(c, rows, r, waiting)
    /\ UNCHANGED <<now, replay, accepting, owner, crashes, told, done>>

(* The send returned: lease the next row of the snapshot that can still be *)
(* leased.  Others may have acknowledged, leased or rejected it meanwhile. *)
InBatch(c) == {r \in RowsOf(owner[c]) : r.env.id \in batch[c]}

DeliverNext(c) ==
    /\ accepting = Null
    /\ pc[c] = "sending"
    /\ LET left == {r \in InBatch(c) : Leasable(r)}
       IN  \/ /\ left = {}
              /\ pc' = [pc EXCEPT ![c] = "receive"]
              /\ batch' = [batch EXCEPT ![c] = {}]
              /\ UNCHANGED <<queue, shown>>
           \/ \E r \in Earliest(left) : LeaseAndSend(c, queue, r, InBatch(c))
    /\ UNCHANGED <<now, replay, accepting, owner, crashes, told, done>>

(* Variation: acknowledging also cleans the replay table.                  *)
AckForgetting(c, m) ==
    /\ accepting = Null
    /\ pc[c] = "receive"
    /\ LET hit == ActiveFor(owner[c], m)
       IN  /\ queue' = queue \ hit
           /\ done' = done \cup {r.env : r \in hit}
           /\ replay' = replay \ UNION {ReplayOf(r.env) : r \in hit}
    /\ pc' = [pc EXCEPT ![c] = "loop"]
    /\ UNCHANGED <<now, accepting, owner, batch, crashes, told, shown>>

(* MessageQueue.ack: whatever connection and lease the message is under.   *)
Ack(c, m) ==
    /\ accepting = Null
    /\ pc[c] = "receive"
    /\ LET hit == ActiveFor(owner[c], m)
       IN  /\ queue' = queue \ hit
           /\ done' = done \cup {r.env : r \in hit}
    /\ pc' = [pc EXCEPT ![c] = "loop"]
    /\ UNCHANGED <<now, replay, accepting, owner, batch, crashes, told, shown>>

(* MessageQueue.reject: the row is dropped, or kept aside as rejected.     *)
Quarantined(r) == [r EXCEPT !.state = "rejected", !.lease = Null]

Reject(c, m) ==
    /\ accepting = Null
    /\ pc[c] = "receive"
    /\ LET hit  == ActiveFor(owner[c], m)
           kept == IF RejectedPolicy = "quarantine"
                   THEN {Quarantined(r) : r \in hit} ELSE {}
       IN  /\ queue' = (queue \ hit) \cup kept
           /\ done' = done \cup {r.env : r \in hit}
    /\ pc' = [pc EXCEPT ![c] = "loop"]
    /\ UNCHANGED <<now, replay, accepting, owner, batch, crashes, told, shown>>

-----------------------------------------------------------------------------
(* The process dies, between or inside handlers, and starts again: the     *)
(* database is all that is left.  (A crash between the two transactions    *)
(* of Deliver only requeues expired rows, which any lease treats alike.)   *)
Crash ==
    /\ crashes < MaxCrashes
    /\ crashes' = crashes + 1
    /\ accepting' = Null
    /\ pc' = [c \in Conn |-> "closed"]
    /\ batch' = [c \in Conn |-> {}]
    /\ UNCHANGED <<now, dbVars, owner, told, shown, done>>

Tick ==
    /\ now < MaxTime
    /\ now' = now + 1
    /\ UNCHANGED <<dbVars, accepting, connVars, crashes, told, shown, done>>

Init ==
    /\ now = 0
    /\ queue = {}
    /\ replay = {}
    /\ accepting = Null
    /\ pc = [c \in Conn |-> "closed"]
    /\ owner \in [Conn -> Hosted]
    /\ batch = [c \in Conn |-> {}]
    /\ crashes = 0
    /\ told = {}
    /\ shown = {}
    /\ done = {}

Submit(e) ==
    \/ RefuseUnready(e)
    \/ RefuseDuplicate(e)
    \/ AnswerAlreadyQueued(e)
    \/ Remember(e)

Handler(c) ==
    \/ Deliver(c)
    \/ DeliverNext(c)
    \/ \E m \in MessageId : Ack(c, m) \/ Reject(c, m)

Next ==
    \/ \E e \in Envelope : Submit(e)
    \/ Enqueue
    \/ \E c \in Conn : \/ \E cl \in Hosted : Connect(c, cl)
                       \/ Disconnect(c)
                       \/ Handler(c)
    \/ Crash
    \/ Tick

Spec == Init /\ [][Next]_vars

(* The event loop runs every handler that is ready.                        *)
Fairness ==
    /\ WF_vars(Enqueue)
    /\ \A c \in Conn : WF_vars(Deliver(c)) /\ WF_vars(DeliverNext(c))

FairSpec == Spec /\ Fairness

-----------------------------------------------------------------------------
(* Correctness.                                                            *)

(* Every variable has its type.                                            *)
TypeOK ==
    /\ now \in 0..MaxTime
    /\ queue \subseteq Row
    /\ replay \subseteq ReplayRow
    /\ accepting \in Envelope \cup {Null}
    /\ pc \in [Conn -> {"closed", "loop", "sending", "receive"}]
    /\ owner \in [Conn -> Hosted]
    /\ batch \in [Conn -> SUBSET MessageId]
    /\ crashes \in 0..MaxCrashes
    /\ told \subseteq Envelope \X Status
    /\ shown \subseteq Envelope
    /\ done \subseteq Envelope

SameId(e, f) == e.to = f.to /\ e.id = f.id

OnQueue(e) == \E r \in queue : r.env = e

(* Envelopes the server has committed itself to in any way.                *)
Admitted == {r.env : r \in queue} \cup shown \cup done \cup ({accepting} \ {Null})

(* Whatever the server has admitted, its replay row is there and carries   *)
(* that envelope's digest, through acknowledgements, rejections and        *)
(* crashes: remember commits before add, and nothing deletes replay rows.  *)
AdmittedIsRemembered ==
    \A e \in Admitted : \E p \in ReplayOf(e) : p.digest = Digest(e)

(* A message a client has acknowledged or rejected never becomes active    *)
(* again, however often its sender retries it: the replay row outlives the *)
(* queue row that ack and reject remove.                                   *)
FinishedStaysFinished ==
    \A e \in done : ActiveFor(e.to, e.id) = {}

(* A client never gets two different envelopes under one message_id, not   *)
(* even one after the other (remember_delivery's "conflict").              *)
OneEnvelopePerMessageId ==
    \A e, f \in Admitted : SameId(e, f) => e = f

(* MessageQueue.add never meets a row with its primary key: the 409 on its *)
(* failure in accept_envelope_for_local is dead code, because the replay   *)
(* transaction before it already decided.                                  *)
EnqueueNeverCollides ==
    accepting # Null => RowsFor(accepting.to, accepting.id) = {}

(* A sender who was answered "queued" has its envelope on the queue until  *)
(* the recipient's client takes it off; crashes and expired leases do not  *)
(* lose it.                                                                *)
QueuedIsKept ==
    \A e \in Envelope : <<e, "queued">> \in told => OnQueue(e) \/ e \in done

(* The same for a sender whose retry was answered "already_queued": the    *)
(* README calls repeated identical deliveries safe retries.  It holds as   *)
(* long as the process does not die between the two transactions.          *)
AlreadyQueuedIsKept ==
    \A e \in Envelope :
        <<e, "already_queued">> \in told => OnQueue(e) \/ e \in done

(* A lease keeps every other connection from the message for more than     *)
(* lease_seconds - 1: the deadline is cut to the second, and so is the     *)
(* clock it is compared with.                                              *)
ReleasedAfter(ticks) ==
    \A r \in queue, q \in queue' :
        r.env = q.env /\ r.attempt # Never /\ q.attempt # r.attempt
            => q.attempt - r.attempt > ticks

LeaseHoldsAlmost == [][ReleasedAfter((LeaseSeconds - 1) * TicksPerSecond)]_vars

(* While one of the client's connections stays open, a message that waits  *)
(* (queued, or leased to a connection that let the lease run out) is       *)
(* handed out again.                                                       *)
Waits(e) == \E r \in queue : r.env = e /\ Leasable(r)

DeliveryProgress ==
    \A e \in Envelope, c \in Conn :
        <>[](pc[c] # "closed" /\ owner[c] = e.to) => (Waits(e) ~> ~ Waits(e))

=============================================================================
