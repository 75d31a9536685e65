------------------------------- MODULE Inbox -------------------------------
(***************************************************************************)
(* A client receiving its mail: EndpointClient.receive_messages in         *)
(* src/endpoint/client_core.py, talking over a WebSocket to the inbox      *)
(* handlers of Mailbox.  Every connection slot is one call of              *)
(* receive_messages; two slots of one client are two calls (two processes) *)
(* that share the client's state directory.  Senders submit and repeat     *)
(* what they like, as in Mailbox; the mail is that of one client.          *)
(***************************************************************************)
EXTENDS Mailbox, Sequences, FiniteSets

CONSTANTS
    Limit,             \* receive_messages(limit)
    Me,                \* the key of the receiving client
    Key, Route, Text,  \* the keys, routes and bodies of sealed messages
    Parts              \* what each envelope carries, and its content object

Seal == INSTANCE Sealing WITH Id <- MessageId, Body <- Text

(* The envelopes that process_envelope cannot decrypt or verify.           *)
Poison ==
    {e \in Envelope : ~ Seal!Accepts(Me, Parts[e].envelope, Parts[e].object)}

ASSUME InboxAssumption ==
    /\ \A e, f \in Envelope : e.to = f.to
    /\ Limit \in Nat \ {0}

(* The parts were put together by anyone, but no signature is forged.      *)
ASSUME PartsAssumption ==
    /\ Me \in Key
    /\ Parts \in [Envelope -> [envelope : Seal!SealedEnvelope, object : Seal!Object]]
    /\ \A e \in Envelope : /\ Seal!Authentic(Parts[e].envelope)
                           /\ Parts[e].envelope.outer.id = e.id

VARIABLES
    toClient,   \* frames under way to the client, in order, per connection
    toServer,   \* frames under way to the server
    at,         \* where each call of receive_messages is
    cur,        \* the envelope it is working on
    deferred,   \* deferred_frames
    got,        \* the messages it will return
    processed,  \* processed_messages.json
    surfaced,   \* history: how often each message was returned to a caller
    acked       \* history: the envelopes taken off the queue by an ack

wireVars   == <<toClient, toServer>>
callVars   == <<at, cur, deferred, got>>
clientVars == <<at, cur, deferred, got, processed, surfaced>>
allVars    == <<vars, wireVars, clientVars, acked>>

Message(e) == [type |-> "message", envelope |-> e]
Result(type, m, ok) == [type |-> type, id |-> m, ok |-> ok]
Settle(type, m) == [type |-> type, id |-> m]

-----------------------------------------------------------------------------
(* The server's side: Mailbox's handlers, now with their frames.           *)

Sender ==
    /\ Enqueue \/ \E e \in Envelope : Submit(e)
    /\ UNCHANGED <<wireVars, clientVars, acked>>

(* The envelope a delivery step has just leased, if it leased one.         *)
Handed == {q.env : q \in {r \in queue' \ queue : r.state = "leased"}}

ServerDeliver(c) ==
    /\ Deliver(c) \/ DeliverNext(c)
    /\ \/ Handed = {} /\ UNCHANGED toClient
       \/ \E e \in Handed :
             toClient' = [toClient EXCEPT ![c] = Append(@, Message(e))]
    /\ UNCHANGED <<toServer, clientVars, acked>>

(* An ack or reject frame is read and settled, and the result sent.        *)
ServerSettle(c) ==
    /\ toServer[c] # <<>>
    /\ LET f   == Head(toServer[c])
           hit == {r.env : r \in ActiveFor(owner[c], f.id)}
       IN  /\ \/ /\ f.type = "ack"
                 /\ Ack(c, f.id)
                 /\ acked' = acked \cup hit
              \/ /\ f.type = "reject"
                 /\ Reject(c, f.id)
                 /\ UNCHANGED acked
           /\ toClient' = [toClient EXCEPT ![c] =
                              Append(@, Result(f.type, f.id, hit # {}))]
    /\ toServer' = [toServer EXCEPT ![c] = Tail(@)]
    /\ UNCHANGED clientVars

ServerClose(c) ==
    /\ Disconnect(c)
    /\ UNCHANGED <<wireVars, clientVars, acked>>

ServerCrash ==
    /\ Crash
    /\ UNCHANGED <<wireVars, clientVars, acked>>

-----------------------------------------------------------------------------
(* The client's side.                                                      *)

(* receive_messages opens its connection.                                  *)
Start(c) ==
    /\ at[c] = "out"
    /\ \E cl \in Hosted : Connect(c, cl)
    /\ at' = [at EXCEPT ![c] = "reading"]
    /\ toClient' = [toClient EXCEPT ![c] = <<>>]
    /\ toServer' = [toServer EXCEPT ![c] = <<>>]
    /\ UNCHANGED <<cur, deferred, got, processed, surfaced, acked>>

(* The next frame comes from deferred_frames, or else from the wire.       *)
TakeFrame(c, f) ==
    \/ /\ deferred[c] # <<>>
       /\ f = Head(deferred[c])
       /\ deferred' = [deferred EXCEPT ![c] = Tail(@)]
       /\ UNCHANGED toClient
    \/ /\ deferred[c] = <<>>
       /\ toClient[c] # <<>>
       /\ f = Head(toClient[c])
       /\ toClient' = [toClient EXCEPT ![c] = Tail(@)]
       /\ UNCHANGED deferred

NextFrames(c) ==
    {Head(s) : s \in {deferred[c], toClient[c]} \ {<<>>}}

(* The main loop: a message is taken up, any other frame is ignored.       *)
Read(c) ==
    /\ at[c] = "reading"
    /\ Cardinality(got[c]) < Limit
    /\ \E f \in NextFrames(c) :
          /\ TakeFrame(c, f)
          /\ IF f.type = "message"
             THEN /\ cur' = [cur EXCEPT ![c] = f.envelope]
                  /\ at' = [at EXCEPT ![c] = "fetching"]
             ELSE UNCHANGED <<cur, at>>
    /\ UNCHANGED <<vars, toServer, got, processed, surfaced, acked>>

(* Variation: the call waits for a result type that no server sends.       *)
SendSettleWaiting(c, type) ==
    /\ toServer' = [toServer EXCEPT ![c] = Append(@, Settle(type, cur[c].id))]
    /\ at' = [at EXCEPT ![c] = "result"]

SendSettle(c, type) ==
    /\ toServer' = [toServer EXCEPT ![c] = Append(@, Settle(type, cur[c].id))]
    /\ at' = [at EXCEPT ![c] = type]

(* process_envelope: not processed before, decrypted, signed as claimed.    *)
(* It may remember the sender's route and key, which no mail depends on.   *)
Accepts(e) == e.id \notin processed /\ e \notin Poison

(* _fetch_content_object: the GET fails for whatever reason, the connection *)
(* or the server among them.                                               *)
MayFailToFetch(e) == e.kind = "reference"

(* Variation: the message is marked as processed along with the ack.       *)
SendAckMarking(c) ==
    /\ at[c] = "fetching"
    /\ Accepts(cur[c])
    /\ SendSettle(c, "ack")
    /\ processed' = processed \cup {cur[c].id}
    /\ UNCHANGED <<vars, toClient, cur, deferred, got, surfaced, acked>>

(* The content was fetched and process_envelope accepted the envelope.     *)
SendAck(c) ==
    /\ at[c] = "fetching"
    /\ Accepts(cur[c])
    /\ SendSettle(c, "ack")
    /\ UNCHANGED <<vars, toClient, cur, deferred, got, processed, surfaced, acked>>

(* It was not, or process_envelope raised: every EndpointError rejects.    *)
SendReject(c) ==
    /\ at[c] = "fetching"
    /\ MayFailToFetch(cur[c]) \/ ~ Accepts(cur[c])
    /\ SendSettle(c, "reject")
    /\ UNCHANGED <<vars, toClient, cur, deferred, got, processed, surfaced, acked>>

(* Variation: frames other than the result are thrown away.                *)
DeferNothing(c) ==
    /\ at[c] \in {"ack", "reject"}
    /\ toClient[c] # <<>>
    /\ LET f == Head(toClient[c]) IN ~ (f.type = at[c] /\ f.id = cur[c].id)
    /\ toClient' = [toClient EXCEPT ![c] = Tail(@)]
    /\ UNCHANGED <<vars, toServer, at, cur, deferred, got, processed, surfaced, acked>>

(* _wait_for_wss_result: other frames are put aside.                       *)
Defer(c) ==
    /\ at[c] \in {"ack", "reject"}
    /\ toClient[c] # <<>>
    /\ LET f == Head(toClient[c])
       IN  /\ ~ (f.type = at[c] /\ f.id = cur[c].id)
           /\ deferred' = [deferred EXCEPT ![c] = Append(@, f)]
    /\ toClient' = [toClient EXCEPT ![c] = Tail(@)]
    /\ UNCHANGED <<vars, toServer, at, cur, got, processed, surfaced, acked>>

(* Variation: the status of the ack_result is not looked at.               *)
TakeAnyResult(c) ==
    /\ at[c] \in {"ack", "reject"}
    /\ toClient[c] # <<>>
    /\ LET f == Head(toClient[c])
       IN  /\ f.type = at[c]
           /\ f.id = cur[c].id
           /\ IF f.type = "ack"
              THEN /\ processed' = processed \cup {cur[c].id}
                   /\ got' = [got EXCEPT ![c] = @ \cup {cur[c]}]
              ELSE UNCHANGED <<processed, got>>
    /\ toClient' = [toClient EXCEPT ![c] = Tail(@)]
    /\ at' = [at EXCEPT ![c] = "reading"]
    /\ cur' = [cur EXCEPT ![c] = Null]
    /\ UNCHANGED <<vars, toServer, deferred, surfaced, acked>>

(* The result: a message counts as received only if its ack was accepted.  *)
TakeResult(c) ==
    /\ at[c] \in {"ack", "reject"}
    /\ toClient[c] # <<>>
    /\ LET f == Head(toClient[c])
       IN  /\ f.type = at[c]
           /\ f.id = cur[c].id
           /\ IF f.type = "ack" /\ f.ok
              THEN /\ processed' = processed \cup {cur[c].id}
                   /\ got' = [got EXCEPT ![c] = @ \cup {cur[c]}]
              ELSE UNCHANGED <<processed, got>>
    /\ toClient' = [toClient EXCEPT ![c] = Tail(@)]
    /\ at' = [at EXCEPT ![c] = "reading"]
    /\ cur' = [cur EXCEPT ![c] = Null]
    /\ UNCHANGED <<vars, toServer, deferred, surfaced, acked>>

Leave(c) ==
    /\ at' = [at EXCEPT ![c] = "out"]
    /\ cur' = [cur EXCEPT ![c] = Null]
    /\ deferred' = [deferred EXCEPT ![c] = <<>>]
    /\ got' = [got EXCEPT ![c] = {}]

(* The limit is reached or the deadline has passed, also while a result is *)
(* awaited: the messages are returned.                                     *)
Return(c) ==
    /\ at[c] \in {"reading", "ack", "reject"}
    /\ Leave(c)
    /\ surfaced' = [e \in Envelope |-> surfaced[e] + IF e \in got[c] THEN 1 ELSE 0]
    /\ UNCHANGED <<vars, wireVars, processed, acked>>

(* The connection is lost, which raises out of receive_messages, or the    *)
(* client dies: nothing is returned.  What it sent may be lost with it.    *)
Fail(c) ==
    /\ at[c] # "out"
    /\ Leave(c)
    /\ toServer' \in {toServer, [toServer EXCEPT ![c] = <<>>]}
    /\ UNCHANGED <<vars, toClient, processed, surfaced, acked>>

-----------------------------------------------------------------------------

ClockTick ==
    /\ Tick
    /\ UNCHANGED <<wireVars, clientVars, acked>>

InboxInit ==
    /\ Init
    /\ toClient = [c \in Conn |-> <<>>]
    /\ toServer = [c \in Conn |-> <<>>]
    /\ at = [c \in Conn |-> "out"]
    /\ cur = [c \in Conn |-> Null]
    /\ deferred = [c \in Conn |-> <<>>]
    /\ got = [c \in Conn |-> {}]
    /\ processed = {}
    /\ surfaced = [e \in Envelope |-> 0]
    /\ acked = {}

Client(c) ==
    Read(c) \/ SendAck(c) \/ SendReject(c) \/ Defer(c) \/ TakeResult(c)

Server(c) == ServerDeliver(c) \/ ServerSettle(c)

InboxNext ==
    \/ Sender
    \/ \E c \in Conn : \/ Start(c)
                       \/ Client(c)
                       \/ Return(c)
                       \/ Fail(c)
                       \/ Server(c)
                       \/ ServerClose(c)
    \/ ServerCrash
    \/ ClockTick

InboxSpec == InboxInit /\ [][InboxNext]_allVars

(* A call that is given all the time it needs, over a connection that      *)
(* holds: both ends keep working on what they have received.               *)
PatientNext ==
    \/ Sender
    \/ \E c \in Conn : Start(c) \/ Client(c) \/ Server(c)
    \/ ClockTick

PatientSpec ==
    /\ InboxInit
    /\ [][PatientNext]_allVars
    /\ WF_allVars(Sender /\ Enqueue)
    /\ \A c \in Conn : /\ WF_allVars(Start(c))
                       /\ WF_allVars(Client(c))
                       /\ WF_allVars(ServerDeliver(c))
                       /\ WF_allVars(ServerSettle(c))

-----------------------------------------------------------------------------
(* Correctness.                                                            *)

FrameToServer == [type : {"ack", "reject"}, id : MessageId]
FrameToClient == [type : {"message"}, envelope : Envelope]
                    \cup [type : {"ack", "reject"}, id : MessageId, ok : BOOLEAN]

(* Every variable has its type.                                            *)
InboxTypeOK ==
    /\ TypeOK
    /\ toClient \in [Conn -> Seq(FrameToClient)]
    /\ toServer \in [Conn -> Seq(FrameToServer)]
    /\ at \in [Conn -> {"out", "reading", "fetching", "ack", "reject"}]
    /\ cur \in [Conn -> Envelope \cup {Null}]
    /\ deferred \in [Conn -> Seq(FrameToClient)]
    /\ got \in [Conn -> SUBSET Envelope]
    /\ processed \subseteq MessageId
    /\ surfaced \in [Envelope -> Nat]
    /\ acked \subseteq done

Copies(e) == surfaced[e] + Cardinality({c \in Conn : e \in got[c]})

(* However leases, connections and calls overlap, and whatever senders     *)
(* repeat, a message_id reaches the user at most once: of all the calls    *)
(* that were handed the message, only the one whose ack found the row on   *)
(* the queue returns it.                                                   *)
SurfacedOnce ==
    \A e, f \in Envelope :
        e.id = f.id /\ Copies(e) > 0 => Copies(e) = 1 /\ (e # f => Copies(f) = 0)

(* What has reached the user, or is about to, is off the queue for good.   *)
SurfacedIsAcked == \A e \in Envelope : Copies(e) > 0 => e \in acked

(* Whatever reaches the user was made by one client, as one message, for   *)
(* this user: process_envelope notices parts that do not belong together,  *)
(* however the message came in.                                            *)
SurfacedIsGenuine ==
    \A e \in Envelope :
        Copies(e) > 0 => Seal!Genuine(Me, Parts[e].envelope, Parts[e].object)

(* processed_messages.json only lists messages whose ack was accepted, so  *)
(* a message still on the queue is never turned down as a duplicate.       *)
ProcessedIsAcked ==
    \A m \in processed : /\ \E e \in acked : e.id = m
                         /\ \A r \in queue : r.env.id # m

(* An ack_result that lets a call count the message as received, among the *)
(* frames that are under way to it.                                        *)
Grants(f, e) == f.type = "ack" /\ f.ok /\ f.id = e.id
Has(s, e)    == \E i \in 1..Len(s) : Grants(s[i], e)

Holds(c, e) == e \in got[c] \/ Has(toClient[c], e)

Promised == {e \in Envelope : <<e, "queued">> \in told}
Waiting  == {r.env : r \in {q \in queue : Active(q)}}
Granted  == {e \in acked : \E c \in Conn : Holds(c, e)}

Refusable(e) == e \in Poison \/ MayFailToFetch(e)

(* Server and client together are the channel that Delivery describes: a   *)
(* message waits from the answer "queued" until its ack or reject is       *)
(* settled; an accepted ack grants it to the call that hears of it; a      *)
(* message that is sound and inline leaves the mailbox in no other way.    *)
Channel == INSTANCE Delivery
             WITH Mail      <- Envelope,
                  Unsound   <- Poison,
                  Droppable <- {e \in Envelope : Refusable(e)},
                  promised  <- Promised,
                  waiting   <- Waiting,
                  granted   <- Granted,
                  given     <- surfaced

IsDelivery == Channel!Spec

(* A message acknowledged as received was, or will be, returned to a       *)
(* caller: some call still holds it, or waits for the result of its ack.   *)
AckedIsSurfaced ==
    \A e \in acked :
        Copies(e) > 0 \/ \E c \in Conn : at[c] = "ack" /\ cur[c] = e

(* One poisoned message does not hold up the others, and frames that come  *)
(* while a result is awaited are not lost: every message leaves the queue.  *)
MailboxDrains == \A e \in Envelope : OnQueue(e) ~> ~ OnQueue(e)

=============================================================================
