----------------------------- MODULE Federation -----------------------------
(***************************************************************************)
(* A home server that passes the deliveries of its clients on to a peer:   *)
(* the content first, once, and then each envelope that refers to it.      *)
(*                                                                         *)
(* Code: client_messages, client_content, federation_content and           *)
(* federation_messages in src/endpoint/server_core.py, with ContentStore   *)
(* of src/endpoint/storage.py at both ends.                                *)
(*                                                                         *)
(* An action is the code between two awaits.  A post is on its way until   *)
(* the peer has answered it, which may be after the home server has        *)
(* stopped waiting.  The content stores are seen as ContentStore shows     *)
(* them: atomic.  Admission at the peer is what it is in Mailbox: two      *)
(* transactions, and the peer's process may die between them.              *)
(***************************************************************************)
EXTENDS Integers, Sequences

CONSTANTS
    Object,      \* content objects; copies of one content differ in ciphertext
    Envelope,    \* envelopes to clients of the peer
    Unknown,     \* envelopes the peer refuses for good (recipient, whitelist)
    ShortLived,  \* objects whose retention ends while the model runs
    Foreign,     \* objects that others upload to the peer
    MaxFaults,   \* bound: posts lost, answers lost or late, restarts of either
    Null         \* no content, no answer

ASSUME FederationAssumption ==
    /\ Object \subseteq [id : Nat, hash : Nat, copy : Nat]
    /\ Envelope \subseteq [id : Nat \cup {Null}, hash : Nat \cup {Null}, msg : Nat]
    /\ Null \notin Nat
    /\ Null \notin Object
    /\ Null \notin {"ok", "refused"}
    /\ MaxFaults \in Nat

VARIABLES
    store,      \* the content objects of either server
    lapsed,     \* the objects whose deadline has passed by either's clock
    uploaded,   \* history: the objects a client has put on the home server
    transfers,  \* _content_transfers
    line,       \* who holds (first) and awaits _content_transfer_lock
    pc,         \* where the request of each envelope is in client_messages
    posts,      \* the posts the peer has not answered yet
    answer,     \* the peer's answer to a request
    remembered, \* the peer: envelopes with a replay row
    queued,     \* the peer: envelopes on a mailbox, with the content checked
    cut,        \* history: envelopes the peer died over, remembered and not queued
    told,       \* history: envelopes whose sender was answered "proxied"
    faults

stores  == <<store, lapsed>>
request == <<transfers, line, pc, posts, answer>>
mailbox == <<remembered, queued, cut>>
vars    == <<stores, uploaded, request, mailbox, told, faults>>

Server == {"home", "peer"}

(* A content object, an envelope, or an envelope whose replay row the peer *)
(* has written; the object is then the content it was checked with.        *)
Kind == {"content", "envelope", "remembered"}
Post == [env : Envelope, kind : Kind, object : Object \cup {Null}, live : BOOLEAN]

(* content_id and content_sha256 of an object, and what an envelope names. *)
Key(x) == <<x.id, x.hash>>

IsReference(e) == e.id # Null

-----------------------------------------------------------------------------
(* The content store of a server.                                          *)

(* put: an object that has expired, or whose content_id is taken, is       *)
(* refused.                                                                *)
Puttable(s, o) ==
    /\ o \notin lapsed[s]
    /\ \A p \in store[s] : p.id = o.id => p = o

(* Variation: the later upload wins.                                       *)
PutReplacing(s, o) ==
    store' = [store EXCEPT ![s] = {p \in @ : p.id # o.id} \cup {o}]

Put(s, o) ==
    store' = IF Puttable(s, o) THEN [store EXCEPT ![s] = @ \cup {o}] ELSE store

IsExpired(s, id) == \E o \in store[s] \cap lapsed[s] : o.id = id

(* get, and what it deletes.                                               *)
Servable(s, id) == {o \in store[s] \ lapsed[s] : o.id = id}

DropExpired(s, id) ==
    store' = [store EXCEPT ![s] = {o \in @ : o.id = id => o \notin lapsed[s]}]

Lapse(s, o) ==
    /\ o \in ShortLived \ lapsed[s]
    /\ lapsed' = [lapsed EXCEPT ![s] = @ \cup {o}]
    /\ UNCHANGED <<store, uploaded, request, mailbox, told, faults>>

(* The peer does one thing at a time.                                      *)
PeerFree == \A p \in posts : p.kind # "remembered"

Prune(s) ==
    /\ s = "peer" => PeerFree
    /\ store[s] \cap lapsed[s] # {}
    /\ store' = [store EXCEPT ![s] = @ \ lapsed[s]]
    /\ UNCHANGED <<lapsed, uploaded, request, mailbox, told, faults>>

-----------------------------------------------------------------------------
(* The home server.                                                        *)

(* client_content *)
Upload(o) ==
    /\ Puttable("home", o)
    /\ Put("home", o)
    /\ uploaded' = uploaded \cup {o}
    /\ UNCHANGED <<lapsed, request, mailbox, told, faults>>

Goto(e, l) == pc' = [pc EXCEPT ![e] = l]

ContentPost(e, o) == [env |-> e, kind |-> "content", object |-> o, live |-> TRUE]
EnvelopePost(e) == [env |-> e, kind |-> "envelope", object |-> Null, live |-> TRUE]

Forget(e) == answer' = [answer EXCEPT ![e] = Null]

(* Variation: the lock is not given back on an error.                      *)
ReleaseNot == UNCHANGED line

Release == line' = Tail(line)

(* client_messages up to the lock.  Nothing holds a client to uploading    *)
(* the content first, or to the hash of what has that content_id here.  A  *)
(* request that is turned down, or refused by the outbound policy, changes *)
(* nothing.                                                                *)
Submit(e) ==
    /\ pc[e] = "idle"
    /\ \/ /\ ~ IsReference(e)
          /\ posts' = posts \cup {EnvelopePost(e)}
          /\ Goto(e, "posting")
          /\ UNCHANGED line
       \/ /\ IsReference(e)
          /\ ~ IsExpired("home", e.id)
          /\ line' = Append(line, e)
          /\ Goto(e, "waiting")
          /\ UNCHANGED posts
    /\ UNCHANGED <<stores, uploaded, transfers, answer, mailbox, told, faults>>

(* Variation: nobody waits for the lock.                                   *)
HasLockAlways(e) == TRUE

HasLock(e) == line # << >> /\ e = Head(line)

(* With the lock: the peer has the content already, ...                    *)
SkipTransfer(e) ==
    /\ pc[e] = "waiting"
    /\ HasLock(e)
    /\ Key(e) \in transfers
    /\ posts' = posts \cup {EnvelopePost(e)}
    /\ Release
    /\ Goto(e, "posting")
    /\ UNCHANGED <<stores, uploaded, transfers, answer, mailbox, told, faults>>

(* ... it is gone from here (it may have expired in the line), ...         *)
ContentGone(e) ==
    /\ pc[e] = "waiting"
    /\ HasLock(e)
    /\ Key(e) \notin transfers
    /\ Servable("home", e.id) = {}
    /\ DropExpired("home", e.id)
    /\ Release
    /\ Goto(e, "idle")
    /\ UNCHANGED <<lapsed, uploaded, transfers, posts, answer, mailbox, told, faults>>

(* Variation: the transfer is noted before the peer has answered.          *)
PostContentNoted(e) ==
    /\ pc[e] = "waiting"
    /\ HasLock(e)
    /\ Key(e) \notin transfers
    /\ \E o \in Servable("home", e.id) : posts' = posts \cup {ContentPost(e, o)}
    /\ transfers' = transfers \cup {Key(e)}
    /\ Goto(e, "uploading")
    /\ UNCHANGED <<stores, uploaded, line, answer, mailbox, told, faults>>

(* ... or what is stored under its content_id is posted.                   *)
PostContent(e) ==
    /\ pc[e] = "waiting"
    /\ HasLock(e)
    /\ Key(e) \notin transfers
    /\ \E o \in Servable("home", e.id) : posts' = posts \cup {ContentPost(e, o)}
    /\ Goto(e, "uploading")
    /\ UNCHANGED <<stores, uploaded, transfers, line, answer, mailbox, told, faults>>

(* Variation: any answer counts as success.                                *)
SuccessAny(e) == answer[e] # Null

Success(e) == answer[e] = "ok"

ContentDelivered(e) ==
    /\ pc[e] = "uploading"
    /\ Success(e)
    /\ transfers' = transfers \cup {Key(e)}
    /\ posts' = posts \cup {EnvelopePost(e)}
    /\ Release
    /\ Goto(e, "posting")
    /\ Forget(e)
    /\ UNCHANGED <<stores, uploaded, mailbox, told, faults>>

ContentRefused(e) ==
    /\ pc[e] = "uploading"
    /\ answer[e] = "refused"
    /\ Release
    /\ Goto(e, "idle")
    /\ Forget(e)
    /\ UNCHANGED <<stores, uploaded, transfers, posts, mailbox, told, faults>>

EnvelopeAnswered(e) ==
    /\ pc[e] = "posting"
    /\ answer[e] # Null
    /\ told' = IF Success(e) THEN told \cup {e} ELSE told
    /\ Goto(e, "idle")
    /\ Forget(e)
    /\ UNCHANGED <<stores, uploaded, transfers, line, posts, mailbox, faults>>

(* The connection fails, or the five seconds are over: because nothing     *)
(* will come any more, or too early.  The peer may still get the post.     *)
Abandoned(S) == {IF p.env \in S THEN [p EXCEPT !.live = FALSE] ELSE p : p \in posts}

GiveUp(e) ==
    /\ pc[e] \in {"uploading", "posting"}
    /\ \/ /\ answer[e] = Null
          /\ \A p \in posts : p.live => p.env # e
          /\ UNCHANGED faults
       \/ /\ faults < MaxFaults
          /\ faults' = faults + 1
    /\ posts' = Abandoned({e})
    /\ Forget(e)
    /\ Goto(e, "idle")
    /\ IF pc[e] = "uploading" THEN Release ELSE UNCHANGED line
    /\ UNCHANGED <<stores, uploaded, transfers, mailbox, told>>

(* The server process dies; what it remembers of transfers goes with it.   *)
HomeCrash ==
    /\ faults < MaxFaults
    /\ faults' = faults + 1
    /\ transfers' = {}
    /\ line' = << >>
    /\ pc' = [e \in Envelope |-> "idle"]
    /\ answer' = [e \in Envelope |-> Null]
    /\ posts' = Abandoned(Envelope)
    /\ UNCHANGED <<stores, uploaded, mailbox, told>>

-----------------------------------------------------------------------------
(* The peer.                                                               *)

Reply(p, status) ==
    answer' = IF p.live THEN [answer EXCEPT ![p.env] = status] ELSE answer

(* Variation: put's own answer is passed on.                               *)
StatusStored(accepted) == IF accepted THEN "stored" ELSE "refused"

Status(accepted) == IF accepted THEN "ok" ELSE "refused"

(* federation_content *)
PeerStores(p) ==
    /\ p \in posts /\ p.kind = "content" /\ PeerFree
    /\ Put("peer", p.object)
    /\ posts' = posts \ {p}
    /\ Reply(p, Status(Puttable("peer", p.object)))
    /\ UNCHANGED <<lapsed, uploaded, transfers, line, pc, mailbox, told, faults>>

(* federation_messages: the content that the envelope's reference checks   *)
(* out with, in accept_envelope_for_local, ...                             *)
Checked(e) ==
    IF IsReference(e)
    THEN {o \in Servable("peer", e.id) : Key(o) = Key(e) /\ ~ IsExpired("peer", e.id)}
    ELSE {Null}

(* ... and what the replay store says of its message_id.                   *)
IsNew(e) == \A f \in remembered : f.msg # e.msg

IsRepeat(e) == IsReference(e) /\ e \in remembered

Handled(p) == p \in posts /\ p.kind = "envelope" /\ PeerFree

PeerRefuses(p) ==
    /\ Handled(p)
    /\ \/ p.env \in Unknown
       \/ Checked(p.env) = {}
       \/ ~ IsNew(p.env) /\ ~ IsRepeat(p.env)
    /\ posts' = posts \ {p}
    /\ Reply(p, Status(FALSE))
    /\ UNCHANGED <<stores, uploaded, transfers, line, pc, mailbox, told, faults>>

(* "already_queued", on the strength of the replay row alone               *)
PeerRepeats(p) ==
    /\ Handled(p)
    /\ p.env \notin Unknown
    /\ Checked(p.env) # {}
    /\ IsRepeat(p.env)
    /\ posts' = posts \ {p}
    /\ Reply(p, Status(TRUE))
    /\ UNCHANGED <<stores, uploaded, transfers, line, pc, mailbox, told, faults>>

(* The replay transaction, ...                                             *)
HalfDone(p, o) == [env |-> p.env, kind |-> "remembered", object |-> o, live |-> p.live]

PeerRemembers(p) ==
    /\ Handled(p)
    /\ p.env \notin Unknown
    /\ IsNew(p.env)
    /\ \E o \in Checked(p.env) :
          posts' = (posts \ {p}) \cup {HalfDone(p, o)}
    /\ remembered' = remembered \cup {p.env}
    /\ UNCHANGED <<stores, uploaded, transfers, line, pc, answer, queued, cut, told, faults>>

(* ... and the queue transaction, with the answer "queued".                *)
PeerQueues(p) ==
    /\ p \in posts /\ p.kind = "remembered"
    /\ queued' = queued \cup {[env |-> p.env, content |-> p.object]}
    /\ posts' = posts \ {p}
    /\ Reply(p, Status(TRUE))
    /\ UNCHANGED <<stores, uploaded, transfers, line, pc, remembered, cut, told, faults>>

(* A client of the peer, or another home server, puts content there.       *)
ForeignUpload(o) ==
    /\ o \in Foreign
    /\ PeerFree
    /\ Put("peer", o)
    /\ UNCHANGED <<lapsed, uploaded, request, mailbox, told, faults>>

(* A post does not reach the peer.                                         *)
Lose(p) ==
    /\ p \in posts
    /\ p.kind # "remembered"
    /\ faults < MaxFaults
    /\ faults' = faults + 1
    /\ posts' = posts \ {p}
    /\ UNCHANGED <<stores, uploaded, transfers, line, pc, answer, mailbox, told>>

(* The peer's process dies, with the posts that have reached it: the one   *)
(* that it is handling, and any of the others.                             *)
PeerCrash ==
    /\ faults < MaxFaults
    /\ faults' = faults + 1
    /\ \E kept \in SUBSET {p \in posts : p.kind # "remembered"} : posts' = kept
    /\ cut' = cut \cup {p.env : p \in {q \in posts : q.kind = "remembered"}}
    /\ UNCHANGED <<stores, uploaded, transfers, line, pc, answer, remembered, queued, told>>

-----------------------------------------------------------------------------

Init ==
    /\ store = [s \in Server |-> {}]
    /\ lapsed = [s \in Server |-> {}]
    /\ uploaded = {}
    /\ transfers = {}
    /\ line = << >>
    /\ pc = [e \in Envelope |-> "idle"]
    /\ posts = {}
    /\ answer = [e \in Envelope |-> Null]
    /\ remembered = {}
    /\ queued = {}
    /\ cut = {}
    /\ told = {}
    /\ faults = 0

(* What a request does once it is there.                                   *)
Proceed(e) ==
    \/ SkipTransfer(e)
    \/ ContentGone(e)
    \/ PostContent(e)
    \/ ContentDelivered(e)
    \/ ContentRefused(e)
    \/ EnvelopeAnswered(e)

(* What the peer does with a post.                                         *)
Handle(p) ==
    \/ PeerStores(p)
    \/ PeerRefuses(p)
    \/ PeerRepeats(p)
    \/ PeerRemembers(p)
    \/ PeerQueues(p)

Next ==
    \/ \E s \in Server : Prune(s) \/ \E o \in Object : Lapse(s, o)
    \/ \E o \in Object : Upload(o) \/ ForeignUpload(o)
    \/ \E e \in Envelope : Submit(e) \/ Proceed(e) \/ GiveUp(e)
    \/ \E p \in posts : Handle(p) \/ Lose(p)
    \/ HomeCrash
    \/ PeerCrash

Spec == Init /\ [][Next]_vars

(* Both event loops run what is ready and end what they have begun, httpx  *)
(* gives up when nothing comes, and a client repeats a reference until it  *)
(* is answered "proxied" (an inline envelope would be refused).            *)
GoOn(e) ==
    \/ Proceed(e)
    \/ GiveUp(e)
    \/ \E p \in posts : p.live /\ p.env = e /\ Handle(p)

Retry(e) == IsReference(e) /\ e \notin told /\ Submit(e)

Fairness ==
    /\ \A e \in Envelope : WF_vars(GoOn(e)) /\ WF_vars(Retry(e))
    /\ WF_vars(\E p \in posts : PeerQueues(p))

FairSpec == Spec /\ Fairness

-----------------------------------------------------------------------------
(* Correctness.                                                            *)

(* Every variable has its type.                                            *)
TypeOK ==
    /\ store \in [Server -> SUBSET Object]
    /\ lapsed \in [Server -> SUBSET Object]
    /\ uploaded \subseteq Object
    /\ transfers \subseteq {Key(e) : e \in Envelope}
    /\ line \in Seq(Envelope)
    /\ pc \in [Envelope -> {"idle", "waiting", "uploading", "posting"}]
    /\ posts \subseteq Post
    /\ answer \in [Envelope -> {"ok", "refused", Null}]
    /\ remembered \subseteq Envelope
    /\ cut \subseteq Envelope
    /\ queued \subseteq [env : Envelope, content : Object \cup {Null}]
    /\ told \subseteq Envelope
    /\ faults \in 0..MaxFaults

Admitted(e) == \E q \in queued : q.env = e

(* What a recipient finds in its mailbox it can fetch: the very content    *)
(* that the reference was checked with stays on the peer until its         *)
(* deadline, whatever is uploaded there later, and in whatever order.      *)
QueuedHasContent ==
    \A q \in queued :
        q.content # Null => /\ q.content \in store["peer"] \cup lapsed["peer"]
                            /\ Key(q.content) = Key(q.env)

(* _content_transfers tells the truth about the content_id it lists: the   *)
(* object that our clients put under it is on the peer, or was there until *)
(* its deadline.  (The hash in the key is the envelope's word only.)       *)
TransferredIsThere ==
    \A k \in transfers :
        \E o \in uploaded : o.id = k[1] /\ o \in store["peer"] \cup lapsed["peer"]

(* The sender of an envelope that was "proxied" need not send it again: it *)
(* is on the peer's mailbox, also when posts are late or answers are lost. *)
(* Only a death of the peer between its two transactions can make this     *)
(* untrue, and only of a reference; an inline envelope is refused then.    *)
ProxiedIsQueued == \A e \in told : Admitted(e) \/ (IsReference(e) /\ e \in cut)

(* No two requests upload the same content at the same time, although each *)
(* awaits the peer between looking at _content_transfers and adding to it. *)
OneUploadPerKey ==
    \A p, q \in {r \in posts : r.live /\ r.kind = "content"} :
        Key(p.env) = Key(q.env) => p = q

(* Every request is answered: the lock is given back on every path, and    *)
(* nobody waits in its line for ever.                                      *)
RequestsEnd == \A e \in Envelope : []<>(pc[e] = "idle")

(* The cache of transfers never makes a delivery wait for ever: its        *)
(* content gets to the peer and so does the envelope, as long as its       *)
(* sender repeats it, unless the peer died over it, its content_id has     *)
(* been used for something else, or a copy of the content is over its      *)
(* deadline.  (What was uploaded stays so: this says no less than ~>.)     *)
Taken(e) == \E o \in uploaded \cup store["peer"] : o.id = e.id /\ Key(o) # Key(e)

Over(e) == \E s \in Server : \E o \in lapsed[s] : Key(o) = Key(e)

Uploaded(e) == \E o \in uploaded : Key(o) = Key(e)

ReachesPeer ==
    \A e \in {f \in Envelope \ Unknown : IsReference(f)} :
        []<>(Uploaded(e) => Admitted(e) \/ e \in cut \/ Taken(e) \/ Over(e))

=============================================================================
