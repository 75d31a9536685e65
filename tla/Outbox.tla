------------------------------- MODULE Outbox -------------------------------
(***************************************************************************)
(* A client sending: the outbox file, and the calls that save messages in  *)
(* it, submit them to the home server and mark what became of them.        *)
(*                                                                         *)
(* Code: ClientOutbox in src/endpoint/storage.py; _send_content_reference, *)
(* retry_outbox and _submit_envelope in src/endpoint/client_core.py.  The  *)
(* server is seen through its answers (server_core.py: client_content and  *)
(* client_messages); Mailbox and ContentStore model what it does inside.   *)
(*                                                                         *)
(* save and mark each load the file, change it and write it back.  Calls   *)
(* that are tasks of one process do not give way in between; calls of      *)
(* processes of their own, such as `endpoint send' and `endpoint retry',   *)
(* take no lock and do (Shared).                                           *)
(***************************************************************************)
EXTENDS Integers, FiniteSets

CONSTANTS
    Object,      \* the content objects: each send seals its content anew
    Envelope,    \* the envelopes of those sends, one per recipient
    Call,        \* calls of send and retry that may be under way at once
    Shared,      \* whether these calls run in processes of their own
    Limit,       \* retry_outbox(limit)
    Unknown,     \* envelopes no server will accept (an unknown recipient)
    ShortLived,  \* objects whose retention ends while the model runs
    MaxFaults,   \* bound: how often a request or its response is lost
    MaxCrashes,  \* bound: how often a client process dies
    Null

ASSUME OutboxAssumption ==
    /\ Object \subseteq [content : Int, copy : Int]
    /\ Envelope \subseteq [object : Object, id : Int]
    /\ \A e, f \in Envelope : e.id = f.id => e = f
    /\ Shared \in BOOLEAN
    /\ Limit \in Nat \ {0}
    /\ MaxFaults \in Nat
    /\ MaxCrashes \in Nat

VARIABLES
    file,      \* outbox.json
    view,      \* what a call has loaded of it and not written back yet
    pc,        \* where each call is
    kind,      \* a send, a retry, or a send whose upload failed
    object,    \* the content object it uploads
    todo,      \* the envelopes it still has to submit or to mark
    outcome,   \* the submission it is about to mark
    saved,     \* history: the objects whose send has written the outbox
    stored,    \* the server: the content objects it holds
    expired,   \* the server: the objects whose retention has ended
    accepted,  \* the envelopes the server admitted or took for admitted
    faults,
    crashes

callVars   == <<view, pc, kind, object, todo, outcome>>
serverVars == <<stored, expired, accepted>>
bounds     == <<faults, crashes>>
vars       == <<file, callVars, saved, serverVars, bounds>>

DeliveryStatus == {"pending", "failed", "queued"}
Delivery == [env : Envelope, status : DeliveryStatus]
File == [objects : SUBSET Object, deliveries : SUBSET Delivery]

EnvelopesOf(o) == {e \in Envelope : e.object = o}

-----------------------------------------------------------------------------
(* The outbox file: an entry per content_id holds the latest object and    *)
(* the deliveries, which canonical JSON keeps in the order of their ids.   *)

EntryOf(f, k) == {d \in f.deliveries : d.env.object.content = k}

Waiting(f) == {d.env : d \in {x \in f.deliveries : x.status # "queued"}}

(* Variations: an entry is started afresh; a status mark does not know.    *)
KeptNothing(f, o) == f.deliveries \ EntryOf(f, o.content)

Kept(f, o) == f.deliveries

FirstStatusNew == "new"

FirstStatus == "pending"

(* ClientOutbox.save.  (A delivery on file under the same id is replaced   *)
(* unless it is "queued"; here no id is used twice.)                       *)
Saved(f, o) ==
    [ objects    |-> {p \in f.objects : p.content # o.content} \cup {o},
      deliveries |-> Kept(f, o) \cup
                        {[env |-> e, status |-> FirstStatus] : e \in EnvelopesOf(o)} ]

(* ClientOutbox.mark, and _remove_completed on every entry of the file.    *)
Marked(f, e, status) ==
    LET deliveries == {IF d.env.id = e.id THEN [d EXCEPT !.status = status] ELSE d :
                          d \in f.deliveries}
        unfinished == {d.env.object.content : d \in
                          {x \in deliveries : x.status # "queued"}}
    IN  [ objects    |-> {o \in f.objects : o.content \in unfinished},
          deliveries |-> {d \in deliveries : d.env.object.content \in unfinished} ]

(* Variation: only deliveries that were never tried.                       *)
PendingBatchUntried(f) ==
    {d.env : d \in {x \in f.deliveries : x.status = "pending"}}

(* ClientOutbox.pending_batch: the first entry with unfinished deliveries, *)
(* and the first `limit' of those.                                         *)
PendingBatch(f) ==
    LET first == {e \in Waiting(f) : \A g \in Waiting(f) :
                      e.object.content <= g.object.content}
    IN  {e \in first : Cardinality({g \in first : g.id < e.id}) < Limit}

-----------------------------------------------------------------------------
(* The server's answers.                                                   *)

(* ContentStore.put: refused when expired, or when the content_id holds a  *)
(* differently encrypted object.                                           *)
Puttable(o) ==
    /\ o \notin expired
    /\ \A p \in stored : p.content = o.content => p = o

(* accept_envelope_for_local: the content comes before the replay check,   *)
(* so even what was accepted before is refused once its content is gone.   *)
Acceptable(e) ==
    /\ e \notin Unknown
    /\ \E p \in stored : p.content = e.object.content /\ p \notin expired

Expire(o) ==
    /\ o \in ShortLived \cap saved
    /\ o \notin expired
    /\ expired' = expired \cup {o}
    /\ UNCHANGED <<file, callVars, saved, stored, accepted, bounds>>

Prune ==
    /\ stored \cap expired # {}
    /\ stored' = stored \ expired
    /\ UNCHANGED <<file, callVars, saved, expired, accepted, bounds>>

-----------------------------------------------------------------------------
(* The client's calls.                                                     *)

(* Between a load and the write that belongs to it, and while the          *)
(* deliveries of a send that failed are marked one by one, no call awaits. *)
InOneGo(c) == pc[c] \in {"save", "mark"} \/ (pc[c] = "next" /\ kind[c] = "failing")

Turn(c) == Shared \/ \A d \in Call \ {c} : ~ InOneGo(d)

Goto(c, l) == pc' = [pc EXCEPT ![c] = l]

Load(c) == view' = [view EXCEPT ![c] = file]

Write(c, f) == file' = f /\ view' = [view EXCEPT ![c] = Null]

(* A call returns, or dies with its process.                               *)
Leave(calls) ==
    LET Reset(f, value) == [c \in Call |-> IF c \in calls THEN value ELSE f[c]]
    IN  /\ pc' = Reset(pc, "idle")
        /\ kind' = Reset(kind, "retry")
        /\ object' = Reset(object, Null)
        /\ todo' = Reset(todo, {})

(* _send_content_reference: build the object and the envelopes, save them. *)
StartSend(c, o) ==
    /\ Turn(c)
    /\ pc[c] = "idle"
    /\ o \notin saved
    /\ \A d \in Call : pc[d] = "save" => object[d] # o
    /\ Load(c)
    /\ Goto(c, "save")
    /\ kind' = [kind EXCEPT ![c] = "send"]
    /\ object' = [object EXCEPT ![c] = o]
    /\ todo' = [todo EXCEPT ![c] = EnvelopesOf(o)]
    /\ UNCHANGED <<file, outcome, saved, serverVars, bounds>>

Save(c) ==
    /\ pc[c] = "save"
    /\ Write(c, Saved(view[c], object[c]))
    /\ saved' = saved \cup {object[c]}
    /\ Goto(c, "upload")
    /\ UNCHANGED <<kind, object, todo, outcome, serverVars, bounds>>

(* retry_outbox *)
StartRetry(c) ==
    /\ Turn(c)
    /\ pc[c] = "idle"
    /\ PendingBatch(file) # {}
    /\ todo' = [todo EXCEPT ![c] = PendingBatch(file)]
    /\ \E o \in file.objects :
          /\ \E e \in PendingBatch(file) : e.object.content = o.content
          /\ object' = [object EXCEPT ![c] = o]
    /\ kind' = [kind EXCEPT ![c] = "retry"]
    /\ Goto(c, "upload")
    /\ UNCHANGED <<file, view, outcome, saved, serverVars, bounds>>

(* The POST of the content object: stored, refused, or lost on the way     *)
(* there or back.  A send marks its deliveries as failed when it fails; a  *)
(* retry returns and marks nothing.                                        *)
UploadSucceeds(c) ==
    /\ Turn(c)
    /\ pc[c] = "upload"
    /\ Puttable(object[c])
    /\ stored' = stored \cup {object[c]}
    /\ Goto(c, "next")
    /\ UNCHANGED <<file, view, kind, object, todo, outcome, saved, expired,
                   accepted, bounds>>

UploadFails(c) ==
    /\ Turn(c)
    /\ pc[c] = "upload"
    /\ \/ /\ ~ Puttable(object[c])
          /\ UNCHANGED <<stored, faults>>
       \/ /\ faults < MaxFaults
          /\ faults' = faults + 1
          /\ stored' \in {stored, stored \cup {o \in {object[c]} : Puttable(o)}}
    /\ \/ /\ kind[c] = "send"
          /\ kind' = [kind EXCEPT ![c] = "failing"]
          /\ Goto(c, "next")
          /\ UNCHANGED <<object, todo>>
       \/ kind[c] = "retry" /\ Leave({c})
    /\ UNCHANGED <<file, view, outcome, saved, expired, accepted, crashes>>

Becomes(c, e, status) ==
    outcome' = [outcome EXCEPT ![c] = [env |-> e, status |-> status]]

FailNext(c) ==
    /\ pc[c] = "next"
    /\ kind[c] = "failing"
    /\ \E e \in todo[c] : Becomes(c, e, "failed")
    /\ Load(c)
    /\ Goto(c, "mark")
    /\ UNCHANGED <<file, kind, object, todo, saved, serverVars, bounds>>

(* Variation: a response that does not arrive counts as success.           *)
UnansweredHopeful == "queued"

Unanswered == "failed"

(* _submit_envelope: the POST of an envelope, with the same three ends.    *)
Submit(c, e) ==
    /\ Turn(c)
    /\ pc[c] = "next"
    /\ kind[c] # "failing"
    /\ e \in todo[c]
    /\ \/ /\ Acceptable(e)
          /\ accepted' = accepted \cup {e}
          /\ Becomes(c, e, "queued")
          /\ UNCHANGED faults
       \/ /\ ~ Acceptable(e)
          /\ Becomes(c, e, "failed")
          /\ UNCHANGED <<accepted, faults>>
       \/ /\ faults < MaxFaults
          /\ faults' = faults + 1
          /\ accepted' \in {accepted, accepted \cup {f \in {e} : Acceptable(f)}}
          /\ Becomes(c, e, Unanswered)
    /\ Goto(c, "answered")
    /\ UNCHANGED <<file, view, kind, object, todo, saved, stored, expired, crashes>>

Answered(c) ==
    /\ Turn(c)
    /\ pc[c] = "answered"
    /\ Load(c)
    /\ Goto(c, "mark")
    /\ UNCHANGED <<file, kind, object, todo, outcome, saved, serverVars, bounds>>

Mark(c) ==
    /\ pc[c] = "mark"
    /\ Write(c, Marked(view[c], outcome[c].env, outcome[c].status))
    /\ outcome' = [outcome EXCEPT ![c] = Null]
    /\ LET rest == todo[c] \ {outcome[c].env} IN
       \/ rest = {} /\ Leave({c})
       \/ /\ rest # {}
          /\ todo' = [todo EXCEPT ![c] = rest]
          /\ Goto(c, "next")
          /\ UNCHANGED <<kind, object>>
    /\ UNCHANGED <<saved, serverVars, bounds>>

(* A client process dies, with all the calls it runs.                      *)
Crash(c) ==
    /\ crashes < MaxCrashes
    /\ pc[c] # "idle"
    /\ crashes' = crashes + 1
    /\ LET dead == IF Shared THEN {c} ELSE Call
       IN  /\ Leave(dead)
           /\ view' = [d \in Call |-> IF d \in dead THEN Null ELSE view[d]]
           /\ outcome' = [d \in Call |-> IF d \in dead THEN Null ELSE outcome[d]]
    /\ UNCHANGED <<file, saved, serverVars, faults>>

-----------------------------------------------------------------------------

Init ==
    /\ file = [objects |-> {}, deliveries |-> {}]
    /\ view = [c \in Call |-> Null]
    /\ pc = [c \in Call |-> "idle"]
    /\ kind = [c \in Call |-> "retry"]
    /\ object = [c \in Call |-> Null]
    /\ todo = [c \in Call |-> {}]
    /\ outcome = [c \in Call |-> Null]
    /\ saved = {}
    /\ stored = {}
    /\ expired = {}
    /\ accepted = {}
    /\ faults = 0
    /\ crashes = 0

(* What a call does once it has started.                                   *)
Proceed(c) ==
    \/ Save(c)
    \/ UploadSucceeds(c)
    \/ UploadFails(c)
    \/ FailNext(c)
    \/ \E e \in Envelope : Submit(c, e)
    \/ Answered(c)
    \/ Mark(c)

Next ==
    \/ \E c \in Call : \/ \E o \in Object : StartSend(c, o)
                       \/ StartRetry(c)
                       \/ Proceed(c)
                       \/ Crash(c)
    \/ \E o \in Object : Expire(o)
    \/ Prune

Spec == Init /\ [][Next]_vars

(* The user, or a timer, keeps running `endpoint retry', and the calls go  *)
(* on.                                                                     *)
Fairness == \A c \in Call : WF_vars(StartRetry(c)) /\ WF_vars(Proceed(c))

FairSpec == Spec /\ Fairness

-----------------------------------------------------------------------------
(* Correctness.                                                            *)

(* Every variable has its type.                                            *)
TypeOK ==
    /\ file \in File
    /\ view \in [Call -> File \cup {Null}]
    /\ pc \in [Call -> {"idle", "save", "upload", "next", "answered", "mark"}]
    /\ kind \in [Call -> {"send", "retry", "failing"}]
    /\ object \in [Call -> Object \cup {Null}]
    /\ todo \in [Call -> SUBSET Envelope]
    /\ outcome \in [Call -> Delivery \cup {Null}]
    /\ saved \subseteq Object
    /\ stored \subseteq Object
    /\ expired \subseteq Object
    /\ accepted \subseteq Envelope
    /\ faults \in 0..MaxFaults
    /\ crashes \in 0..MaxCrashes

(* From the moment a send has written the outbox, each of its deliveries   *)
(* is accepted by a server or still waits in the outbox: lost responses,   *)
(* overlapping retries and crashes never drop one.  (For the calls of one  *)
(* process; the README speaks of retryable fan-out.  A server that died    *)
(* after remembering an envelope takes it for admitted, though it never    *)
(* queued it: AlreadyQueuedIsKept, in Mailbox, is what fails then.)        *)
NothingIsLost ==
    \A e \in Envelope :
        e.object \in saved => e \in accepted \/ e \in Waiting(file)

(* A delivery on file as "queued", which no retry will look at again, was  *)
(* accepted by a server: admitted, or answered "already_queued".           *)
QueuedIsAccepted ==
    \A d \in file.deliveries : d.status = "queued" => d.env \in accepted

(* No retry gets past an entry whose content the server does not take, as  *)
(* it has expired or is there under another ciphertext, nor past one with  *)
(* an unknown recipient: that holds up its deliveries and those behind it. *)
Stuck(k) ==
    \/ \E o \in file.objects : o.content = k /\ ~ Puttable(o)
    \/ \E e \in Waiting(file) \cap Unknown : e.object.content = k

HeldUp(e) ==
    \E f \in Waiting(file) :
        f.object.content <= e.object.content /\ Stuck(f.object.content)

Arrives(e) == e.object \in saved ~> e \in accepted /\ e \notin Waiting(file)

(* Whatever was lost, overlapped or died, every saved delivery is in the   *)
(* end accepted and leaves the outbox, as long as somebody retries and     *)
(* faults come to an end; unless it is held up for good.                   *)
ArrivesUnlessHeldUp == \A e \in Envelope : Arrives(e) \/ <>[]HeldUp(e)

(* The same without exception: the README calls the fan-out retryable, and *)
(* signed content reusable across deliveries.                              *)
EverythingArrives == \A e \in Envelope : Arrives(e)

=============================================================================
