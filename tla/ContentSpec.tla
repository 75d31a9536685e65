---------------------------- MODULE ContentSpec ----------------------------
(***************************************************************************)
(* What a server's content store promises: a map from content_id to one    *)
(* content object, read and written atomically, from which objects drop    *)
(* out once their retention deadline has passed and never before.          *)
(***************************************************************************)
EXTENDS Content

VARIABLES
    now,    \* the server's clock
    store,  \* the objects that can be served
    reply   \* the last call and its answer

Held(id) == {o \in store : o.id = id}

(* An object is stored once; after that its content_id is bound to it.     *)
Put(o) ==
    /\ \/ /\ Held(o.id) = {}
          /\ store' = store \cup {o}
          /\ reply' = PutReply(o, "stored")
       \/ /\ UNCHANGED store
          /\ ~ Lapsed(o, now)
          /\ \E h \in Held(o.id) :
                reply' = PutReply(o, IF h.hash = o.hash THEN "existing"
                                     ELSE "content_hash_mismatch")
       \/ /\ UNCHANGED store
          /\ Lapsed(o, now)
          /\ reply' = PutReply(o, "content_expired")
    /\ UNCHANGED now

(* An object that is held is served, whole, until its deadline.            *)
Serve(o) ==
    /\ o \in store
    /\ ~ Lapsed(o, now)
    /\ reply' = GetReply(o.id, o)
    /\ UNCHANGED <<now, store>>

Refuse(id) ==
    /\ \A o \in Held(id) : Lapsed(o, now)
    /\ store' = store \ Held(id)
    /\ reply' = GetReply(id, Null)
    /\ UNCHANGED now

Forget(o) ==
    /\ o \in store
    /\ Lapsed(o, now)
    /\ store' = store \ {o}
    /\ UNCHANGED <<now, reply>>

Tick ==
    /\ now < MaxTime
    /\ now' = now + 1
    /\ UNCHANGED <<store, reply>>

Init ==
    /\ now = 0
    /\ store = {}
    /\ reply = PutReply(Null, Null)

Next ==
    \/ \E o \in Object : Put(o) \/ Serve(o) \/ Forget(o)
    \/ \E id \in ContentId : Refuse(id)
    \/ Tick

Spec == Init /\ [][Next]_<<now, store, reply>>
=============================================================================
