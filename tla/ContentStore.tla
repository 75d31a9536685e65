---------------------------- MODULE ContentStore ----------------------------
(***************************************************************************)
(* The content store of a server: the rows of table content_objects, the   *)
(* ciphertext files beside the database, and the order in which put, get   *)
(* and prune_expired touch the two, with a crash after every step.         *)
(*                                                                         *)
(* Code: ContentStore in src/endpoint/storage.py.  One event loop calls    *)
(* it and none of its methods awaits, so only a crash and the clock come   *)
(* between the steps of a call.                                            *)
(*                                                                         *)
(* Left out: the temporary file of put (its name is random, nothing reads  *)
(* it, and one that a crash leaves behind is never removed), and the       *)
(* IntegrityError branch, which needs a second process on the database.    *)
(***************************************************************************)
EXTENDS Content

CONSTANTS MaxCrashes   \* bound: how often the server process dies

ASSUME CrashAssumption == MaxCrashes \in Nat

VARIABLES
    now,        \* the server's clock
    reply,      \* history: the last call and its answer
    accepted,   \* history: objects answered "stored" or "existing" since
                \* their content_id was last stored
    rows,       \* committed rows of content_objects
    files,      \* the ciphertext files: which id's path holds which hash
    putting,    \* the object whose put has passed its checks
    placed,     \* that put has moved its file into place, uncommitted
    pruning,    \* the rows prune_expired has read and not looked at yet
    unlinking,  \* the content_id whose row _delete has deleted, or Null
    crashes

diskVars == <<rows, files>>
callVars == <<putting, placed, pruning, unlinking>>
history  == <<reply, accepted>>
vars == <<now, reply, accepted, rows, files, putting, placed, pruning, unlinking,
           crashes>>

(* No call is under way.                                                   *)
Idle == putting = Null /\ pruning = {} /\ unlinking = Null

RowFor(id)  == {r \in rows : r.id = id}
FileFor(id) == {f \in files : f.id = id}

-----------------------------------------------------------------------------
(* put *)

PutExpired(o) ==
    /\ Idle
    /\ Lapsed(o, now)
    /\ reply' = PutReply(o, "content_expired")
    /\ UNCHANGED <<now, accepted, diskVars, callVars, crashes>>

(* The deadline of the row stays, whatever that of the copy put now.       *)
PutKnown(o) ==
    /\ Idle
    /\ ~ Lapsed(o, now)
    /\ \E r \in RowFor(o.id) :
          /\ reply' = PutReply(o, IF r.hash = o.hash THEN "existing"
                                                     ELSE "content_hash_mismatch")
          /\ accepted' = IF r.hash = o.hash THEN accepted \cup {o} ELSE accepted
    /\ UNCHANGED <<now, diskVars, callVars, crashes>>

PutBegin(o) ==
    /\ Idle
    /\ ~ Lapsed(o, now)
    /\ RowFor(o.id) = {}
    /\ putting' = o
    /\ UNCHANGED <<now, history, diskVars, placed, pruning, unlinking, crashes>>

(* os.replace: the file is in place before the row is committed.           *)
PutPlaceFile ==
    /\ putting # Null
    /\ ~ placed
    /\ files' = (files \ FileFor(putting.id)) \cup
                    {[id |-> putting.id, hash |-> putting.hash]}
    /\ placed' = TRUE
    /\ UNCHANGED <<now, history, rows, putting, pruning, unlinking, crashes>>

AcceptedAnew(o) == {p \in accepted : p.id # o.id} \cup {o}

(* Variation: the row is committed while the file is not in place.         *)
PutCommitFirst ==
    /\ putting # Null
    /\ ~ placed
    /\ rows' = rows \cup {putting}
    /\ putting' = Null
    /\ reply' = PutReply(putting, "stored")
    /\ accepted' = AcceptedAnew(putting)
    /\ UNCHANGED <<now, files, placed, pruning, unlinking, crashes>>

PutCommit ==
    /\ putting # Null
    /\ placed
    /\ rows' = rows \cup {putting}
    /\ putting' = Null
    /\ placed' = FALSE
    /\ reply' = PutReply(putting, "stored")
    /\ accepted' = AcceptedAnew(putting)
    /\ UNCHANGED <<now, files, pruning, unlinking, crashes>>

-----------------------------------------------------------------------------
(* get: the object is put together from the row and the file.              *)

ReadBack(id) ==
    {[id |-> id, hash |-> f.hash, expires |-> r.expires] :
        f \in FileFor(id), r \in RowFor(id)}

(* No row, or a file that is not there: the caller gets None.              *)
GetMissing(id) ==
    /\ Idle
    /\ ReadBack(id) = {}
    /\ \A r \in RowFor(id) : ~ Lapsed(r, now)
    /\ reply' = GetReply(id, Null)
    /\ UNCHANGED <<now, accepted, diskVars, callVars, crashes>>

(* Variation: get does not look at the deadline.                           *)
GetFoundAnyAge(id) ==
    /\ Idle
    /\ \E o \in ReadBack(id) : reply' = GetReply(id, o)
    /\ UNCHANGED <<now, accepted, diskVars, callVars, crashes>>

GetFound(id) ==
    /\ Idle
    /\ \A r \in RowFor(id) : ~ Lapsed(r, now)
    /\ \E o \in ReadBack(id) : reply' = GetReply(id, o)
    /\ UNCHANGED <<now, accepted, diskVars, callVars, crashes>>

(* Variation: the whole row is kept for the unlink.                        *)
DeleteRowKeeping(r) ==
    /\ rows' = rows \ {r}
    /\ unlinking' = r

(* _delete: the row goes in a transaction of its own, then the file.       *)
DeleteRow(r) ==
    /\ rows' = rows \ {r}
    /\ unlinking' = r.id

GetExpired(id) ==
    /\ Idle
    /\ \E r \in RowFor(id) : Lapsed(r, now) /\ DeleteRow(r)
    /\ reply' = GetReply(id, Null)
    /\ UNCHANGED <<now, accepted, files, putting, placed, pruning, crashes>>

(* Variation: the file stays.                                              *)
UnlinkNothing ==
    /\ unlinking # Null
    /\ unlinking' = Null
    /\ UNCHANGED <<now, history, diskVars, putting, placed, pruning, crashes>>

Unlink ==
    /\ unlinking # Null
    /\ files' = files \ FileFor(unlinking)
    /\ unlinking' = Null
    /\ UNCHANGED <<now, history, rows, putting, placed, pruning, crashes>>

-----------------------------------------------------------------------------
(* prune_expired: from the health check, after every ack and reject, and   *)
(* when the server starts.                                                 *)

PruneBegin ==
    /\ Idle
    /\ pruning' = {r \in rows : r.expires # Null}
    /\ UNCHANGED <<now, history, diskVars, putting, placed, unlinking, crashes>>

PruneKeep(r) ==
    /\ unlinking = Null
    /\ r \in pruning
    /\ ~ Lapsed(r, now)
    /\ pruning' = pruning \ {r}
    /\ UNCHANGED <<now, history, diskVars, putting, placed, unlinking, crashes>>

(* Variation: prune_expired does not look at the deadline again.           *)
PruneDropAnyAge(r) ==
    /\ unlinking = Null
    /\ r \in pruning
    /\ pruning' = pruning \ {r}
    /\ DeleteRow(r)
    /\ UNCHANGED <<now, history, files, putting, placed, crashes>>

PruneDrop(r) ==
    /\ unlinking = Null
    /\ r \in pruning
    /\ Lapsed(r, now)
    /\ pruning' = pruning \ {r}
    /\ DeleteRow(r)
    /\ UNCHANGED <<now, history, files, putting, placed, crashes>>

-----------------------------------------------------------------------------
(* The process dies in the middle of a call (an uncommitted INSERT is      *)
(* rolled back, a file in place stays) and starts again by pruning.        *)
Crash ==
    /\ crashes < MaxCrashes
    /\ crashes' = crashes + 1
    /\ putting' = Null
    /\ placed' = FALSE
    /\ unlinking' = Null
    /\ pruning' = {r \in rows : r.expires # Null}
    /\ UNCHANGED <<now, history, diskVars>>

Tick ==
    /\ now < MaxTime
    /\ now' = now + 1
    /\ UNCHANGED <<history, diskVars, callVars, crashes>>

Init ==
    /\ now = 0
    /\ reply = PutReply(Null, Null)
    /\ accepted = {}
    /\ rows = {}
    /\ files = {}
    /\ putting = Null
    /\ placed = FALSE
    /\ pruning = {}
    /\ unlinking = Null
    /\ crashes = 0

Put(o) == PutExpired(o) \/ PutKnown(o) \/ PutBegin(o)

Get(id) == GetMissing(id) \/ GetFound(id) \/ GetExpired(id)

Next ==
    \/ \E o \in Object : Put(o)
    \/ PutPlaceFile
    \/ PutCommit
    \/ \E id \in ContentId : Get(id)
    \/ PruneBegin
    \/ \E r \in Object : PruneKeep(r) \/ PruneDrop(r)
    \/ Unlink
    \/ Crash
    \/ Tick

Spec == Init /\ [][Next]_vars

-----------------------------------------------------------------------------
(* Correctness.                                                            *)

(* Every variable has its type.                                            *)
TypeOK ==
    /\ now \in 0..MaxTime
    /\ reply.put \in Object \cup {Null}
    /\ reply.get \in ContentId \cup {Null}
    /\ accepted \subseteq Object
    /\ rows \subseteq Object
    /\ files \subseteq [id : ContentId, hash : Hash]
    /\ putting \in Object \cup {Null}
    /\ placed \in BOOLEAN
    /\ pruning \subseteq Object
    /\ unlinking \in ContentId \cup {Null}
    /\ crashes \in 0..MaxCrashes

(* Each content_id has one row, and the file of every committed row is in  *)
(* place with that row's hash, at every point a crash may strike: put      *)
(* moves the file before it commits, _delete commits before it unlinks.    *)
RowHasItsFile ==
    /\ \A r, s \in rows : r.id = s.id => r = s
    /\ \A r \in rows : FileFor(r.id) = {[id |-> r.id, hash |-> r.hash]}

(* Between calls no file is left without a row, unless the process died.   *)
NoOrphanFiles ==
    Idle /\ crashes = 0 => \A f \in files : RowFor(f.id) # {}

(* Content whose upload was answered "stored" or "existing" is there until *)
(* the earliest deadline that an upload of it stated, whatever is put, got *)
(* and pruned since and wherever the process dies: the sender goes on to   *)
(* deliver references to it.  (Of two copies with different deadlines the  *)
(* first decides; that of a later one is not kept.)                        *)
AcceptedIsHeld ==
    \A o \in accepted :
        \/ \E r \in rows : r.id = o.id /\ r.hash = o.hash
        \/ \E p \in accepted : p.id = o.id /\ p.hash = o.hash /\ Lapsed(p, now)

(* The store is the atomic map of ContentSpec: its committed rows are what *)
(* it holds, and neither the files nor the crashes show.                   *)
Map == INSTANCE ContentSpec WITH store <- rows

ImplementsMap == Map!Spec
=============================================================================
