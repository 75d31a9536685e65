------------------------------ MODULE Content ------------------------------
(* What the content modules share: content objects, their deadlines, and   *)
(* the answers of ContentStore.put and get (src/endpoint/storage.py).      *)
EXTENDS Integers

CONSTANTS
    ContentId,  \* content_ids
    Hash,       \* content_sha256 and ciphertext_sha256 of an object, as one
    Object,     \* the content objects that clients and peers upload
    MaxTime,    \* bound: the clock stops after this tick
    Null        \* no expires_at, no object, no answer

ASSUME ObjectAssumption ==
    /\ Object \subseteq [id : ContentId, hash : Hash, expires : Nat \cup {Null}]
    /\ Null \notin Nat
    /\ Null \notin Object
    /\ Null \notin ContentId
    /\ MaxTime \in Nat

(* _is_expired: a deadline that equals the clock has passed.               *)
Lapsed(o, t) == o.expires # Null /\ o.expires <= t

(* The last call and its answer: a status for put, an object for get.      *)
PutReply(o, status)  == [put |-> o, get |-> Null, answer |-> status]
GetReply(id, object) == [put |-> Null, get |-> id, answer |-> object]
=============================================================================
