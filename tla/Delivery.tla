------------------------------ MODULE Delivery ------------------------------
(***************************************************************************)
(* What the mailbox and its client promise together: a channel that takes  *)
(* a message once, keeps it until the client grants or drops it, and gives *)
(* it to the user at most once.  A granted message may still be lost; one  *)
(* that is not Droppable is lost in no other way.                          *)
(***************************************************************************)
EXTENDS Naturals

CONSTANTS
    Mail,        \* records with an id; ids may repeat
    Unsound,     \* messages that the user must never see
    Droppable    \* messages that the client may refuse

VARIABLES
    promised,  \* the messages whose senders were told "queued"
    waiting,   \* those in the mailbox
    granted,   \* those that some call of the client may return
    given      \* how often each was returned to the user

(* A message_id is taken once.                                             *)
Post(e) ==
    /\ \A f \in promised : f.id # e.id
    /\ promised' = promised \cup {e}
    /\ waiting' = waiting \cup {e}
    /\ UNCHANGED <<granted, given>>

Grant(e) ==
    /\ e \in waiting \ Unsound
    /\ waiting' = waiting \ {e}
    /\ granted' = granted \cup {e}
    /\ UNCHANGED <<promised, given>>

Drop(e) ==
    /\ e \in waiting \cap Droppable
    /\ waiting' = waiting \ {e}
    /\ UNCHANGED <<promised, granted, given>>

(* A call returns what it was granted.                                     *)
Give(some) ==
    /\ granted' = granted \ some
    /\ given' = [e \in Mail |-> given[e] + IF e \in some THEN 1 ELSE 0]
    /\ UNCHANGED <<promised, waiting>>

(* A call ends without returning it.                                       *)
Lose(some) ==
    /\ granted' = granted \ some
    /\ UNCHANGED <<promised, waiting, given>>

Init ==
    /\ promised = {}
    /\ waiting = {}
    /\ granted = {}
    /\ given = [e \in Mail |-> 0]

Next ==
    \/ \E e \in Mail : Post(e) \/ Grant(e) \/ Drop(e)
    \/ \E some \in SUBSET granted : Give(some) \/ Lose(some)

Spec == Init /\ [][Next]_<<promised, waiting, granted, given>>
=============================================================================
