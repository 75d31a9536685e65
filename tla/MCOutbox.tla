------------------------------ MODULE MCOutbox ------------------------------
(* Small instances of Outbox for TLC.                                      *)
EXTENDS Outbox

Obj(content, copy) == [content |-> content, copy |-> copy]
Env(content, copy, id) == [object |-> Obj(content, copy), id |-> id]

(* A fan-out to two recipients, and its content sent again to a third.     *)
Reusing       == {Env(1, 1, 1), Env(1, 1, 2), Env(1, 2, 3)}

(* One content sent twice.                                                 *)
Twice         == {Env(1, 1, 1), Env(1, 2, 2)}

Objects(S)    == {e.object : e \in S}
ReusingObjects == Objects(Reusing)
TwiceObjects   == Objects(Twice)

FirstObject    == {Obj(1, 1)}
=============================================================================
