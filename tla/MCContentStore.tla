--------------------------- MODULE MCContentStore ---------------------------
(* Small instances of ContentStore for TLC.                                *)
EXTENDS ContentStore

CONSTANTS c1, c2, h1, h2, h3

Obj(id, hash, expires) == [id |-> id, hash |-> hash, expires |-> expires]

(* Two objects compete for one content_id, with deadlines a tick apart;    *)
(* one of them is also put with a later deadline.  A third has none.       *)
Objects == {Obj(c1, h1, 1), Obj(c1, h1, 2), Obj(c1, h2, 2), Obj(c2, h3, Null)}
=============================================================================
