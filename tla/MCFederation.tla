---------------------------- MODULE MCFederation ----------------------------
(* Small instances of Federation for TLC.                                  *)
EXTENDS Federation

Obj(id, hash, copy) == [id |-> id, hash |-> hash, copy |-> copy]
Env(id, hash, msg)  == [id |-> id, hash |-> hash, msg |-> msg]

(* A fan-out to two recipients and an inline envelope; the content of the  *)
(* fan-out may expire, or find its id used for something else, at the peer *)
(* or on the home server, where a request then sends the wrong content.    *)
Ours      == {Obj(1, 1, 1)}
Others    == {Obj(1, 2, 1)}
Objects   == Ours \cup Others
Envelopes == {Env(1, 1, 1), Env(1, 1, 2), Env(Null, Null, 3)}
=============================================================================
