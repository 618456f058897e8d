------------------------------ MODULE MCStore ------------------------------
(* Two sessions and two batches that meet in a bucket of minute 0, which     *)
(* expires while the second batch, with a later bucket on the same nodes, is *)
(* delivered.                                                                *)
EXTENDS Store

MCSession == {"s1", "s2"}
MCBatch == {"b1", "b2"}
MCEdges == [b1 |-> {<<0, 1, 2>>, <<0, 1, 3>>}, b2 |-> {<<0, 1, 2>>, <<1, 1, 2>>}]
=============================================================================
