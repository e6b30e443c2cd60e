---------------------------- MODULE MCCausalTrace ----------------------------
(* Traces of three replicas, synchronized in the default order and in the    *)
(* reverse order that the lab's tests use.                                   *)
EXTENDS CausalTrace

MCOrders == {<<1, 2, 3>>, <<3, 2, 1>>}
=============================================================================
