-------------------------- MODULE MCDeliveryWorker --------------------------
(* DeliveryWorker for TLC: what becomes of each record id, in queue order. *)
EXTENDS DeliveryWorker

GoodThenRotten == <<"good", "rotten">>
RefusedThenMismatch == <<"refused", "mismatch">>
=============================================================================
