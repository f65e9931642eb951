----------------------------- MODULE MCReceiver -----------------------------
(* Two threads in the pool, and a handler that is set and changed. *)
EXTENDS Receiver

MCWorker == {"w1", "w2"}
==============================================================================
