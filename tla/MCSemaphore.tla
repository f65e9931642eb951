----------------------------- MODULE MCSemaphore -----------------------------
(* Threads that call wait and signal in any order. *)
EXTENDS Semaphore

MCThread == {"a", "b", "c"}
==============================================================================
