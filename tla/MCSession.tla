------------------------------ MODULE MCSession ------------------------------
(***************************************************************************)
(* The instances of Session for TLC.  In all of them r1 has both           *)
(* callbacks, r2 only an AckCallback and r3 only a FailCallback.           *)
(***************************************************************************)
EXTENDS Session

CONSTANTS r1, r2, r3

MCWantsAck == Req \cap {r1, r2}
MCWantsFail == Req \cap {r1, r3}

=============================================================================
