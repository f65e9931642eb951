----------------------------- MODULE MCLinkLayer -----------------------------
(***************************************************************************)
(* The instances of LinkLayer for TLC.  The requests are interchangeable:  *)
(* no definition names one, and Data is the set of requests.               *)
(***************************************************************************)
EXTENDS LinkLayer, TLC

RequestSymmetry == Permutations(Req)

=============================================================================
