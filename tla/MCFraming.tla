------------------------------ MODULE MCFraming ------------------------------
(***************************************************************************)
(* Instances of Framing for TLC, with the sizes of the source.             *)
(***************************************************************************)
EXTENDS Framing

\* No data, shorter than a block, a whole block, one byte less than two.
MCLengths == {Bare, 1, 16, 31}

\* package_data_frame accepts it, and its frame is 1024 bytes long.
MCLongLengths == {992}

=============================================================================
