---------------------------- MODULE MCRotatingLog ----------------------------
(***************************************************************************)
(* A log of three backups for TLC, written in pieces of one or two bytes.    *)
(***************************************************************************)
EXTENDS RotatingLogProperties, TLC

EitherStream == Permutations(Streams)
=============================================================================
