---------------------------- MODULE MCHiddenSecret ----------------------------
(* A small instance of HiddenSecret for TLC. *)
EXTENDS HiddenSecret, TLC

\* Requests, shutters and pictures are interchangeable (safety only).
MCSymmetry == Permutations(Requests) \cup Permutations(Tiles) \cup Permutations(Images)
=============================================================================
