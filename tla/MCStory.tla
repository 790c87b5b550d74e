--------------------------------- MODULE MCStory ---------------------------------
(* A small instance of Story for TLC. *)
EXTENDS Story, TLC

\* A page that lifts its player over the first levels, and one that would take
\* XP away.
MCRewards == {2, -1}

\* Requests are interchangeable (safety only).
MCSymmetry == Permutations(Requests)
=============================================================================
