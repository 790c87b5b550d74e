------------------------------ MODULE MCExpedition ------------------------------
(* Small instances of Expedition for TLC: one level to a tier. *)
EXTENDS Expedition, TLC

\* A collection level, worth more stars than those of the map around it, and
\* a level of the map without XP.
Collection == [star |-> 3, onMain |-> FALSE, xp |-> 5]
Unrewarded == [star |-> 2, onMain |-> TRUE, xp |-> 0]
MCConfigs  == {Collection, Unrewarded}

\* A level of the map, then one with no image yet or a collection level.
MCPlain  == <<[config |-> NoConfig, image |-> TRUE], [config |-> NoConfig, image |-> FALSE]>>
MCLadder == <<[config |-> NoConfig, image |-> TRUE], [config |-> Collection, image |-> TRUE]>>

\* Two requests at a time, and a single one while there are three levels; stars
\* that were bought count as one.
Busy    == Cardinality({r \in Requests : pc[r] # "idle"}) + MapThenSumSet(LAMBDA u : bonus[u], Users)
MCBound == Busy <= IF LevelCount <= 2 THEN 2 ELSE 1
MCSpec  == Init /\ [][Next /\ MCBound']_vars

\* Requests are interchangeable.
MCSymmetry == Permutations(Requests)
=============================================================================
