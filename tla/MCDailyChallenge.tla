-------------------------- MODULE MCDailyChallenge --------------------------
(* Small instances of DailyChallenge for TLC. *)
EXTENDS DailyChallenge

\* A challenge with XP and a quiz, and one that carries neither: each may be
\* edited into the other while handlers hold the content they loaded.
MCRows == {[xpReward |-> 2, pieces |-> 2, playSeconds |-> 9, quiz |-> 0],
           [xpReward |-> 0, pieces |-> 1, playSeconds |-> 9, quiz |-> NoOption]}

MCClaims == {-1, 1}
MCTimes  == {9, 10}

\* Every create leaves out the date: no challenge comes but by an append.
MCNamesNoDate ==
    \A d \in Dates : daily[d] = NoRow /\ daily'[d] # NoRow =>
        \E a \in Admins : picked[a] = d /\ picked'[a] = NoDate

MCAppendSpec == Init /\ [][Next /\ MCNamesNoDate]_vars
=============================================================================
