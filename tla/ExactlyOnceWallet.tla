-------------------------- MODULE ExactlyOnceWallet --------------------------
(***************************************************************************)
(* What the wallet of a user promises, without requests, transactions or   *)
(* locks: every store transaction pays one user once, every checked-in day *)
(* pays a user once, and nothing is spent that is not there.               *)
(***************************************************************************)
EXTENDS Integers

CONSTANTS
    Users, Days,
    Transactions,   \* purchases the stores may report
    PointsOf(_),    \* unlock points a transaction pays
    StarsOf(_)      \* expedition stars a transaction pays

VARIABLES
    credited,   \* transactions that were paid out
    paid,       \* (user, day) pairs whose check-in was paid
    points,     \* users.unlock_points
    stars       \* users.expedition_bonus_stars

vars == <<credited, paid, points, stars>>

Init ==
    /\ credited = {} /\ paid = {}
    /\ points = [u \in Users |-> 0]
    /\ stars = [u \in Users |-> 0]

Credit(u, t) ==
    /\ t \notin credited
    /\ credited' = credited \cup {t}
    /\ points' = [points EXCEPT ![u] = @ + PointsOf(t)]
    /\ stars' = [stars EXCEPT ![u] = @ + StarsOf(t)]
    /\ UNCHANGED paid

PayDay(u, d) ==
    /\ <<u, d>> \notin paid
    /\ paid' = paid \cup {<<u, d>>}
    /\ points' = [points EXCEPT ![u] = @ + 1]
    /\ UNCHANGED <<credited, stars>>

Spend(u) ==
    /\ \E n \in 1 .. points[u] : points' = [points EXCEPT ![u] = @ - n]
    /\ UNCHANGED <<credited, paid, stars>>

Next ==
    \E u \in Users :
        \/ \E t \in Transactions : Credit(u, t)
        \/ \E d \in Days : PayDay(u, d)
        \/ Spend(u)

Spec == Init /\ [][Next]_vars
=============================================================================
