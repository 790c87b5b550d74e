------------------------------- MODULE MCWallet -------------------------------
(* Small instances of Wallet for TLC. *)
EXTENDS Wallet, TLC

\* Purchases at both stores whose identifiers happen to be the same ...
MCTwoStores ==
    {[platform |-> "apple",  id |-> 1, product |-> "points", date |-> 1],
     [platform |-> "google", id |-> 1, product |-> "both",   date |-> 1]}

\* ... and a second, newer one of the same product on the App Store receipt.
MCTransactions ==
    MCTwoStores \cup
    {[platform |-> "apple", id |-> 2, product |-> "points", date |-> 2]}

MCReward == [points |-> [points |-> 2, stars |-> 0],
             both   |-> [points |-> 1, stars |-> 1]]

MCConfigured == {"apple", "google"}
MCAmounts    == {-1, 2}

\* Users and requests are interchangeable (safety only).
MCSymmetry == Permutations(Users) \cup Permutations(Requests)
=============================================================================
