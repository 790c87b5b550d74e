-------------------------------- MODULE Wallet --------------------------------
(***************************************************************************)
(* The writers of users.unlock_points and users.expedition_bonus_stars     *)
(* that make up the wallet: the daily check-in, spending, and in-app       *)
(* purchases, verified with a store and recorded in a ledger (purchases).  *)
(*                                                                         *)
(* CreditPurchase is one transaction of two writes.  Its steps are apart   *)
(* here: a ledger row that is not committed makes an insert of the same    *)
(* key wait, and a user row that is not committed makes every other update *)
(* of it wait (PostgreSQL, READ COMMITTED).  Everything else a handler     *)
(* does to the wallet is a statement, and a commit, of its own.            *)
(***************************************************************************)
EXTENDS Integers, FiniteSets, FiniteSetsExt

CONSTANTS
    Users, Requests,
    LastDay,        \* bound on the clock, which starts at day 1
    Configured,     \* stores the server has credentials for
    Transactions,   \* purchases the stores may come to report
    Reward,         \* what one of each product of the catalogue pays
    Amounts,        \* amounts a client may ask to spend
    Window,         \* days of check-ins the calendar reads: 180
    MaxFailures,    \* bound on the handlers that die
    NoTx            \* a handler is not crediting a purchase

ASSUME ConstantsOK ==
    /\ LastDay \in Nat \ {0} /\ MaxFailures \in Nat /\ Window \in Nat
    /\ \A t \in Transactions : t.date \in Nat
    /\ \A p \in DOMAIN Reward : Reward[p] \in [points : Nat, stars : Nat]
    /\ Amounts \subseteq Int
    /\ NoTx \notin Transactions

VARIABLES
    today,      \* time.Now().UTC(), in days
    bought,     \* the stores: purchases made so far
    checkins,   \* checkins, (user, day) pairs
    ledger,     \* purchases: which transactions were credited, to whom
    points,     \* users.unlock_points
    stars,      \* users.expedition_bonus_stars
    pc, job,    \* each handler's next step and what it works with
    failures,   \* handlers that died so far
    paid,       \* history: check-ins that were paid
    spent       \* history: points each user has spent

tables == <<checkins, ledger, points, stars>>
vars   == <<today, bought, tables, pc, job, failures, paid, spent>>

Days  == 0 .. LastDay
PCs   == {"idle", "checkin", "grant", "credit", "inserted", "updated"}
Job   == [user : Users, day : Days, tx : Transactions \cup {NoTx},
          points : Nat, stars : Nat]
NoJob == [user |-> NoTx, day |-> 0, tx |-> NoTx, points |-> 0, stars |-> 0]

PointsOf(t) == Reward[t.product].points
StarsOf(t)  == Reward[t.product].stars

-----------------------------------------------------------------------------
(* What statements and handlers decide; "a slip" marks a mistake the       *)
(* definition below it could make (PROJECT.json, "mutants").               *)

\* The day a request is for: the client's own, if it can be its today.
TrustedDay(claim) == IF claim >= today - 1 THEN claim ELSE today  \* a slip

clientDay(claim) == IF claim \in {today - 1, today} THEN claim ELSE today

KeyWithoutPlatform(t) == t.id                                    \* a slip

\* UNIQUE (platform, transaction_id)
Key(t) == <<t.platform, t.id>>

Recorded(t) == \E row \in ledger : Key(row.tx) = Key(t)

NotRecorded(t) == ~Recorded(t)                                   \* a slip

\* No row of that key, committed or on its way.
KeyFree(t) ==
    /\ ~Recorded(t)
    /\ \A q \in Requests :
           pc[q] \in {"inserted", "updated"} => Key(job[q].tx) # Key(t)

NeverLocked(u) == u \in Users                                    \* a slip

\* No transaction under way has updated the row of the user.
RowFree(u) ==
    \A q \in Requests : pc[q] = "updated" => job[q].user # u

AffordsSome(u, n) == points[u] > 0 /\ n > 0                      \* a slip

Affords(u, n) == points[u] >= n

\* latestTransactionID: a receipt's newest purchase of a product; the order of
\* the receipt settles a tie, which may be any here.
Newest(receipt, product) ==
    {t \in receipt : /\ t.product = product
                     /\ \A s \in receipt : s.product = product => s.date <= t.date}

-----------------------------------------------------------------------------
Init ==
    /\ today = 1
    /\ bought = {} /\ checkins = {} /\ ledger = {}
    /\ points = [u \in Users |-> 0]
    /\ stars = [u \in Users |-> 0]
    /\ pc = [r \in Requests |-> "idle"]
    /\ job = [r \in Requests |-> NoJob]
    /\ failures = 0
    /\ paid = {}
    /\ spent = [u \in Users |-> 0]

Goto(r, step) == pc' = [pc EXCEPT ![r] = step]

Begin(r, step, j) ==
    /\ pc[r] = "idle"
    /\ Goto(r, step)
    /\ job' = [job EXCEPT ![r] = j]
    /\ UNCHANGED <<today, bought, tables, failures, paid, spent>>

End(r) ==
    /\ Goto(r, "idle")
    /\ job' = [job EXCEPT ![r] = NoJob]

Midnight ==
    /\ today < LastDay
    /\ today' = today + 1
    /\ UNCHANGED <<bought, tables, pc, job, failures, paid, spent>>

\* The process stops, the client goes away or a statement fails; a transaction
\* that is open rolls back.
Die(r) ==
    /\ pc[r] # "idle" /\ failures < MaxFailures
    /\ failures' = failures + 1
    /\ End(r)
    /\ UNCHANGED <<today, bought, tables, paid, spent>>

-----------------------------------------------------------------------------
(* POST /checkin *)

handleCheckin(r, u) ==
    \E claim \in Days :
        Begin(r, "checkin", [NoJob EXCEPT !.user = u, !.day = clientDay(claim)])

\* INSERT ... ON CONFLICT DO NOTHING: only the first of a day is paid.
CheckIn(r) ==
    /\ pc[r] = "checkin"
    /\ LET entry == <<job[r].user, job[r].day>>
       IN  IF entry \in checkins
           THEN End(r) /\ UNCHANGED checkins
           ELSE /\ checkins' = checkins \cup {entry}
                /\ Goto(r, "grant") /\ UNCHANGED job
    /\ UNCHANGED <<today, bought, ledger, points, stars, failures, paid, spent>>

AddUnlockPoints(r) ==
    /\ pc[r] = "grant"
    /\ RowFree(job[r].user)
    /\ points' = [points EXCEPT ![job[r].user] = @ + 1]
    /\ paid' = paid \cup {<<job[r].user, job[r].day>>}
    /\ End(r)
    /\ UNCHANGED <<today, bought, checkins, ledger, stars, failures, spent>>

-----------------------------------------------------------------------------
(* GET /checkin, and the answer to a check-in (buildCheckinState), as of the *)
(* day the client claims it is.                                              *)

\* GetCheckinDates
CheckinDates(u, now) == {d \in Days : d >= now - Window /\ <<u, d>> \in checkins}

\* The cursor goes back, from the day or the one before, while there are days.
Streak(u, now) ==
    LET run[d \in (now - Window - 2) .. now] ==
            IF d \in CheckinDates(u, now) THEN 1 + run[d - 1] ELSE 0
    IN  IF now \in CheckinDates(u, now) THEN run[now] ELSE run[now - 1]

\* Day 0 is a Sunday; weeks begin on Monday.
Weekday(now) == now % 7
Monday(now)  == now - ((Weekday(now) + 6) % 7)

WeekCheckedIn(u, now) ==
    Cardinality({d \in CheckinDates(u, now) : d \in Monday(now) .. Monday(now) + 6})

-----------------------------------------------------------------------------
(* POST /me/points/spend: one guarded UPDATE, which needs no handler state *)

SpendUnlockPoints(u) ==
    /\ RowFree(u)
    /\ \E a \in Amounts :
           LET n == IF a <= 0 THEN 1 ELSE a
           IN  /\ Affords(u, n)
               /\ points' = [points EXCEPT ![u] = @ - n]
               /\ spent' = [spent EXCEPT ![u] = @ + n]
    /\ UNCHANGED <<today, bought, checkins, ledger, stars, pc, job, failures, paid>>

-----------------------------------------------------------------------------
(* POST /me/points/purchase *)

\* A store sells; only it knows.
Buy(t) ==
    /\ t \notin bought
    /\ bought' = bought \cup {t}
    /\ UNCHANGED <<today, tables, pc, job, failures, paid, spent>>

\* The handler up to the store's answer.  An App Store receipt tells of some
\* purchases made on the device, by whoever uses it; a Google Play token is
\* one purchase.  All other requests are refused before anything is written.
handleConfirmPurchase(r, u) ==
    \E product \in DOMAIN Reward, receipt \in SUBSET bought :
        \E t \in Newest(receipt, product) :
            /\ \A s \in receipt : s.platform = t.platform
            /\ t.platform \in Configured
            /\ Begin(r, "credit", [NoJob EXCEPT !.user = u, !.tx = t])

\* CreditPurchase.  A transaction that is in the ledger is a replay: the
\* balances are read and nothing is written.
Replay(r) ==
    /\ pc[r] = "credit"
    /\ Recorded(job[r].tx)
    /\ End(r)
    /\ UNCHANGED <<today, bought, tables, failures, paid, spent>>

InsertPurchase(r) ==
    /\ pc[r] = "credit"
    /\ KeyFree(job[r].tx)
    /\ Goto(r, "inserted")
    /\ UNCHANGED <<today, bought, tables, job, failures, paid, spent>>

UpdateBalances(r) ==
    /\ pc[r] = "inserted"
    /\ LET j == job[r]
       IN  /\ RowFree(j.user)
           /\ job' = [job EXCEPT ![r].points = points[j.user] + PointsOf(j.tx),
                                 ![r].stars = stars[j.user] + StarsOf(j.tx)]
    /\ Goto(r, "updated")
    /\ UNCHANGED <<today, bought, tables, failures, paid, spent>>

\* The row and the balances appear to everyone else.
Commit(r) ==
    /\ pc[r] = "updated"
    /\ LET j == job[r]
       IN  /\ ledger' = ledger \cup {[user |-> j.user, tx |-> j.tx]}
           /\ points' = [points EXCEPT ![j.user] = j.points]
           /\ stars' = [stars EXCEPT ![j.user] = j.stars]
    /\ End(r)
    /\ UNCHANGED <<today, bought, checkins, failures, paid, spent>>

-----------------------------------------------------------------------------
Handler(r) ==
    \/ CheckIn(r) \/ AddUnlockPoints(r)
    \/ Replay(r) \/ InsertPurchase(r) \/ UpdateBalances(r) \/ Commit(r)

Next ==
    \/ Midnight
    \/ \E t \in Transactions : Buy(t)
    \/ \E u \in Users : SpendUnlockPoints(u)
    \/ \E r \in Requests :
           \/ \E u \in Users : handleCheckin(r, u) \/ handleConfirmPurchase(r, u)
           \/ Handler(r)
           \/ Die(r)

Spec == Init /\ [][Next]_vars

\* A statement that waits for a lock is queued and gets it when its turn comes,
\* although others may take the lock before: strong fairness.
FairSpec == Spec /\ \A r \in Requests : SF_vars(Handler(r))

-----------------------------------------------------------------------------
(* Properties *)

\* The tables and the handlers hold values of their types; in particular no
\* balance is ever negative.
TypeOK ==
    /\ today \in 1 .. LastDay
    /\ bought \subseteq Transactions
    /\ checkins \subseteq Users \X Days
    /\ ledger \subseteq [user : Users, tx : Transactions]
    /\ points \in [Users -> Nat] /\ stars \in [Users -> Nat]
    /\ pc \in [Requests -> PCs]
    /\ job \in [Requests -> Job \cup {NoJob}]
    /\ failures \in 0 .. MaxFailures
    /\ paid \subseteq Users \X Days
    /\ spent \in [Users -> Nat]

\* "the ledger row and the balances can never disagree" (purchases.go): what a
\* user holds is what the user's ledger rows and paid check-ins add up to, less
\* what was spent, whatever transactions overlap or roll back.
LedgerMatchesBalances ==
    \A u \in Users :
        LET rows == {row \in ledger : row.user = u}
        IN  /\ points[u] + spent[u] =
                   MapThenSumSet(LAMBDA row : PointsOf(row.tx), rows)
                   + Cardinality({entry \in paid : entry[1] = u})
            /\ stars[u] = MapThenSumSet(LAMBDA row : StarsOf(row.tx), rows)

\* The longest run of days checked in that ends with that day.
LongestRun(u, end) ==
    Max({n \in 0 .. LastDay + 1 : \A k \in 0 .. n - 1 : <<u, end - k>> \in checkins})

\* "consecutive days ending today (or yesterday if not yet checked in today)"
\* (checkin.go), as far back as the calendar reads, on whichever day the client
\* is; and those of this week are in its count.
StreakIsARun ==
    \A u \in Users, claim \in Days :
        LET now == clientDay(claim)
            end == IF <<u, now>> \in checkins THEN now ELSE now - 1
        IN  /\ Streak(u, now) = Min({LongestRun(u, end), Window + 1 - (now - end)})
            /\ WeekCheckedIn(u, now) >= Min({Streak(u, now), end - Monday(now) + 1})

\* "a forged past/future date used to farm extra check-ins" (checkin.go) is of
\* no use: nobody checks in ahead of the clock, since the first day no user has
\* more check-ins than days have passed, one day before it included, and no
\* streak is made of anything else.
CheckinsAreNotFarmed ==
    /\ \A entry \in checkins : entry[2] <= today
    /\ \A u \in Users :
           Cardinality({entry \in checkins : entry[1] = u}) <= today + 1
    /\ StreakIsARun

\* Whoever retries, restores or shares a receipt, a transaction pays one user
\* once, and a day pays once: the wallet is the exactly-once wallet.
Promise == INSTANCE ExactlyOnceWallet
               WITH credited <- {row.tx : row \in ledger}
ExactlyOnce == Promise!Spec

\* A purchase a store has confirmed ends in the ledger, unless its handler
\* fails: neither a lock nor a request for the same transaction keeps it out.
PurchaseSettles ==
    \A r \in Requests, t \in Transactions, n \in 0 .. MaxFailures :
        pc[r] = "credit" /\ job[r].tx = t /\ failures = n
            ~> failures > n \/ t \in {row.tx : row \in ledger}

\* "Returns true if it was a new check-in (in which case +1 unlock point was
\* granted)" (checkin.go): a day that is recorded was paid or is being paid.
CheckinIsPaid ==
    \A entry \in checkins :
        \/ entry \in paid
        \/ \E r \in Requests : pc[r] = "grant" /\ <<job[r].user, job[r].day>> = entry
=============================================================================
