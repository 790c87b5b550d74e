----------------------------- MODULE WalletProofs -----------------------------
(***************************************************************************)
(* Proofs about the wallet: its types, that it implements the exactly-once *)
(* wallet, that the ledger and the balances never disagree and that nobody *)
(* farms check-ins, for any number of users, requests and transactions.    *)
(***************************************************************************)
EXTENDS Wallet, Counting

\* A purchase the catalogue has a product for.
Sold == {t \in Transactions : t.product \in DOMAIN Reward}

Crediting(r) == pc[r] \in {"credit", "inserted", "updated"}

\* TypeOK is not inductive: what a purchase pays is a number because the
\* handler found its product in the catalogue.
Typed ==
    /\ TypeOK
    /\ \A r \in Requests :
           /\ pc[r] # "idle" => job[r] \in Job
           /\ Crediting(r) => job[r].tx \in Sold
    /\ \A row \in ledger : row.tx \in Sold

LEMMA PaysNumbers ==
    ASSUME NEW t \in Sold
    PROVE  /\ PointsOf(t) \in Nat /\ StarsOf(t) \in Nat
           /\ t \in Transactions /\ t # NoTx
  BY ConstantsOK DEF Sold, PointsOf, StarsOf

\* What Typed says of a handler at work.
LEMMA JobOf ==
    ASSUME Typed, NEW r \in Requests, pc[r] # "idle"
    PROVE  /\ job[r] \in Job /\ job[r].user \in Users /\ job[r].day \in Days
           /\ job[r].points \in Nat /\ job[r].stars \in Nat
           /\ points[job[r].user] \in Nat /\ stars[job[r].user] \in Nat
           /\ Crediting(r) => job[r].tx \in Sold
  BY DEF Typed, TypeOK, Job

\* What a handler leaves of the others when it begins, goes on or ends.
LEMMA GotoOthers ==
    ASSUME Typed, NEW r \in Requests, NEW step \in PCs, Goto(r, step)
    PROVE  /\ pc' \in [Requests -> PCs] /\ pc'[r] = step
           /\ \A q \in Requests : q # r => pc'[q] = pc[q]
  BY DEF Typed, TypeOK, Goto

LEMMA EndOthers ==
    ASSUME Typed, NEW r \in Requests, End(r)
    PROVE  /\ pc' \in [Requests -> PCs] /\ pc'[r] = "idle"
           /\ job' \in [Requests -> Job \cup {NoJob}]
           /\ \A q \in Requests : q # r => pc'[q] = pc[q] /\ job'[q] = job[q]
  BY DEF Typed, TypeOK, End, Goto, PCs

LEMMA BeginOthers ==
    ASSUME Typed, NEW r \in Requests, NEW step \in PCs, NEW j \in Job,
           Begin(r, step, j)
    PROVE  /\ pc' \in [Requests -> PCs] /\ pc'[r] = step /\ pc[r] = "idle"
           /\ job' \in [Requests -> Job \cup {NoJob}] /\ job'[r] = j
           /\ \A q \in Requests : q # r => pc'[q] = pc[q] /\ job'[q] = job[q]
  BY DEF Typed, TypeOK, Begin, Goto

-----------------------------------------------------------------------------
LEMMA InitTyped == ASSUME Init PROVE Typed
<1>1. today \in 1 .. LastDay /\ failures \in 0 .. MaxFailures
  BY ConstantsOK DEF Init
<1>2. /\ points \in [Users -> Nat] /\ stars \in [Users -> Nat]
      /\ spent \in [Users -> Nat]
      /\ pc \in [Requests -> PCs] /\ job \in [Requests -> Job \cup {NoJob}]
  BY DEF Init, PCs
<1>3. \A r \in Requests : pc[r] = "idle" /\ ~Crediting(r)
  BY DEF Init, Crediting
<1>. QED
  BY <1>1, <1>2, <1>3 DEF Init, Typed, TypeOK

\* The statements that belong to no handler.
LEMMA WorldTyped ==
    ASSUME Typed,
           \/ Midnight
           \/ \E t \in Transactions : Buy(t)
           \/ \E u \in Users : SpendUnlockPoints(u)
    PROVE  Typed'
<1>1. CASE Midnight
  <2>1. today' \in 1 .. LastDay
    BY <1>1, ConstantsOK DEF Midnight, Typed, TypeOK
  <2>. QED
    BY <1>1, <2>1 DEF Midnight, tables, Typed, TypeOK, Crediting
<1>2. CASE \E t \in Transactions : Buy(t)
  BY <1>2 DEF Buy, tables, Typed, TypeOK, Crediting
<1>3. ASSUME NEW u \in Users, SpendUnlockPoints(u)
      PROVE  Typed'
  <2>1. PICK n \in Nat : /\ points[u] >= n
                         /\ points' = [points EXCEPT ![u] = @ - n]
                         /\ spent' = [spent EXCEPT ![u] = @ + n]
    <3>1. \A a \in Amounts : (IF a <= 0 THEN 1 ELSE a) \in Nat
      BY ConstantsOK
    <3>. QED
      BY <1>3, <3>1 DEF SpendUnlockPoints, Affords
  <2>2. points' \in [Users -> Nat] /\ spent' \in [Users -> Nat]
    BY <2>1 DEF Typed, TypeOK
  <2>. QED
    BY <1>3, <2>2 DEF SpendUnlockPoints, Typed, TypeOK, Crediting
<1>. QED
  BY <1>1, <1>2, <1>3

LEMMA BeginTyped ==
    ASSUME Typed, NEW r \in Requests, NEW u \in Users,
           handleCheckin(r, u) \/ handleConfirmPurchase(r, u)
    PROVE  Typed'
<1>1. ASSUME NEW step \in {"checkin", "credit"}, NEW j \in Job, Begin(r, step, j),
             step = "credit" => j.tx \in Sold
      PROVE  Typed'
  <2>1. step \in PCs
    BY DEF PCs
  <2>2. \A q \in Requests : Crediting(q)' =>
            IF q = r THEN step = "credit" ELSE Crediting(q)
    BY <1>1, <2>1, BeginOthers DEF Crediting
  <2>. QED
    BY <1>1, <2>1, <2>2, BeginOthers DEF Begin, tables, Typed, TypeOK
<1>2. CASE handleCheckin(r, u)
  <2>1. PICK claim \in Days :
            Begin(r, "checkin", [NoJob EXCEPT !.user = u, !.day = clientDay(claim)])
    BY <1>2 DEF handleCheckin
  <2>2. clientDay(claim) \in Days
    BY ConstantsOK DEF clientDay, Days, Typed, TypeOK
  <2>3. [NoJob EXCEPT !.user = u, !.day = clientDay(claim)] \in Job
    BY <2>2 DEF NoJob, Job
  <2>. QED
    BY <1>1, <2>1, <2>3
<1>3. CASE handleConfirmPurchase(r, u)
  <2>1. PICK t \in Sold : Begin(r, "credit", [NoJob EXCEPT !.user = u, !.tx = t])
    BY <1>3 DEF handleConfirmPurchase, Newest, Sold, Typed, TypeOK
  <2>2. [NoJob EXCEPT !.user = u, !.tx = t] \in Job
    <3>1. 0 \in Days /\ t \in Transactions
      BY ConstantsOK DEF Days, Sold
    <3>. QED
      BY <3>1 DEF NoJob, Job
  <2>3. [NoJob EXCEPT !.user = u, !.tx = t].tx = t
    BY DEF NoJob
  <2>. QED
    BY <1>1, <2>1, <2>2, <2>3
<1>. QED
  BY <1>2, <1>3

\* A step of a handler that leaves balances and ledger alone.
LEMMA QuietTyped ==
    ASSUME Typed, NEW r \in Requests,
           \/ CheckIn(r) \/ Replay(r) \/ InsertPurchase(r) \/ Die(r)
    PROVE  Typed'
<1>1. ASSUME End(r), UNCHANGED <<today, bought, ledger, points, stars, paid, spent>>,
             failures' \in 0 .. MaxFailures, checkins' \subseteq Users \X Days
      PROVE  Typed'
  <2>1. \A q \in Requests : /\ pc'[q] # "idle" => q # r
                            /\ Crediting(q)' => q # r /\ Crediting(q)
    BY <1>1, EndOthers DEF Crediting
  <2>. QED
    BY <1>1, <2>1, EndOthers DEF Typed, TypeOK
<1>2. ASSUME NEW step \in PCs, Goto(r, step), pc[r] # "idle", UNCHANGED job,
             step \in {"inserted", "grant"}, step = "inserted" => pc[r] = "credit",
             UNCHANGED <<today, bought, ledger, points, stars, failures, paid, spent>>,
             checkins' \subseteq Users \X Days
      PROVE  Typed'
  <2>1. \A q \in Requests : /\ pc'[q] # "idle" => pc[q] # "idle"
                            /\ Crediting(q)' => Crediting(q)
    BY <1>2, GotoOthers DEF Crediting
  <2>. QED
    BY <1>2, <2>1, GotoOthers DEF Typed, TypeOK
<1>3. CASE CheckIn(r)
  <2>1. <<job[r].user, job[r].day>> \in Users \X Days
    BY <1>3, JobOf DEF CheckIn
  <2>2. checkins' \subseteq Users \X Days
    BY <1>3, <2>1 DEF CheckIn, Typed, TypeOK
  <2>. QED
    BY <1>1, <1>2, <1>3, <2>2 DEF CheckIn, PCs, Typed, TypeOK
<1>4. CASE Replay(r)
  BY <1>1, <1>4 DEF Replay, tables, Typed, TypeOK
<1>5. CASE InsertPurchase(r)
  BY <1>2, <1>5 DEF InsertPurchase, tables, PCs, Typed, TypeOK
<1>6. CASE Die(r)
  <2>1. failures' \in 0 .. MaxFailures
    BY <1>6, ConstantsOK DEF Die, Typed, TypeOK
  <2>. QED
    BY <1>1, <1>6, <2>1 DEF Die, tables, Typed, TypeOK
<1>. QED
  BY <1>3, <1>4, <1>5, <1>6

LEMMA PayTyped ==
    ASSUME Typed, NEW r \in Requests,
           AddUnlockPoints(r) \/ UpdateBalances(r) \/ Commit(r)
    PROVE  Typed'
<1>. DEFINE j == job[r]
<1>1. /\ pc[r] # "idle" /\ j \in Job /\ j.user \in Users /\ j.day \in Days
      /\ j.points \in Nat /\ j.stars \in Nat
      /\ points[j.user] \in Nat /\ stars[j.user] \in Nat
  BY JobOf DEF AddUnlockPoints, UpdateBalances, Commit
<1>2. CASE AddUnlockPoints(r)
  <2>1. points' \in [Users -> Nat] /\ paid' \subseteq Users \X Days
    BY <1>1, <1>2 DEF AddUnlockPoints, Typed, TypeOK
  <2>2. \A q \in Requests : /\ pc'[q] # "idle" => q # r
                            /\ Crediting(q)' => q # r /\ Crediting(q)
    BY <1>2, EndOthers DEF AddUnlockPoints, Crediting
  <2>. QED
    BY <1>2, <2>1, <2>2, EndOthers DEF AddUnlockPoints, Typed, TypeOK
<1>3. CASE UpdateBalances(r)
  <2>1. j.tx \in Sold /\ PointsOf(j.tx) \in Nat /\ StarsOf(j.tx) \in Nat
    BY <1>1, <1>3, JobOf, PaysNumbers DEF UpdateBalances, Crediting
  <2>2. job'[r] \in Job /\ job'[r].tx = j.tx
        /\ job' \in [Requests -> Job \cup {NoJob}]
        /\ \A q \in Requests : q # r => job'[q] = job[q]
    <3>. DEFINE p == points[j.user] + PointsOf(j.tx)
                s == stars[j.user] + StarsOf(j.tx)
                new == [j EXCEPT !.points = p, !.stars = s]
    <3>1. p \in Nat /\ s \in Nat
      BY <1>1, <2>1
    <3>2. new \in Job /\ new.tx = j.tx
      <4>. HIDE DEF p, s
      <4>. QED
        BY <1>1, <3>1 DEF Job
    <3>3. job' = [job EXCEPT ![r] = new]
      <4>. HIDE DEF p, s
      <4>1. job' = [job EXCEPT ![r].points = p, ![r].stars = s]
        BY <1>3 DEF UpdateBalances, p, s
      <4>. QED
        BY <4>1 DEF Typed, TypeOK
    <3>. HIDE DEF new
    <3>. QED
      BY <3>2, <3>3 DEF Typed, TypeOK
  <2>3. "updated" \in PCs
    BY DEF PCs
  <2>4. \A q \in Requests : q # r => pc'[q] = pc[q] /\ (Crediting(q)' <=> Crediting(q))
    BY <1>3, <2>3, GotoOthers DEF UpdateBalances, Crediting
  <2>5. pc' \in [Requests -> PCs]
    BY <1>3, <2>3, GotoOthers DEF UpdateBalances
  <2>. QED
    BY <1>3, <2>1, <2>2, <2>4, <2>5 DEF UpdateBalances, tables, Typed, TypeOK
<1>4. CASE Commit(r)
  <2>1. j.tx \in Sold
    BY <1>1, <1>4, JobOf DEF Commit, Crediting
  <2>2. /\ points' \in [Users -> Nat] /\ stars' \in [Users -> Nat]
        /\ ledger' \subseteq [user : Users, tx : Transactions]
        /\ \A row \in ledger' : row.tx \in Sold
    BY <1>1, <1>4, <2>1 DEF Commit, Typed, TypeOK, Sold
  <2>3. \A q \in Requests : /\ pc'[q] # "idle" => q # r
                            /\ Crediting(q)' => q # r /\ Crediting(q)
    BY <1>4, EndOthers DEF Commit, Crediting
  <2>. QED
    BY <1>4, <2>2, <2>3, EndOthers DEF Commit, Typed, TypeOK
<1>. QED
  BY <1>2, <1>3, <1>4

LEMMA TypeStep == ASSUME Typed, [Next]_vars PROVE Typed'
<1>1. CASE UNCHANGED vars
  BY <1>1 DEF vars, tables, Typed, TypeOK, Crediting
<1>2. CASE Next
  BY <1>2, WorldTyped, BeginTyped, QuietTyped, PayTyped DEF Next, Handler
<1>. QED
  BY <1>1, <1>2

\* The tables, the handlers and the history keep their types, whatever
\* interleaves, fails or is asked for; no balance is ever negative.
THEOREM TypeCorrect == Spec => []TypeOK
<1>1. Init => Typed
  BY InitTyped
<1>2. Typed /\ [Next]_vars => Typed'
  BY TypeStep
<1>3. Typed => TypeOK
  BY DEF Typed
<1>. QED
  BY <1>1, <1>2, <1>3, PTL DEF Spec

-----------------------------------------------------------------------------
(* What the locks are for.  A key has one row or one handler that inserts    *)
(* it; a user row that is not committed has one handler, whose new balances  *)
(* stay those of the committed row plus what it pays, since nobody else can  *)
(* write that row; a day that was checked in was paid, is being paid by one  *)
(* handler, or was given up.                                                 *)

HasKey(r) == pc[r] \in {"inserted", "updated"}

OneRowPerKey ==
    /\ \A row, other \in ledger : Key(row.tx) = Key(other.tx) => row = other
    /\ \A r \in Requests : HasKey(r) => ~Recorded(job[r].tx)
    /\ \A q, r \in Requests :
           HasKey(q) /\ HasKey(r) /\ q # r => Key(job[q].tx) # Key(job[r].tx)

BalancesHold ==
    /\ \A r \in Requests : pc[r] = "updated" =>
           /\ job[r].points = points[job[r].user] + PointsOf(job[r].tx)
           /\ job[r].stars = stars[job[r].user] + StarsOf(job[r].tx)
    /\ \A q, r \in Requests :
           pc[q] = "updated" /\ pc[r] = "updated" /\ q # r => job[q].user # job[r].user

Entry(r) == <<job[r].user, job[r].day>>

DayPaidOnce ==
    /\ paid \subseteq checkins
    /\ \A r \in Requests : pc[r] = "grant" => Entry(r) \in checkins \ paid
    /\ \A q, r \in Requests :
           pc[q] = "grant" /\ pc[r] = "grant" /\ q # r => Entry(q) # Entry(r)

LockInv == Typed /\ OneRowPerKey /\ BalancesHold /\ DayPaidOnce

\* A step of one handler, or of none, changes no other handler.
LEMMA OneActs ==
    ASSUME Typed, [Next]_vars
    PROVE  \/ UNCHANGED <<pc, job>>
           \/ \E r \in Requests :
                  \A q \in Requests : q # r => pc'[q] = pc[q] /\ job'[q] = job[q]
<1>1. ASSUME NEW r \in Requests,
             \/ \E u \in Users : handleCheckin(r, u) \/ handleConfirmPurchase(r, u)
             \/ Handler(r) \/ Die(r)
      PROVE  \A q \in Requests : q # r => pc'[q] = pc[q] /\ job'[q] = job[q]
  <2>1. ASSUME NEW u \in Users, handleCheckin(r, u) \/ handleConfirmPurchase(r, u)
        PROVE  \A q \in Requests : q # r => pc'[q] = pc[q] /\ job'[q] = job[q]
    BY <2>1 DEF handleCheckin, handleConfirmPurchase, Begin, Goto, Typed, TypeOK
  <2>2. CASE Handler(r) \/ Die(r)
    BY <2>2 DEF Handler, CheckIn, AddUnlockPoints, Replay, InsertPurchase,
       UpdateBalances, Commit, Die, End, Goto, Typed, TypeOK
  <2>. QED
    BY <1>1, <2>1, <2>2
<1>. QED
  BY <1>1 DEF Next, vars, Midnight, Buy, SpendUnlockPoints

LEMMA KeyStep == ASSUME LockInv, [Next]_vars PROVE OneRowPerKey'
<1>1. Typed /\ OneRowPerKey
  BY DEF LockInv
<1>2. ASSUME UNCHANGED <<ledger, pc, job>>
      PROVE  OneRowPerKey'
  BY <1>1, <1>2 DEF OneRowPerKey, HasKey, Recorded
<1>3. ASSUME NEW r \in Requests, UNCHANGED ledger,
             HasKey(r)' => HasKey(r) /\ job'[r].tx = job[r].tx,
             \A q \in Requests : q # r => pc'[q] = pc[q] /\ job'[q] = job[q]
      PROVE  OneRowPerKey'
  <2>1. \A q \in Requests : HasKey(q)' => HasKey(q) /\ job'[q].tx = job[q].tx
    BY <1>3 DEF HasKey
  <2>2. \A t : Recorded(t)' <=> Recorded(t)
    BY <1>3 DEF Recorded
  <2>. QED
    BY <1>1, <1>3, <2>1, <2>2 DEF OneRowPerKey
<1>4. ASSUME NEW r \in Requests, NEW u \in Users,
             handleCheckin(r, u) \/ handleConfirmPurchase(r, u)
      PROVE  OneRowPerKey'
  <2>1. UNCHANGED ledger /\ ~HasKey(r)'
    BY <1>1, <1>4 DEF handleCheckin, handleConfirmPurchase, Begin, Goto, HasKey,
       tables, Typed, TypeOK
  <2>2. \A q \in Requests : q # r => pc'[q] = pc[q] /\ job'[q] = job[q]
    BY <1>1, <1>4 DEF handleCheckin, handleConfirmPurchase, Begin, Goto, Typed, TypeOK
  <2>. QED
    BY <1>3, <2>1, <2>2
<1>5. ASSUME NEW r \in Requests,
             CheckIn(r) \/ AddUnlockPoints(r) \/ Replay(r) \/ Die(r)
      PROVE  OneRowPerKey'
  <2>1. UNCHANGED ledger /\ ~HasKey(r)'
    BY <1>1, <1>5 DEF CheckIn, AddUnlockPoints, Replay, Die, End, Goto, HasKey,
       tables, Typed, TypeOK
  <2>2. \A q \in Requests : q # r => pc'[q] = pc[q] /\ job'[q] = job[q]
    BY <1>1, <1>5 DEF CheckIn, AddUnlockPoints, Replay, Die, End, Goto, Typed, TypeOK
  <2>. QED
    BY <1>3, <2>1, <2>2
<1>6. ASSUME NEW r \in Requests, UpdateBalances(r)
      PROVE  OneRowPerKey'
  <2>1. UNCHANGED ledger /\ HasKey(r) /\ job'[r].tx = job[r].tx
    BY <1>1, <1>6, JobOf DEF UpdateBalances, HasKey, tables, Typed, TypeOK, Job
  <2>2. \A q \in Requests : q # r => pc'[q] = pc[q] /\ job'[q] = job[q]
    BY <1>1, <1>6 DEF UpdateBalances, Goto, Typed, TypeOK
  <2>. QED
    BY <1>3, <2>1, <2>2
<1>7. ASSUME NEW r \in Requests, InsertPurchase(r)
      PROVE  OneRowPerKey'
  <2>1. /\ UNCHANGED <<ledger, job>> /\ ~Recorded(job[r].tx)
        /\ \A q \in Requests : HasKey(q) => Key(job[q].tx) # Key(job[r].tx)
        /\ \A q \in Requests : HasKey(q)' => q = r \/ HasKey(q)
    BY <1>1, <1>7 DEF InsertPurchase, KeyFree, Goto, HasKey, tables, Typed, TypeOK
  <2>2. \A t : Recorded(t)' <=> Recorded(t)
    BY <2>1 DEF Recorded
  <2>. QED
    BY <1>1, <2>1, <2>2 DEF OneRowPerKey
<1>8. ASSUME NEW r \in Requests, Commit(r)
      PROVE  OneRowPerKey'
  <2>. DEFINE row == [user |-> job[r].user, tx |-> job[r].tx]
  <2>1. /\ HasKey(r) /\ ~HasKey(r)' /\ ledger' = ledger \cup {row}
        /\ \A q \in Requests : q # r => pc'[q] = pc[q] /\ job'[q] = job[q]
    BY <1>1, <1>8 DEF Commit, End, Goto, HasKey, Typed, TypeOK
  <2>2. \A t : Recorded(t)' => Recorded(t) \/ Key(t) = Key(job[r].tx)
    BY <2>1 DEF Recorded
  <2>3. \A other \in ledger : Key(other.tx) # Key(row.tx)
    BY <1>1, <2>1 DEF OneRowPerKey, Recorded
  <2>4. \A q \in Requests : HasKey(q)' => q # r /\ HasKey(q) /\ job'[q] = job[q]
    BY <2>1 DEF HasKey
  <2>. HIDE DEF row
  <2>5. \A one, other \in ledger' : Key(one.tx) = Key(other.tx) => one = other
    BY <1>1, <2>1, <2>3 DEF OneRowPerKey
  <2>6. \A q \in Requests : HasKey(q)' => ~Recorded(job[q].tx)'
    BY <1>1, <2>1, <2>2, <2>4 DEF OneRowPerKey
  <2>. QED
    BY <1>1, <2>4, <2>5, <2>6 DEF OneRowPerKey
<1>. QED
  BY <1>2, <1>4, <1>5, <1>6, <1>7, <1>8 DEF Next, Handler, vars, tables,
     Midnight, Buy, SpendUnlockPoints

LEMMA BalanceStep == ASSUME LockInv, [Next]_vars PROVE BalancesHold'
<1>1. Typed /\ BalancesHold
  BY DEF LockInv
<1>2. ASSUME UNCHANGED <<points, stars, pc, job>>
      PROVE  BalancesHold'
  BY <1>1, <1>2 DEF BalancesHold
<1>3. ASSUME NEW r \in Requests, pc'[r] # "updated",
             \A q \in Requests : q # r => pc'[q] = pc[q] /\ job'[q] = job[q],
             \A q \in Requests : q # r /\ pc[q] = "updated" =>
                 /\ points'[job[q].user] = points[job[q].user]
                 /\ stars'[job[q].user] = stars[job[q].user]
      PROVE  BalancesHold'
  BY <1>1, <1>3 DEF BalancesHold
<1>4. ASSUME NEW u \in Users, SpendUnlockPoints(u)
      PROVE  BalancesHold'
  <2>1. /\ UNCHANGED <<stars, pc, job>>
        /\ \A q \in Requests : pc[q] = "updated" => job[q].user # u
        /\ \A v \in Users : v # u => points'[v] = points[v]
    BY <1>1, <1>4 DEF SpendUnlockPoints, RowFree, Typed, TypeOK
  <2>2. \A q \in Requests : pc[q] = "updated" => job[q].user \in Users
    BY <1>1, JobOf
  <2>. QED
    BY <1>1, <2>1, <2>2 DEF BalancesHold
<1>5. ASSUME NEW r \in Requests,
             \/ \E u \in Users : handleCheckin(r, u) \/ handleConfirmPurchase(r, u)
             \/ CheckIn(r) \/ Replay(r) \/ InsertPurchase(r) \/ Die(r)
      PROVE  BalancesHold'
  <2>1. UNCHANGED <<points, stars>> /\ pc'[r] # "updated"
    BY <1>1, <1>5 DEF handleCheckin, handleConfirmPurchase, Begin, CheckIn, Replay,
       InsertPurchase, Die, End, Goto, tables, Typed, TypeOK
  <2>2. \A q \in Requests : q # r => pc'[q] = pc[q] /\ job'[q] = job[q]
    BY <1>1, <1>5 DEF handleCheckin, handleConfirmPurchase, Begin, CheckIn, Replay,
       InsertPurchase, Die, End, Goto, Typed, TypeOK
  <2>. QED
    BY <1>3, <2>1, <2>2
<1>6. ASSUME NEW r \in Requests, AddUnlockPoints(r)
      PROVE  BalancesHold'
  <2>1. /\ UNCHANGED stars /\ pc'[r] # "updated"
        /\ \A q \in Requests : pc[q] = "updated" => job[q].user # job[r].user
        /\ \A v \in Users : v # job[r].user => points'[v] = points[v]
        /\ \A q \in Requests : q # r => pc'[q] = pc[q] /\ job'[q] = job[q]
    BY <1>1, <1>6 DEF AddUnlockPoints, RowFree, End, Goto, Typed, TypeOK
  <2>2. \A q \in Requests : pc[q] = "updated" => job[q].user \in Users
    BY <1>1, JobOf
  <2>. QED
    BY <1>3, <2>1, <2>2
<1>7. ASSUME NEW r \in Requests, Commit(r)
      PROVE  BalancesHold'
  <2>1. /\ pc[r] = "updated" /\ pc'[r] # "updated"
        /\ \A v \in Users : v # job[r].user => points'[v] = points[v] /\ stars'[v] = stars[v]
        /\ \A q \in Requests : q # r => pc'[q] = pc[q] /\ job'[q] = job[q]
    BY <1>1, <1>7 DEF Commit, End, Goto, Typed, TypeOK
  <2>2. \A q \in Requests : pc[q] = "updated" => job[q].user \in Users
    BY <1>1, JobOf
  <2>3. \A q \in Requests : q # r /\ pc[q] = "updated" => job[q].user # job[r].user
    BY <1>1, <2>1 DEF BalancesHold
  <2>. QED
    BY <1>3, <2>1, <2>2, <2>3
<1>8. ASSUME NEW r \in Requests, UpdateBalances(r)
      PROVE  BalancesHold'
  <2>1. /\ UNCHANGED <<points, stars>>
        /\ \A q \in Requests : pc[q] = "updated" => job[q].user # job[r].user
        /\ \A q \in Requests : q # r => pc'[q] = pc[q] /\ job'[q] = job[q]
    BY <1>1, <1>8 DEF UpdateBalances, RowFree, Goto, tables, Typed, TypeOK
  <2>2. job[r] \in Job
    BY <1>1, <1>8, JobOf DEF UpdateBalances
  <2>3. /\ job'[r].user = job[r].user /\ job'[r].tx = job[r].tx
        /\ job'[r].points = points[job[r].user] + PointsOf(job[r].tx)
        /\ job'[r].stars = stars[job[r].user] + StarsOf(job[r].tx)
    BY <1>1, <1>8, <2>2 DEF UpdateBalances, Typed, TypeOK, Job
  <2>4. \A q \in Requests : pc'[q] = "updated" => q = r \/ pc[q] = "updated"
    BY <2>1
  <2>. QED
    BY <1>1, <2>1, <2>3, <2>4 DEF BalancesHold
<1>. QED
  BY <1>2, <1>4, <1>5, <1>6, <1>7, <1>8 DEF Next, Handler, vars, tables,
     Midnight, Buy

LEMMA DayStep == ASSUME LockInv, [Next]_vars PROVE DayPaidOnce'
<1>1. Typed /\ DayPaidOnce
  BY DEF LockInv
<1>2. ASSUME UNCHANGED <<checkins, paid, pc, job>>
      PROVE  DayPaidOnce'
  BY <1>1, <1>2 DEF DayPaidOnce, Entry
<1>3. ASSUME NEW r \in Requests, UNCHANGED <<checkins, paid>>, pc'[r] # "grant",
             \A q \in Requests : q # r => pc'[q] = pc[q] /\ job'[q] = job[q]
      PROVE  DayPaidOnce'
  BY <1>1, <1>3 DEF DayPaidOnce, Entry
<1>4. ASSUME NEW r \in Requests,
             \/ \E u \in Users : handleCheckin(r, u) \/ handleConfirmPurchase(r, u)
             \/ Replay(r) \/ InsertPurchase(r) \/ UpdateBalances(r) \/ Commit(r) \/ Die(r)
      PROVE  DayPaidOnce'
  <2>1. UNCHANGED <<checkins, paid>> /\ pc'[r] # "grant"
    BY <1>1, <1>4 DEF handleCheckin, handleConfirmPurchase, Begin, Replay,
       InsertPurchase, UpdateBalances, Commit, Die, End, Goto, tables, Typed, TypeOK
  <2>2. \A q \in Requests : q # r => pc'[q] = pc[q] /\ job'[q] = job[q]
    BY <1>1, <1>4 DEF handleCheckin, handleConfirmPurchase, Begin, Replay,
       InsertPurchase, UpdateBalances, Commit, Die, End, Goto, Typed, TypeOK
  <2>. QED
    BY <1>3, <2>1, <2>2
<1>5. ASSUME NEW r \in Requests, AddUnlockPoints(r)
      PROVE  DayPaidOnce'
  <2>1. /\ paid' = paid \cup {Entry(r)} /\ UNCHANGED checkins
        /\ pc[r] = "grant" /\ pc'[r] # "grant"
        /\ \A q \in Requests : q # r => pc'[q] = pc[q] /\ job'[q] = job[q]
    BY <1>1, <1>5 DEF AddUnlockPoints, End, Goto, Entry, Typed, TypeOK
  <2>2. \A q \in Requests : pc'[q] = "grant" => q # r /\ pc[q] = "grant" /\ Entry(q)' = Entry(q)
    BY <2>1 DEF Entry
  <2>. QED
    BY <1>1, <2>1, <2>2 DEF DayPaidOnce
<1>6. ASSUME NEW r \in Requests, CheckIn(r)
      PROVE  DayPaidOnce'
  <2>1. CASE Entry(r) \in checkins
    <3>1. UNCHANGED <<checkins, paid>> /\ pc'[r] # "grant"
          /\ \A q \in Requests : q # r => pc'[q] = pc[q] /\ job'[q] = job[q]
      BY <1>1, <1>6, <2>1 DEF CheckIn, Entry, End, Goto, Typed, TypeOK
    <3>. QED
      BY <1>3, <3>1
  <2>2. CASE Entry(r) \notin checkins
    <3>1. /\ checkins' = checkins \cup {Entry(r)} /\ UNCHANGED <<paid, job>>
          /\ \A q \in Requests : q # r => pc'[q] = pc[q]
      BY <1>1, <1>6, <2>2 DEF CheckIn, Entry, Goto, Typed, TypeOK
    <3>2. \A q \in Requests : Entry(q)' = Entry(q)
      BY <3>1 DEF Entry
    <3>3. \A q \in Requests : pc'[q] = "grant" => q = r \/ pc[q] = "grant"
      BY <3>1
    <3>. QED
      BY <1>1, <2>2, <3>1, <3>2, <3>3 DEF DayPaidOnce
  <2>. QED
    BY <2>1, <2>2
<1>. QED
  BY <1>2, <1>4, <1>5, <1>6 DEF Next, Handler, vars, tables,
     Midnight, Buy, SpendUnlockPoints

LEMMA LockStep == ASSUME LockInv, [Next]_vars PROVE LockInv'
  BY TypeStep, KeyStep, BalanceStep, DayStep DEF LockInv

LEMMA InitLocked == ASSUME Init PROVE LockInv
<1>1. \A r \in Requests : pc[r] = "idle"
  BY DEF Init
<1>. QED
  BY <1>1, InitTyped DEF Init, LockInv, OneRowPerKey, HasKey, BalancesHold, DayPaidOnce

-----------------------------------------------------------------------------
(* The exactly-once wallet.                                                  *)

\* What a commit, a paid day and a spending do, without the handlers.
LEMMA CommitCredits ==
    ASSUME LockInv, NEW r \in Requests, Commit(r)
    PROVE  /\ job[r].user \in Users /\ job[r].tx \in Sold
           /\ ~Recorded(job[r].tx) /\ UNCHANGED <<paid, spent>>
           /\ ledger' = ledger \cup {[user |-> job[r].user, tx |-> job[r].tx]}
           /\ points' = [points EXCEPT ![job[r].user] = @ + PointsOf(job[r].tx)]
           /\ stars' = [stars EXCEPT ![job[r].user] = @ + StarsOf(job[r].tx)]
<1>1. Typed /\ pc[r] = "updated"
  BY DEF LockInv, Commit
<1>2. job[r].user \in Users /\ job[r].tx \in Sold
  BY <1>1, JobOf DEF Crediting
<1>3. ~Recorded(job[r].tx)
  BY <1>1 DEF LockInv, OneRowPerKey, HasKey
<1>4. /\ job[r].points = points[job[r].user] + PointsOf(job[r].tx)
      /\ job[r].stars = stars[job[r].user] + StarsOf(job[r].tx)
  BY <1>1 DEF LockInv, BalancesHold
<1>. QED
  BY <1>2, <1>3, <1>4 DEF Commit

LEMMA GrantPaysDay ==
    ASSUME LockInv, NEW r \in Requests, AddUnlockPoints(r)
    PROVE  /\ job[r].user \in Users /\ job[r].day \in Days
           /\ <<job[r].user, job[r].day>> \notin paid
           /\ paid' = paid \cup {<<job[r].user, job[r].day>>}
           /\ points' = [points EXCEPT ![job[r].user] = @ + 1]
           /\ UNCHANGED <<ledger, stars, spent>>
<1>1. Typed /\ pc[r] = "grant"
  BY DEF LockInv, AddUnlockPoints
<1>2. job[r].user \in Users /\ job[r].day \in Days
  BY <1>1, JobOf
<1>. QED
  BY <1>1, <1>2 DEF LockInv, DayPaidOnce, Entry, AddUnlockPoints

LEMMA SpendTakes ==
    ASSUME LockInv, NEW u \in Users, SpendUnlockPoints(u)
    PROVE  /\ \E n \in 1 .. points[u] :
                  /\ points' = [points EXCEPT ![u] = @ - n]
                  /\ spent' = [spent EXCEPT ![u] = @ + n]
           /\ UNCHANGED <<ledger, stars, paid>>
<1>1. \A a \in Amounts : (IF a <= 0 THEN 1 ELSE a) \in Nat \ {0}
  BY ConstantsOK
<1>2. PICK n \in Nat \ {0} : /\ points[u] >= n
                             /\ points' = [points EXCEPT ![u] = @ - n]
                             /\ spent' = [spent EXCEPT ![u] = @ + n]
  BY <1>1 DEF SpendUnlockPoints, Affords
<1>3. points[u] \in Nat /\ n \in 1 .. points[u]
  BY <1>2 DEF LockInv, Typed, TypeOK
<1>. QED
  BY <1>2, <1>3 DEF SpendUnlockPoints

\* Every other step leaves all of that alone.
LEMMA OthersPayNothing ==
    ASSUME [Next]_vars,
           ~ \E u \in Users : SpendUnlockPoints(u),
           ~ \E r \in Requests : AddUnlockPoints(r) \/ Commit(r)
    PROVE  UNCHANGED <<ledger, points, stars, paid, spent>>
<1>1. ASSUME NEW r \in Requests,
             \/ \E u \in Users : handleCheckin(r, u) \/ handleConfirmPurchase(r, u)
             \/ CheckIn(r) \/ Replay(r) \/ InsertPurchase(r) \/ UpdateBalances(r) \/ Die(r)
      PROVE  UNCHANGED <<ledger, points, stars, paid, spent>>
  BY <1>1 DEF handleCheckin, handleConfirmPurchase, Begin, CheckIn, Replay,
     InsertPurchase, UpdateBalances, Die, tables
<1>. QED
  BY <1>1 DEF Next, Handler, vars, tables, Midnight, Buy

\* A transaction whose key has no row is in no row.
LEMMA UnrecordedIsNew ==
    ASSUME NEW t, ~Recorded(t)
    PROVE  t \notin {row.tx : row \in ledger}
  BY DEF Recorded

LEMMA PromiseStep ==
    ASSUME LockInv, [Next]_vars
    PROVE  [Promise!Next]_Promise!vars
<1>1. ASSUME NEW r \in Requests, Commit(r)
      PROVE  Promise!Next
  <2>. DEFINE t == job[r].tx
              u == job[r].user
              row == [user |-> u, tx |-> t]
  <2>1. /\ u \in Users /\ t \in Transactions /\ ~Recorded(t) /\ UNCHANGED paid
        /\ ledger' = ledger \cup {row}
        /\ points' = [points EXCEPT ![u] = @ + PointsOf(t)]
        /\ stars' = [stars EXCEPT ![u] = @ + StarsOf(t)]
    BY <1>1, CommitCredits DEF Sold
  <2>2. row.tx = t
    OBVIOUS
  <2>. HIDE DEF t, u, row
  <2>3. {one.tx : one \in ledger'} = {one.tx : one \in ledger} \cup {t}
    BY <2>1, <2>2
  <2>4. \E v \in Users, s \in Transactions : Promise!Credit(v, s)
    BY <2>1, <2>3, UnrecordedIsNew DEF Promise!Credit
  <2>. QED
    BY <2>4 DEF Promise!Next
<1>2. ASSUME NEW r \in Requests, AddUnlockPoints(r)
      PROVE  Promise!Next
  <2>1. Promise!PayDay(job[r].user, job[r].day)
    BY <1>2, GrantPaysDay DEF Promise!PayDay
  <2>. QED
    BY <1>2, <2>1, GrantPaysDay DEF Promise!Next
<1>3. ASSUME NEW u \in Users, SpendUnlockPoints(u)
      PROVE  Promise!Next
  <2>1. Promise!Spend(u)
    BY <1>3, SpendTakes DEF Promise!Spend
  <2>. QED
    BY <2>1 DEF Promise!Next
<1>4. CASE UNCHANGED <<ledger, points, stars, paid, spent>>
  BY <1>4 DEF Promise!vars
<1>. QED
  BY <1>1, <1>2, <1>3, <1>4, OthersPayNothing

\* "the wallet is the exactly-once wallet": whoever retries, shares or restores
\* a receipt and whichever transactions overlap or roll back, every step credits
\* one new purchase, pays one new day, spends what is there, or pays nothing.
THEOREM WalletKeepsItsPromise == Spec => ExactlyOnce
<1>1. Init => Promise!Init
  BY DEF Init, Promise!Init
<1>2. Init => LockInv
  BY InitLocked
<1>3. LockInv /\ [Next]_vars => LockInv'
  BY LockStep
<1>4. LockInv /\ [Next]_vars => [Promise!Next]_Promise!vars
  BY PromiseStep
<1>. QED
  BY <1>1, <1>2, <1>3, <1>4, PTL DEF Spec, ExactlyOnce, Promise!Spec

-----------------------------------------------------------------------------
(* The ledger and the balances.                                              *)

AllRows   == [user : Users, tx : Sold]
RowPoints == [row \in AllRows |-> PointsOf(row.tx)]
RowStars  == [row \in AllRows |-> StarsOf(row.tx)]

RowsOf(u) == {row \in ledger : row.user = u}
DaysOf(u) == {entry \in paid : entry[1] = u}

LEMMA PointsOfRows ==
    ASSUME NEW S \in SUBSET AllRows, IsFiniteSet(S)
    PROVE  MapThenSumSet(LAMBDA row : PointsOf(row.tx), S) = SumOf(RowPoints, S)
<1>. DEFINE Solves(g) ==
         g = [s \in SUBSET S |-> IF s = {} THEN 0
                                 ELSE PointsOf(Some(s).tx) + g[s \ {Some(s)}]]
<1>1. ASSUME NEW s \in SUBSET S, s # {}
      PROVE  PointsOf(Some(s).tx) = RowPoints[Some(s)]
  BY <1>1, SomeIsIn DEF RowPoints
<1>2. ASSUME NEW g
      PROVE  Solves(g) <=> Adds(g, RowPoints, S)
  BY <1>1 DEF Adds
<1>3. \E g : Solves(g)
  BY <1>2, AddsExists
<1>4. Solves(CHOOSE g : Solves(g))
  BY <1>3, Zenon
<1>5. MapThenSumSet(LAMBDA row : PointsOf(row.tx), S) = (CHOOSE g : Solves(g))[S]
  BY DEF MapThenSumSet, MapThenFoldSet, Some
<1>. HIDE DEF Solves
<1>. QED
  BY <1>2, <1>4, <1>5, SumIsAdds

LEMMA StarsOfRows ==
    ASSUME NEW S \in SUBSET AllRows, IsFiniteSet(S)
    PROVE  MapThenSumSet(LAMBDA row : StarsOf(row.tx), S) = SumOf(RowStars, S)
<1>. DEFINE Solves(g) ==
         g = [s \in SUBSET S |-> IF s = {} THEN 0
                                 ELSE StarsOf(Some(s).tx) + g[s \ {Some(s)}]]
<1>1. ASSUME NEW s \in SUBSET S, s # {}
      PROVE  StarsOf(Some(s).tx) = RowStars[Some(s)]
  BY <1>1, SomeIsIn DEF RowStars
<1>2. ASSUME NEW g
      PROVE  Solves(g) <=> Adds(g, RowStars, S)
  BY <1>1 DEF Adds
<1>3. \E g : Solves(g)
  BY <1>2, AddsExists
<1>4. Solves(CHOOSE g : Solves(g))
  BY <1>3, Zenon
<1>5. MapThenSumSet(LAMBDA row : StarsOf(row.tx), S) = (CHOOSE g : Solves(g))[S]
  BY DEF MapThenSumSet, MapThenFoldSet, Some
<1>. HIDE DEF Solves
<1>. QED
  BY <1>2, <1>4, <1>5, SumIsAdds

\* LedgerMatchesBalances, with sums that are functions of the rows.
AddsUp(u) ==
    /\ points[u] + spent[u] = SumOf(RowPoints, RowsOf(u)) + Cardinality(DaysOf(u))
    /\ stars[u] = SumOf(RowStars, RowsOf(u))

LedgerInv ==
    /\ LockInv /\ IsFiniteSet(ledger) /\ IsFiniteSet(paid)
    /\ \A u \in Users : AddsUp(u)

LEMMA RowsAreRows ==
    ASSUME LedgerInv, NEW u
    PROVE  /\ RowsOf(u) \in SUBSET AllRows /\ IsFiniteSet(RowsOf(u))
           /\ IsFiniteSet(DaysOf(u)) /\ Cardinality(DaysOf(u)) \in Nat
           /\ SumOf(RowPoints, RowsOf(u)) \in Nat /\ SumOf(RowStars, RowsOf(u)) \in Nat
<1>1. RowsOf(u) \in SUBSET AllRows
  BY DEF RowsOf, AllRows, LedgerInv, LockInv, Typed, TypeOK
<1>2. IsFiniteSet(RowsOf(u)) /\ IsFiniteSet(DaysOf(u))
  BY FS_Subset DEF RowsOf, DaysOf, LedgerInv
<1>3. \A row \in RowsOf(u) : RowPoints[row] \in Nat /\ RowStars[row] \in Nat
  BY <1>1, PaysNumbers DEF RowPoints, RowStars, AllRows
<1>. QED
  BY <1>1, <1>2, <1>3, SumTyped, FS_CardinalityType

LEMMA LedgerSumsMatch == ASSUME LedgerInv PROVE LedgerMatchesBalances
  BY RowsAreRows, PointsOfRows, StarsOfRows, ZenonT(30)
     DEF LedgerInv, AddsUp, LedgerMatchesBalances, RowsOf, DaysOf

LEMMA CommitAddsUp ==
    ASSUME LedgerInv, NEW r \in Requests, Commit(r)
    PROVE  IsFiniteSet(ledger') /\ \A u \in Users : AddsUp(u)'
<1>. DEFINE t == job[r].tx
            v == job[r].user
            row == [user |-> v, tx |-> t]
<1>1. /\ v \in Users /\ t \in Sold /\ ~Recorded(t) /\ UNCHANGED <<paid, spent>>
      /\ ledger' = ledger \cup {row}
      /\ points' = [points EXCEPT ![v] = @ + PointsOf(t)]
      /\ stars' = [stars EXCEPT ![v] = @ + StarsOf(t)]
  BY CommitCredits DEF LedgerInv
<1>2. row \notin ledger
  BY <1>1 DEF Recorded
<1>3. IsFiniteSet(ledger')
  BY <1>1, FS_AddElement DEF LedgerInv
<1>4. /\ PointsOf(t) \in Nat /\ StarsOf(t) \in Nat /\ row \in AllRows
      /\ row.user = v /\ RowPoints[row] = PointsOf(t) /\ RowStars[row] = StarsOf(t)
  BY <1>1, PaysNumbers DEF AllRows, RowPoints, RowStars
<1>5. ASSUME NEW u \in Users
      PROVE  AddsUp(u)'
  <2>1. /\ AddsUp(u) /\ DaysOf(u)' = DaysOf(u) /\ spent'[u] = spent[u]
        /\ points[u] \in Nat /\ stars[u] \in Nat /\ spent[u] \in Nat
    BY <1>1 DEF LedgerInv, DaysOf, LockInv, Typed, TypeOK
  <2>2. CASE u = v
    <3>1. RowsOf(u)' = RowsOf(u) \cup {row} /\ row \notin RowsOf(u)
      <4>. HIDE DEF row
      <4>. QED
        BY <1>1, <1>2, <1>4, <2>2 DEF RowsOf
    <3>2. \A one \in RowsOf(u) \cup {row} : RowPoints[one] \in Int /\ RowStars[one] \in Int
      <4>. HIDE DEF row
      <4>. QED
        BY <1>4, RowsAreRows, PaysNumbers, SMTT(30) DEF AllRows, RowPoints, RowStars
    <3>3. /\ SumOf(RowPoints, RowsOf(u)') = SumOf(RowPoints, RowsOf(u)) + PointsOf(t)
          /\ SumOf(RowStars, RowsOf(u)') = SumOf(RowStars, RowsOf(u)) + StarsOf(t)
      <4>. DEFINE rows == RowsOf(u)
      <4>1. IsFiniteSet(rows)
        BY RowsAreRows
      <4>. HIDE DEF row, rows
      <4>2. SumOf(RowPoints, rows \cup {row}) = SumOf(RowPoints, rows) + RowPoints[row]
        BY <3>1, <3>2, <4>1, SumAdd DEF rows
      <4>3. SumOf(RowStars, rows \cup {row}) = SumOf(RowStars, rows) + RowStars[row]
        BY <3>1, <3>2, <4>1, SumAdd DEF rows
      <4>. QED
        BY <1>4, <3>1, <4>2, <4>3 DEF rows
    <3>4. points'[u] = points[u] + PointsOf(t) /\ stars'[u] = stars[u] + StarsOf(t)
      BY <1>1, <2>2 DEF LedgerInv, LockInv, Typed, TypeOK
    <3>. HIDE DEF t, v, row
    <3>. QED
      BY <1>4, <2>1, <3>3, <3>4, RowsAreRows DEF AddsUp
  <2>3. CASE u # v
    <3>1. RowsOf(u)' = RowsOf(u)
      <4>. HIDE DEF row
      <4>. QED
        BY <1>1, <1>4, <2>3 DEF RowsOf
    <3>2. points'[u] = points[u] /\ stars'[u] = stars[u]
      BY <1>1, <2>3 DEF LedgerInv, LockInv, Typed, TypeOK
    <3>. QED
      BY <2>1, <3>1, <3>2 DEF AddsUp
  <2>. QED
    BY <2>2, <2>3
<1>. QED
  BY <1>3, <1>5

LEMMA GrantAddsUp ==
    ASSUME LedgerInv, NEW r \in Requests, AddUnlockPoints(r)
    PROVE  IsFiniteSet(paid') /\ \A u \in Users : AddsUp(u)'
<1>. DEFINE v == job[r].user
            entry == <<v, job[r].day>>
<1>1. /\ v \in Users /\ entry \notin paid /\ paid' = paid \cup {entry}
      /\ points' = [points EXCEPT ![v] = @ + 1] /\ UNCHANGED <<ledger, stars, spent>>
  BY GrantPaysDay DEF LedgerInv
<1>2. IsFiniteSet(paid') /\ entry[1] = v
  BY <1>1, FS_AddElement DEF LedgerInv
<1>3. ASSUME NEW u \in Users
      PROVE  AddsUp(u)'
  <2>1. /\ AddsUp(u) /\ RowsOf(u)' = RowsOf(u) /\ spent' = spent /\ stars' = stars
        /\ points[u] \in Nat /\ spent[u] \in Nat
    BY <1>1 DEF LedgerInv, RowsOf, LockInv, Typed, TypeOK
  <2>2. CASE u = v
    <3>1. DaysOf(u)' = DaysOf(u) \cup {entry} /\ entry \notin DaysOf(u)
      <4>. HIDE DEF entry
      <4>. QED
        BY <1>1, <1>2, <2>2 DEF DaysOf
    <3>2. Cardinality(DaysOf(u)') = Cardinality(DaysOf(u)) + 1
      BY <3>1, RowsAreRows, FS_AddElement
    <3>3. points'[u] = points[u] + 1
      BY <1>1, <2>2 DEF LedgerInv, LockInv, Typed, TypeOK
    <3>. HIDE DEF v, entry
    <3>. QED
      BY <2>1, <3>2, <3>3, RowsAreRows DEF AddsUp
  <2>3. CASE u # v
    <3>1. DaysOf(u)' = DaysOf(u)
      <4>. HIDE DEF entry
      <4>. QED
        BY <1>1, <1>2, <2>3 DEF DaysOf
    <3>2. points'[u] = points[u]
      BY <1>1, <2>3 DEF LedgerInv, LockInv, Typed, TypeOK
    <3>. QED
      BY <2>1, <3>1, <3>2 DEF AddsUp
  <2>. QED
    BY <2>2, <2>3
<1>. QED
  BY <1>2, <1>3

LEMMA SpendAddsUp ==
    ASSUME LedgerInv, NEW v \in Users, SpendUnlockPoints(v), NEW u \in Users
    PROVE  AddsUp(u)'
<1>1. PICK n \in 1 .. points[v] : /\ points' = [points EXCEPT ![v] = @ - n]
                                  /\ spent' = [spent EXCEPT ![v] = @ + n]
  BY SpendTakes DEF LedgerInv
<1>2. /\ AddsUp(u) /\ RowsOf(u)' = RowsOf(u) /\ DaysOf(u)' = DaysOf(u) /\ stars' = stars
      /\ points[u] \in Nat /\ spent[u] \in Nat /\ points[v] \in Nat
  BY SpendTakes DEF LedgerInv, RowsOf, DaysOf, LockInv, Typed, TypeOK
<1>3. points'[u] + spent'[u] = points[u] + spent[u]
  BY <1>1, <1>2 DEF LedgerInv, LockInv, Typed, TypeOK
<1>. QED
  BY <1>2, <1>3 DEF AddsUp

LEMMA LedgerStep == ASSUME LedgerInv, [Next]_vars PROVE LedgerInv'
<1>1. LockInv'
  BY LockStep DEF LedgerInv
<1>2. ASSUME NEW r \in Requests, Commit(r)
      PROVE  LedgerInv'
  BY <1>1, <1>2, CommitAddsUp DEF LedgerInv, Commit
<1>3. ASSUME NEW r \in Requests, AddUnlockPoints(r)
      PROVE  LedgerInv'
  BY <1>1, <1>3, GrantAddsUp DEF LedgerInv, AddUnlockPoints
<1>4. ASSUME NEW u \in Users, SpendUnlockPoints(u)
      PROVE  LedgerInv'
  BY <1>1, <1>4, SpendAddsUp DEF LedgerInv, SpendUnlockPoints
<1>5. CASE UNCHANGED <<ledger, points, stars, paid, spent>>
  BY <1>1, <1>5 DEF LedgerInv, AddsUp, RowsOf, DaysOf
<1>. QED
  BY <1>2, <1>3, <1>4, <1>5, OthersPayNothing

\* "the ledger row and the balances can never disagree" (purchases.go): what a
\* user holds and has spent is the sum of the user's ledger rows and paid
\* check-ins, whatever transactions overlap or roll back.
THEOREM LedgerAgrees == Spec => []LedgerMatchesBalances
<1>1. Init => LedgerInv
  <2>1. ASSUME Init
        PROVE  LedgerInv
    <3>1. ledger = {} /\ paid = {} /\ IsFiniteSet({})
      BY <2>1, FS_EmptySet DEF Init
    <3>2. \A u \in Users : RowsOf(u) = {} /\ DaysOf(u) = {}
      BY <3>1 DEF RowsOf, DaysOf
    <3>3. SumOf(RowPoints, {}) = 0 /\ SumOf(RowStars, {}) = 0 /\ Cardinality({}) = 0
      BY <3>1, SumStep, FS_EmptySet
    <3>4. \A u \in Users : points[u] = 0 /\ stars[u] = 0 /\ spent[u] = 0
      BY <2>1 DEF Init
    <3>. QED
      BY <2>1, <3>1, <3>2, <3>3, <3>4, InitLocked DEF LedgerInv, AddsUp
  <2>. QED
    BY <2>1
<1>2. LedgerInv /\ [Next]_vars => LedgerInv'
  BY LedgerStep
<1>3. LedgerInv => LedgerMatchesBalances
  BY LedgerSumsMatch
<1>. QED
  BY <1>1, <1>2, <1>3, PTL DEF Spec

-----------------------------------------------------------------------------
(* Check-ins.                                                                *)

\* No check-in, recorded or on its way, is ahead of the clock.
NotAhead ==
    /\ \A entry \in checkins : entry[2] <= today
    /\ \A r \in Requests : pc[r] = "checkin" => job[r].day <= today

ClockInv == Typed /\ NotAhead

LEMMA ClientDays ==
    ASSUME TypeOK, NEW claim \in Days
    PROVE  clientDay(claim) \in Days /\ clientDay(claim) <= today
  BY ConstantsOK DEF clientDay, Days, TypeOK

LEMMA ClockStep == ASSUME ClockInv, [Next]_vars PROVE ClockInv'
<1>1. Typed /\ Typed' /\ NotAhead /\ today \in Int
  BY TypeStep DEF ClockInv, Typed, TypeOK
<1>2. ASSUME UNCHANGED <<today, checkins, pc, job>>
      PROVE  NotAhead'
  BY <1>1, <1>2 DEF NotAhead
<1>3. ASSUME Midnight
      PROVE  NotAhead'
  <2>1. today' = today + 1 /\ UNCHANGED <<checkins, pc, job>>
    BY <1>3 DEF Midnight, tables
  <2>2. \A entry \in checkins : entry[2] <= today + 1
    <3>1. ASSUME NEW entry \in checkins
          PROVE  entry[2] \in Nat /\ entry[2] <= today
      BY <1>1 DEF Typed, TypeOK, Days, NotAhead
    <3>. QED
      BY <1>1, <3>1
  <2>3. \A r \in Requests : pc[r] = "checkin" => job[r].day <= today + 1
    <3>1. ASSUME NEW r \in Requests, pc[r] = "checkin"
          PROVE  job[r].day \in Nat /\ job[r].day <= today
      BY <1>1, <3>1, JobOf DEF Days, NotAhead
    <3>. QED
      BY <1>1, <3>1
  <2>. QED
    BY <1>1, <2>1, <2>2, <2>3 DEF NotAhead
<1>4. ASSUME NEW r \in Requests, NEW u \in Users, handleCheckin(r, u)
      PROVE  NotAhead'
  <2>1. PICK claim \in Days :
            Begin(r, "checkin", [NoJob EXCEPT !.user = u, !.day = clientDay(claim)])
    BY <1>4 DEF handleCheckin
  <2>2. clientDay(claim) <= today
    BY <1>1, ClientDays DEF Typed
  <2>3. [NoJob EXCEPT !.user = u, !.day = clientDay(claim)].day = clientDay(claim)
    BY DEF NoJob
  <2>4. /\ UNCHANGED <<today, checkins>> /\ job'[r].day <= today
        /\ \A q \in Requests : q # r => pc'[q] = pc[q] /\ job'[q] = job[q]
    BY <1>1, <2>1, <2>2, <2>3 DEF Begin, Goto, tables, Typed, TypeOK
  <2>. QED
    BY <1>1, <2>4 DEF NotAhead
<1>5. ASSUME NEW r \in Requests, NEW u \in Users, handleConfirmPurchase(r, u)
      PROVE  NotAhead'
  <2>1. /\ UNCHANGED <<today, checkins>> /\ pc'[r] # "checkin"
        /\ \A q \in Requests : q # r => pc'[q] = pc[q] /\ job'[q] = job[q]
    BY <1>1, <1>5 DEF handleConfirmPurchase, Begin, Goto, tables, Typed, TypeOK
  <2>. QED
    BY <1>1, <2>1 DEF NotAhead
<1>6. ASSUME NEW r \in Requests,
             \/ AddUnlockPoints(r) \/ Replay(r) \/ InsertPurchase(r)
             \/ UpdateBalances(r) \/ Commit(r) \/ Die(r)
      PROVE  NotAhead'
  <2>1. /\ UNCHANGED <<today, checkins>> /\ pc'[r] # "checkin"
        /\ \A q \in Requests : q # r => pc'[q] = pc[q] /\ job'[q] = job[q]
    BY <1>1, <1>6 DEF AddUnlockPoints, Replay, InsertPurchase, UpdateBalances, Commit,
       Die, End, Goto, tables, Typed, TypeOK
  <2>. QED
    BY <1>1, <2>1 DEF NotAhead
<1>7. ASSUME NEW r \in Requests, CheckIn(r)
      PROVE  NotAhead'
  <2>1. /\ UNCHANGED today /\ pc'[r] # "checkin"
        /\ \A q \in Requests : q # r => pc'[q] = pc[q] /\ job'[q] = job[q]
        /\ checkins' \subseteq checkins \cup {<<job[r].user, job[r].day>>}
    BY <1>1, <1>7 DEF CheckIn, End, Goto, Typed, TypeOK
  <2>2. job[r].day <= today
    BY <1>1, <1>7 DEF NotAhead, CheckIn
  <2>. QED
    BY <1>1, <2>1, <2>2 DEF NotAhead
<1>8. NotAhead'
  <2>1. CASE UNCHANGED vars
    BY <1>2, <2>1 DEF vars, tables
  <2>2. ASSUME NEW t \in Transactions, Buy(t)
        PROVE  NotAhead'
    BY <1>2, <2>2 DEF Buy, tables
  <2>3. ASSUME NEW u \in Users, SpendUnlockPoints(u)
        PROVE  NotAhead'
    BY <1>2, <2>3 DEF SpendUnlockPoints
  <2>. QED
    BY <1>3, <1>4, <1>5, <1>6, <1>7, <2>1, <2>2, <2>3 DEF Next, Handler
<1>. QED
  BY <1>1, <1>8 DEF ClockInv

\* Days on or before today, from day 0: as many check-ins at most.
LEMMA FewCheckins ==
    ASSUME ClockInv, NEW u \in Users
    PROVE  Cardinality({entry \in checkins : entry[1] = u}) <= today + 1
<1>. DEFINE mine == {entry \in checkins : entry[1] = u}
            day  == [entry \in mine |-> entry[2]]
<1>1. \A entry \in mine : entry = <<u, entry[2]>> /\ entry[2] \in 0 .. today
  BY DEF ClockInv, NotAhead, Typed, TypeOK, Days
<1>2. today \in Nat /\ IsFiniteSet(0 .. today) /\ Cardinality(0 .. today) = today + 1
  BY FS_Interval DEF ClockInv, Typed, TypeOK
<1>3. day \in Injection(mine, 0 .. today)
  <2>1. day \in [mine -> 0 .. today]
    BY <1>1
  <2>2. \A one, other \in mine : day[one] = day[other] => one = other
    BY <1>1
  <2>. HIDE DEF mine, day
  <2>. QED
    BY <2>1, <2>2 DEF Injection, IsInjective
<1>. HIDE DEF mine, day
<1>4. Cardinality(mine) <= Cardinality(0 .. today)
  BY <1>2, <1>3, FS_Injection
<1>. QED
  BY <1>2, <1>4 DEF mine

\* The cursor of the streak stops where the run of days does.
LEMMA StreakRuns ==
    ASSUME TypeOK, NEW u \in Users, NEW now \in Days, NEW end,
           end = IF <<u, now>> \in checkins THEN now ELSE now - 1
    PROVE  /\ Streak(u, now) \in Nat
           /\ RunEnds(CheckinDates(u, now), end, Streak(u, now))
<1>. DEFINE C == CheckinDates(u, now)
            a == now - Window - 2
<1>1. now \in Nat /\ Window \in Nat /\ a \in Int /\ end \in a .. now
  BY ConstantsOK DEF Days
<1>2. a \notin C /\ (now \in C <=> <<u, now>> \in checkins)
  BY <1>1 DEF CheckinDates
<1>. DEFINE run == CHOOSE g : g = [d \in a .. now |-> IF d \in C THEN 1 + g[d - 1] ELSE 0]
<1>3. Streak(u, now) = IF now \in C THEN run[now] ELSE run[now - 1]
  BY DEF Streak
<1>4. run[end] \in 0 .. end - a /\ RunEnds(C, end, run[end])
  <2>. HIDE DEF C, a
  <2>. QED
    BY <1>1, <1>2, RunCounts
<1>. HIDE DEF C, run
<1>5. Streak(u, now) = run[end]
  BY <1>2, <1>3
<1>. QED
  BY <1>1, <1>4, <1>5 DEF C

LEMMA RunIsLongest ==
    ASSUME TypeOK, NEW u \in Users, NEW now \in Days, NEW end \in {now, now - 1},
           NEW n \in Nat, RunEnds(CheckinDates(u, now), end, n)
    PROVE  n = Min({LongestRun(u, end), Window + 1 - (now - end)})
<1>. DEFINE runs == {m \in 0 .. LastDay + 1 : \A k \in 0 .. m - 1 : <<u, end - k>> \in checkins}
            most == Window + 1 - (now - end)
<1>1. now \in 0 .. LastDay /\ Window \in Nat /\ LastDay \in Nat /\ end \in Int /\ most \in Nat
  BY ConstantsOK DEF Days
<1>2. \A k \in 0 .. n - 1 : /\ <<u, end - k>> \in checkins /\ end - k \in 0 .. LastDay
                            /\ end - k >= now - Window
  BY DEF RunEnds, CheckinDates, Days
<1>3. n <= most /\ n <= LastDay + 1
  <2>1. CASE n = 0
    BY <1>1, <2>1
  <2>2. CASE n # 0
    <3>1. n - 1 \in 0 .. n - 1
      BY <2>2
    <3>2. end - (n - 1) \in 0 .. LastDay /\ end - (n - 1) >= now - Window
      BY <1>2, <3>1
    <3>. QED
      BY <1>1, <3>2
  <2>. QED
    BY <2>1, <2>2
<1>4. n \in runs
  BY <1>1, <1>2, <1>3
<1>5. Max(runs) \in runs /\ \A m \in runs : m <= Max(runs)
  <2>1. runs \in SUBSET Nat /\ LastDay + 1 \in Nat /\ \A m \in runs : m <= LastDay + 1
    BY <1>1
  <2>. HIDE DEF runs
  <2>. QED
    BY <1>4, <2>1, MaxOfBounded
<1>6. n < most => \A m \in runs : m <= n
  <2>1. ASSUME n < most, NEW m \in runs, m > n
        PROVE  FALSE
    <3>1. n \in 0 .. m - 1 /\ <<u, end - n>> \in checkins
      BY <1>1, <2>1
    <3>2. end - n \in Days /\ end - n >= now - Window
      BY <1>1, <2>1, <3>1 DEF TypeOK
    <3>. QED
      BY <3>1, <3>2 DEF RunEnds, CheckinDates
  <2>. QED
    BY <2>1
<1>7. LongestRun(u, end) = Max(runs)
  BY DEF LongestRun
<1>8. Max(runs) \in Nat /\ n <= Max(runs) /\ (n < most => Max(runs) <= n)
  <2>1. runs \in SUBSET Nat
    BY <1>1
  <2>. HIDE DEF runs
  <2>. QED
    BY <1>4, <1>5, <1>6, <2>1
<1>9. Min({Max(runs), most}) = IF Max(runs) <= most THEN Max(runs) ELSE most
  <2>. HIDE DEF runs, most
  <2>. QED
    BY <1>1, <1>8, MinOfPair
<1>. HIDE DEF runs, most
<1>10. n = Min({Max(runs), most})
  BY <1>1, <1>3, <1>8, <1>9
<1>. QED
  BY <1>7, <1>10 DEF most

LEMMA RunIsInWeek ==
    ASSUME TypeOK, NEW u \in Users, NEW now \in Days, NEW end \in {now, now - 1},
           NEW n \in Nat, RunEnds(CheckinDates(u, now), end, n)
    PROVE  WeekCheckedIn(u, now) >= Min({n, end - Monday(now) + 1})
<1>. DEFINE mon  == Monday(now)
            week == {d \in CheckinDates(u, now) : d \in mon .. mon + 6}
            k    == IF n <= end - mon + 1 THEN n ELSE end - mon + 1
<1>1. now \in Nat /\ end \in Int /\ LastDay \in Nat
  BY ConstantsOK DEF Days
<1>2. mon \in Int /\ mon <= now /\ now <= mon + 6
  <2>1. (Weekday(now) + 6) % 7 \in 0 .. 6
    BY <1>1 DEF Weekday
  <2>. QED
    BY <1>1, <2>1 DEF Monday
<1>. HIDE DEF mon
<1>3. k \in Int /\ k <= n /\ k <= end - mon + 1
  BY <1>1, <1>2
<1>4. Min({n, end - mon + 1}) = k
  <2>1. end - mon + 1 \in Int
    BY <1>1, <1>2
  <2>. QED
    BY <2>1, MinOfPair
<1>5. IsFiniteSet(week) /\ Cardinality(week) \in Nat
  <2>1. week \in SUBSET (0 .. LastDay)
    BY DEF CheckinDates, Days
  <2>2. IsFiniteSet(0 .. LastDay)
    BY <1>1, FS_Interval
  <2>. HIDE DEF week
  <2>. QED
    BY <2>1, <2>2, FS_Subset, FS_CardinalityType
<1>6. Cardinality(week) >= k
  <2>1. CASE k <= 0
    <3>. HIDE DEF week, k
    <3>. QED
      BY <1>3, <1>5, <2>1
  <2>2. CASE k > 0
    <3>. DEFINE days == (end - k + 1) .. end
    <3>1. \A d \in days : d \in mon .. mon + 6
      <4>. HIDE DEF k
      <4>. QED
        BY <1>1, <1>2, <1>3
    <3>2. \A d \in days : d \in CheckinDates(u, now)
      <4>1. ASSUME NEW d \in days
            PROVE  end - d \in 0 .. n - 1 /\ end - (end - d) = d
        <5>. HIDE DEF k
        <5>. QED
          BY <1>1, <1>3
      <4>. HIDE DEF days
      <4>. QED
        BY <4>1 DEF RunEnds
    <3>3. days \in SUBSET week
      BY <3>1, <3>2
    <3>4. Cardinality(days) = k
      <4>1. end - k + 1 \in Int /\ ~(end - k + 1 > end) /\ end - (end - k + 1) + 1 = k
        <5>. HIDE DEF k
        <5>. QED
          BY <1>1, <1>3, <2>2
      <4>. HIDE DEF k
      <4>. QED
        BY <1>1, <4>1, FS_Interval
    <3>5. Cardinality(days) <= Cardinality(week)
      <4>. HIDE DEF days, week
      <4>. QED
        BY <1>5, <3>3, FS_Subset
    <3>. HIDE DEF days, week, k
    <3>. QED
      BY <1>3, <1>5, <3>4, <3>5
  <2>. QED
    BY <1>3, <2>1, <2>2
<1>7. WeekCheckedIn(u, now) = Cardinality(week)
  BY DEF WeekCheckedIn, mon
<1>. QED
  BY <1>4, <1>6, <1>7 DEF mon

LEMMA StreaksAreRuns == ASSUME TypeOK PROVE StreakIsARun
<1>1. SUFFICES ASSUME NEW u \in Users, NEW claim \in Days
               PROVE  LET now == clientDay(claim)
                          end == IF <<u, now>> \in checkins THEN now ELSE now - 1
                      IN  /\ Streak(u, now) =
                                 Min({LongestRun(u, end), Window + 1 - (now - end)})
                          /\ WeekCheckedIn(u, now) >=
                                 Min({Streak(u, now), end - Monday(now) + 1})
  BY DEF StreakIsARun
<1>. DEFINE now == clientDay(claim)
            end == IF <<u, now>> \in checkins THEN now ELSE now - 1
<1>2. now \in Days /\ end \in {now, now - 1}
  BY ClientDays
<1>. HIDE DEF now
<1>3. /\ Streak(u, now) \in Nat
      /\ RunEnds(CheckinDates(u, now), end, Streak(u, now))
  <2>. HIDE DEF end
  <2>1. end = IF <<u, now>> \in checkins THEN now ELSE now - 1
    BY DEF end
  <2>. QED
    BY <1>2, <2>1, StreakRuns
<1>4. Streak(u, now) = Min({LongestRun(u, end), Window + 1 - (now - end)})
  <2>. HIDE DEF end
  <2>. QED
    BY <1>2, <1>3, RunIsLongest
<1>5. WeekCheckedIn(u, now) >= Min({Streak(u, now), end - Monday(now) + 1})
  <2>. HIDE DEF end
  <2>. QED
    BY <1>2, <1>3, RunIsInWeek
<1>. QED
  BY <1>4, <1>5 DEF now

\* "a forged past/future date used to farm extra check-ins" (checkin.go): no
\* check-in is ahead of the clock, a user has one a day at most, and a streak
\* is the run of days it claims to be, as far back as the calendar reads.
THEOREM NobodyFarmsCheckins == Spec => []CheckinsAreNotFarmed
<1>1. Init => ClockInv
  <2>1. ASSUME Init PROVE NotAhead
    BY <2>1 DEF Init, NotAhead
  <2>. QED
    BY <2>1, InitTyped DEF ClockInv
<1>2. ClockInv /\ [Next]_vars => ClockInv'
  BY ClockStep
<1>3. ClockInv => CheckinsAreNotFarmed
  BY FewCheckins, StreaksAreRuns DEF CheckinsAreNotFarmed, ClockInv, NotAhead, Typed
<1>. QED
  BY <1>1, <1>2, <1>3, PTL DEF Spec
=============================================================================
