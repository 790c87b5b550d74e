------------------------ MODULE DailyChallengeProofs ------------------------
(* What holds of DailyChallenge for any users, dates, rows and handlers. *)
EXTENDS DailyChallenge, Counting

USE DEF NoOption, NoDate

\* The typing facts the steps share.
LEMMA JobArg ==
    ASSUME NEW j \in Job, NEW n \in Nat
    PROVE  [j EXCEPT !.arg = n] \in Job
  BY DEF Job

LEMMA RowFacts ==
    ASSUME NEW j \in Job
    PROVE  /\ j.user \in Users /\ j.date \in Dates /\ j.arg \in Nat
           /\ j.row \in Rows /\ j.row.xpReward \in Int
           /\ j.row.pieces \in Nat /\ j.row.quiz \in {NoOption, 0, 1}
  BY ConstantsOK DEF Job

LEMMA TableUpdate ==
    ASSUME NEW S, NEW f \in [Users -> [Dates -> S]],
           NEW u \in Users, NEW d \in Dates, NEW v \in S
    PROVE  [f EXCEPT ![u][d] = v] \in [Users -> [Dates -> S]]
  OBVIOUS

LEMMA AcceptType ==
    ASSUME TypeOK, NEW r \in Requests, NEW op \in Ops, NEW n \in Nat,
           op = "answer" => n \in {0, 1}, Accept(r, op, n)
    PROVE  TypeOK'
<1>1. job[r] \in Job
  BY DEF TypeOK, Accept
<1>2. [job[r] EXCEPT !.arg = n] \in Job
  BY <1>1, JobArg
<1>3. [job[r] EXCEPT !.arg = n].op = op /\ [job[r] EXCEPT !.arg = n].arg = n
  BY <1>1 DEF Job, Accept
<1> QED
  BY <1>1, <1>2, <1>3 DEF TypeOK, Accept, Goto, PCs, tables, history

\* The tables, the handlers and the history keep their types.
LEMMA TypeStep == TypeOK /\ [Next]_vars => TypeOK'
<1> SUFFICES ASSUME TypeOK, [Next]_vars PROVE TypeOK'
  OBVIOUS
<1> USE DEF TypeOK, tables, history, PCs, Goto, End
<1>1. CASE Midnight
  BY <1>1, ConstantsOK DEF Midnight
<1>2. CASE Admin
  <2>1. ASSUME NEW d \in Dates, NEW row \in Rows, SaveRow(d, row)
        PROVE  [daily EXCEPT ![d] = row] \in [Dates -> Rows \cup {NoRow}]
    OBVIOUS
  <2>2. ASSUME NEW d \in Dates, NEW row \in Rows,
               CreateChallenge(d, row) \/ UpdateChallenge(d, row)
        PROVE  TypeOK'
    BY <2>1, <2>2 DEF CreateChallenge, UpdateChallenge, SaveRow
  <2>3. ASSUME NEW a \in Admins, NextChallengeDate(a)
        PROVE  TypeOK'
    <3> DEFINE next == Max({today} \cup
                 {d + 1 : d \in {q \in Dates : daily[q] # NoRow}})
    <3>1. next \in Dates /\ picked' = [picked EXCEPT ![a] = next]
      BY <2>3 DEF NextChallengeDate
    <3> HIDE DEF next
    <3>2. picked' \in [Admins -> Dates \cup {NoDate}]
      BY <3>1
    <3> QED
      BY <2>3, <3>2 DEF NextChallengeDate
  <2>4. ASSUME NEW a \in Admins, NEW row \in Rows, AppendChallenge(a, row)
        PROVE  TypeOK'
    <3>1. picked[a] \in Dates
      BY <2>4 DEF AppendChallenge
    <3>2. picked' \in [Admins -> Dates \cup {NoDate}]
      BY <2>4 DEF AppendChallenge
    <3> QED
      BY <2>1, <2>4, <3>1, <3>2 DEF AppendChallenge, SaveRow
  <2> QED
    BY <1>2, <2>2, <2>3, <2>4 DEF Admin
<1>3. ASSUME NEW r \in Requests, NEW op \in Ops, NEW u \in Users,
             NEW d \in Dates, Load(r, op, u, d)
      PROVE  TypeOK'
  <2>1. job'[r] \in Job /\ job'[r].arg = 0
    BY <1>3 DEF Load, Job
  <2> QED
    BY <1>3, <2>1 DEF Load
<1>4. ASSUME NEW r \in Requests, Handler(r)
      PROVE  TypeOK'
  <2> DEFINE j == job[r]
  <2>0. j \in Job /\ pc[r] # "idle"
    BY <1>4, RowFacts DEF Handler, CheckStart, CheckFail, CheckComplete,
         CheckAnswer, Accept, Refuse, StartResult, FailResult, CompleteResult,
         FinishNothing, AddXP, AddXPFails, AddUnlockPoints, ReadResult,
         AnswerChallengeQuiz
  <2>00. /\ j.user \in Users /\ j.date \in Dates /\ j.arg \in Nat
         /\ j.row \in Rows /\ j.row.xpReward \in Int
         /\ j.row.pieces \in Nat /\ result[j.user][j.date] \in Result
    BY <2>0, RowFacts
  <2> HIDE DEF j
  <2>1. CASE CheckStart(r)
    BY <2>1, AcceptType DEF CheckStart, Ops
  <2>2. CASE CheckFail(r)
    <3>1. \A claim \in Claims : FailedPieces(claim) \in Nat
      BY ConstantsOK DEF FailedPieces
    <3> QED
      BY <2>2, <3>1, AcceptType DEF CheckFail, Ops
  <2>3. CASE CheckComplete(r)
    <3>1. \A claim \in Claims : WonPieces(claim, job[r].row) \in Nat
      BY <2>00, ConstantsOK DEF WonPieces, j
    <3> QED
      BY <2>3, <3>1, AcceptType DEF CheckComplete, Ops
  <2>4. CASE CheckAnswer(r)
    BY <2>4, AcceptType DEF CheckAnswer, Ops
  <2>5. CASE Refuse(r)
    BY <2>5 DEF Refuse
  <2>6. CASE StartResult(r)
    <3>1. Inserted(result[j.user][j.date]) \in Result
      BY <2>00 DEF Inserted, Result, Statuses
    <3>2. result' = [result EXCEPT ![j.user][j.date] =
                         Inserted(result[j.user][j.date])]
      BY <2>6, <2>00 DEF StartResult, j
    <3>3. result' \in [Users -> [Dates -> Result]]
      BY <3>1, <3>2, <2>00, TableUpdate
    <3> QED
      BY <2>6, <3>3 DEF StartResult
  <2>7. ASSUME NEW status \in {"failed", "completed"}, Transition(j, status)
        PROVE  /\ result' \in [Users -> [Dates -> Result]]
               /\ totalScore' \in [Users -> Nat]
    <3> DEFINE new == [result[j.user][j.date] EXCEPT !.status = status,
                                                     !.correct = j.arg]
    <3>1. new \in Result
      BY <2>7, <2>00 DEF Result, Statuses
    <3>2. result' = [result EXCEPT ![j.user][j.date] = new]
      BY <2>7, <2>00 DEF Transition
    <3>3. result' \in [Users -> [Dates -> Result]]
      BY <3>1, <3>2, <2>00, TableUpdate
    <3> QED
      BY <2>7, <2>00, <3>3 DEF Transition
  <2>8. CASE FailResult(r)
    BY <2>7, <2>8 DEF FailResult, Transition, j
  <2>9. CASE CompleteResult(r)
    <3>1. LET next == FirstAward(j.row.xpReward)
          IN  /\ next \in {"awardXP", "awardPoint"}
              /\ next = "awardXP" => j.row.xpReward > 0
      BY DEF FirstAward
    <3>2. promised' \in [Users -> [Dates -> Nat]]
      BY <2>9, <2>00 DEF CompleteResult, j
    <3> QED
      BY <2>7, <2>9, <3>1, <3>2, <2>0 DEF CompleteResult, Transition, j
  <2>10. CASE FinishNothing(r)
    BY <2>10 DEF FinishNothing
  <2>11. CASE AddXP(r)
    <3>1. xp' \in [Users -> Nat]
      BY <2>11, <2>00, SMTT(30) DEF AddXP, j
    <3>2. credited' \subseteq Awards
      BY <2>11, <2>00 DEF AddXP, j, Awards, Kinds
    <3> QED
      BY <2>11, <3>1, <3>2, <2>0 DEF AddXP, j
  <2>12. CASE AddXPFails(r)
    <3>1. lost' \subseteq Awards
      BY <2>12, <2>00 DEF AddXPFails, j, Awards, Kinds
    <3> QED
      BY <2>12, <3>1, <2>0 DEF AddXPFails, j
  <2>13. CASE AddUnlockPoints(r)
    <3>1. credited' \subseteq Awards
      BY <2>13, <2>00 DEF AddUnlockPoints, j, Awards, Kinds
    <3> QED
      BY <2>13, <3>1, <2>00 DEF AddUnlockPoints, j
  <2>14. CASE ReadResult(r)
    BY <2>14, <2>0, ZenonT(30) DEF ReadResult, j
  <2>15. CASE AnswerChallengeQuiz(r)
    <3> DEFINE new == [result[j.user][j.date] EXCEPT !.quiz = j.arg]
    <3>1. new \in Result
      BY <2>15, <2>00, <2>0 DEF AnswerChallengeQuiz, Result, j
    <3>2. \/ result' = [result EXCEPT ![j.user][j.date] = new]
          \/ result' = result
      BY <2>15, <2>00 DEF AnswerChallengeQuiz, j
    <3>3. result' \in [Users -> [Dates -> Result]]
      <4>1. [result EXCEPT ![j.user][j.date] = new]
              \in [Users -> [Dates -> Result]]
        BY <3>1, <2>00, TableUpdate
      <4> QED
        BY <3>2, <4>1
    <3>4. credited' \subseteq Awards /\ points' \in [Users -> Nat]
      BY <2>15, <2>00 DEF AnswerChallengeQuiz, j, Awards, Kinds
    <3> QED
      BY <2>15, <3>3, <3>4 DEF AnswerChallengeQuiz
  <2> QED
    BY <1>4, <2>1, <2>2, <2>3, <2>4, <2>5, <2>6, <2>8, <2>9, <2>10,
       <2>11, <2>12, <2>13, <2>14, <2>15 DEF Handler
<1>5. ASSUME NEW r \in Requests, Die(r)
      PROVE  TypeOK'
  <2>1. /\ job[r].user \in Users /\ job[r].date \in Dates
        /\ {"xp", "point"} \subseteq Kinds
    BY <1>5, RowFacts DEF Die, Kinds
  <2>2. lost' \subseteq Awards
    BY <1>5, <2>1 DEF Die, Awards
  <2> QED
    BY <1>5, <2>2 DEF Die
<1>6. CASE UNCHANGED vars
  BY <1>6 DEF vars
<1> QED
  BY <1>1, <1>2, <1>3, <1>4, <1>5, <1>6 DEF Next

\* Every reachable state is well typed.
THEOREM TypeCorrect == Spec => []TypeOK
<1>1. Init => TypeOK
  BY ConstantsOK DEF Init, TypeOK, NoResult, Result, Statuses, PCs
<1> QED
  BY <1>1, TypeStep, PTL DEF Spec

-----------------------------------------------------------------------------
(* The steps the tables and the history do not see *)

Pays(r) == pc[r] \in {"awardXP", "awardPoint"}

\* No result, balance or award changes; no handler starts or stops owing an
\* award, and none passes the check of a start.
Silent ==
    /\ UNCHANGED <<result, totalScore, xp, points, history>>
    /\ today \in Nat /\ today' \in Nat /\ today <= today'
    /\ \A q \in Requests :
           \/ pc'[q] = pc[q] /\ job'[q] = job[q]
           \/ /\ ~Pays(q) /\ ~Pays(q)'
              /\ ~(pc'[q] = "checked" /\ job'[q].op = "start")

\* Handler r moves alone, on the day it finds.
Alone(r) ==
    /\ UNCHANGED today /\ today \in Nat
    /\ \A q \in Requests \ {r} : pc'[q] = pc[q] /\ job'[q] = job[q]

LEMMA NextCases ==
    ASSUME TypeOK, [Next]_vars
    PROVE  \/ Silent
           \/ \E r \in Requests :
                /\ Alone(r)
                /\ \/ CheckStart(r) \/ StartResult(r) \/ FailResult(r)
                   \/ CompleteResult(r) \/ AddXP(r) \/ AddXPFails(r)
                   \/ AddUnlockPoints(r) \/ AnswerChallengeQuiz(r) \/ Die(r)
<1> USE DEF Silent, Pays, tables, history, Goto, End
<1>0. today \in Nat
  BY ConstantsOK DEF TypeOK
<1>1. CASE Midnight
  BY <1>1, <1>0 DEF Midnight
<1>2. CASE Admin
  <2>1. \/ \E d \in Dates, row \in Rows : SaveRow(d, row)
        \/ \E a \in Admins : NextChallengeDate(a)
        \/ \E a \in Admins, row \in Rows : SaveRow(picked[a], row)
    BY <1>2 DEF Admin, CreateChallenge, UpdateChallenge, AppendChallenge
  <2>2. ASSUME NEW a \in Admins, NextChallengeDate(a)
        PROVE  UNCHANGED <<today, tables, pc, job, history>>
    BY <2>2 DEF NextChallengeDate
  <2>3. ASSUME NEW d, NEW row, SaveRow(d, row)
        PROVE  Silent
    BY <2>3, <1>0 DEF SaveRow
  <2> QED
    BY <2>1, <2>2, <2>3, <1>0
<1>3. ASSUME NEW r \in Requests, NEW op \in Ops, NEW u \in Users,
             NEW d \in Dates, Load(r, op, u, d)
      PROVE  Silent
  BY <1>3, <1>0 DEF Load, TypeOK
<1>4. ASSUME NEW r \in Requests, NEW op \in Ops, NEW n \in Nat,
             op # "start", Accept(r, op, n)
      PROVE  Silent
  <2>1. job[r] \in Job
    BY <1>4 DEF TypeOK, Accept
  <2>2. job'[r].op = op
    BY <1>4, <2>1 DEF Accept, TypeOK, Job
  <2> QED
    BY <1>4, <1>0, <2>2 DEF Accept, TypeOK
<1>5. ASSUME NEW r \in Requests, Handler(r)
      PROVE  \/ Silent
             \/ /\ Alone(r)
                /\ \/ CheckStart(r) \/ StartResult(r) \/ FailResult(r)
                   \/ CompleteResult(r) \/ AddXP(r) \/ AddXPFails(r)
                   \/ AddUnlockPoints(r) \/ AnswerChallengeQuiz(r)
  <2>1. CASE CheckFail(r)
    <3>1. \A claim \in Claims : FailedPieces(claim) \in Nat
      BY ConstantsOK DEF FailedPieces
    <3> QED
      BY <2>1, <3>1, <1>4 DEF CheckFail, Ops
  <2>2. CASE CheckComplete(r)
    <3>1. job[r] \in Job
      BY <2>2 DEF CheckComplete, Accept, TypeOK
    <3>2. \A claim \in Claims : WonPieces(claim, job[r].row) \in Nat
      BY <3>1, RowFacts, ConstantsOK DEF WonPieces
    <3> QED
      BY <2>2, <3>2, <1>4 DEF CheckComplete, Ops
  <2>3. CASE CheckAnswer(r)
    BY <2>3, <1>4 DEF CheckAnswer, Ops
  <2>4. CASE Refuse(r) \/ FinishNothing(r) \/ ReadResult(r)
    BY <2>4, <1>0 DEF Refuse, FinishNothing, ReadResult, TypeOK
  <2>5. CASE CheckStart(r)
    BY <2>5, <1>0 DEF CheckStart, Accept, Alone, TypeOK
  <2>6. CASE StartResult(r) \/ FailResult(r) \/ AddUnlockPoints(r)
                \/ AnswerChallengeQuiz(r)
    BY <2>6, <1>0 DEF StartResult, FailResult, Transition, AddUnlockPoints,
       AnswerChallengeQuiz, Alone, TypeOK
  <2>7. CASE CompleteResult(r) \/ AddXP(r) \/ AddXPFails(r)
    BY <2>7, <1>0 DEF CompleteResult, Transition, AddXP, AddXPFails, Alone,
       TypeOK
  <2> QED
    BY <1>5, <2>1, <2>2, <2>3, <2>4, <2>5, <2>6, <2>7 DEF Handler
<1>6. ASSUME NEW r \in Requests, Die(r)
      PROVE  Alone(r)
  BY <1>6, <1>0 DEF Die, Alone, TypeOK
<1>7. CASE UNCHANGED vars
  BY <1>7, <1>0 DEF vars
<1> QED
  BY <1>1, <1>2, <1>3, <1>5, <1>6, <1>7 DEF Next

-----------------------------------------------------------------------------
(* Nothing is played before its day *)

\* A handler that passed the check of the clock stays allowed: days only pass.
StartsAreDue ==
    \A r \in Requests :
        pc[r] = "checked" /\ job[r].op = "start" => job[r].date <= today

EarlyInv == TypeOK /\ StartsAreDue /\ NothingPlayedEarly

LEMMA EarlyStep == EarlyInv /\ [Next]_vars => EarlyInv'
<1> SUFFICES ASSUME EarlyInv, [Next]_vars PROVE EarlyInv'
  OBVIOUS
<1> USE DEF EarlyInv, StartsAreDue, NothingPlayedEarly
<1>0. TypeOK /\ TypeOK'
  BY TypeStep
<1>1. CASE Silent
  <2>1. \A r \in Requests : pc'[r] = "checked" => job'[r] \in Job
    BY <1>0 DEF TypeOK
  <2>2. \A d \in Dates : d \in Nat
    BY ConstantsOK
  <2>3. \A r \in Requests : pc'[r] = "checked" => job'[r].date \in Nat
    BY <2>1, <2>2, RowFacts
  <2> QED
    BY <1>0, <1>1, <2>2, <2>3 DEF Silent
<1>2. ASSUME NEW r \in Requests, Alone(r),
             \/ CheckStart(r) \/ StartResult(r) \/ FailResult(r)
             \/ CompleteResult(r) \/ AddXP(r) \/ AddXPFails(r)
             \/ AddUnlockPoints(r) \/ AnswerChallengeQuiz(r) \/ Die(r)
      PROVE  StartsAreDue' /\ NothingPlayedEarly'
  <2>1. job[r] \in Job /\ pc[r] # "idle"
    BY <1>0, <1>2 DEF TypeOK, CheckStart, Accept, StartResult, FailResult,
       CompleteResult, AddXP, AddXPFails, AddUnlockPoints,
       AnswerChallengeQuiz, Die
  <2>2. StartsAreDue'
    <3>1. CASE CheckStart(r)
      <4>1. job'[r].date = job[r].date
        BY <3>1, <2>1, <1>0 DEF CheckStart, Accept, TypeOK, Job
      <4> QED
        BY <3>1, <4>1, <1>2 DEF Alone, CheckStart, challengeIsActive
    <3>2. CASE ~CheckStart(r)
      <4>1. pc'[r] # "checked"
        BY <3>2, <1>0, <1>2 DEF TypeOK, StartResult, FailResult,
           CompleteResult, AddXP, AddXPFails, AddUnlockPoints,
           AnswerChallengeQuiz, Die, Goto, End, FirstAward
      <4> QED
        BY <4>1, <1>2 DEF Alone
    <3> QED
      BY <3>1, <3>2
  <2>3. NothingPlayedEarly'
    <3> SUFFICES ASSUME NEW u \in Users, NEW d \in Dates,
                        result'[u][d].status # "none"
                 PROVE  d <= today
      BY <1>2 DEF Alone
    <3>1. CASE result[u][d].status # "none"
      BY <3>1
    <3>2. CASE result[u][d].status = "none"
      <4>1. StartResult(r) /\ job[r].user = u /\ job[r].date = d
        <5> DEFINE j == job[r]
        <5>1. result[j.user][j.date] \in Result /\ result[u][d] \in Result
              /\ j.user \in Users /\ j.date \in Dates
          BY <1>0, <2>1, RowFacts DEF TypeOK
        <5>2. result'[u][d] # result[u][d]
          BY <3>2
        <5>3. CASE FailResult(r) \/ CompleteResult(r)
          <6>1. \E s : Transition(j, s)
            BY <5>3 DEF FailResult, CompleteResult
          <6>2. MayFinish(result[u][d])
            BY <6>1, <5>1, <5>2, <1>0, SMTT(30) DEF Transition, TypeOK
          <6> QED
            BY <6>2, <3>2 DEF MayFinish
        <5>4. CASE AnswerChallengeQuiz(r)
          <6>1. MayAnswer(result[u][d])
            BY <5>4, <5>1, <5>2, <1>0 DEF AnswerChallengeQuiz, TypeOK
          <6> QED
            BY <6>1, <3>2 DEF MayAnswer
        <5>5. CASE StartResult(r)
          BY <5>5, <5>1, <5>2, <1>0 DEF StartResult, TypeOK
        <5> QED
          BY <1>2, <5>2, <5>3, <5>4, <5>5 DEF CheckStart, Accept, AddXP,
             AddXPFails, AddUnlockPoints, Die, tables
      <4> QED
        BY <4>1 DEF StartResult
    <3> QED
      BY <3>1, <3>2
  <2> QED
    BY <2>2, <2>3
<1> QED
  BY <1>0, <1>1, <1>2, NextCases

\* Whatever day a handler checked, a result belongs to a day that has come.
THEOREM NoEarlyPlay == Spec => []NothingPlayedEarly
<1>1. Init => EarlyInv
  BY ConstantsOK
     DEF Init, EarlyInv, StartsAreDue, NothingPlayedEarly, NoResult, TypeOK,
         Result, Statuses, PCs
<1>2. EarlyInv => NothingPlayedEarly
  BY DEF EarlyInv
<1> QED
  BY <1>1, <1>2, EarlyStep, PTL DEF Spec

-----------------------------------------------------------------------------
(* How results change *)

\* A handler writes one result, from a state that the statement's WHERE clause
\* (or ON CONFLICT) admits.
LEMMA ResultSteps ==
    ASSUME TypeOK, NEW r \in Requests,
           \/ StartResult(r) \/ FailResult(r) \/ CompleteResult(r)
           \/ AnswerChallengeQuiz(r)
    PROVE  LET j == job[r]
               old == result[j.user][j.date]
               new == result'[j.user][j.date]
           IN  /\ j \in Job /\ old \in Result
               /\ StartResult(r) => new = Inserted(old)
               /\ FailResult(r) =>
                     /\ MayFinish(old)
                     /\ new = [old EXCEPT !.status = "failed",
                                          !.correct = j.arg]
               /\ CompleteResult(r) =>
                     /\ MayFinish(old)
                     /\ new = [old EXCEPT !.status = "completed",
                                          !.correct = j.arg]
               /\ AnswerChallengeQuiz(r) =>
                     \/ new = old
                     \/ MayAnswer(old) /\ new = [old EXCEPT !.quiz = j.arg]
<1> DEFINE j == job[r]
<1>1. j \in Job
  BY DEF TypeOK, StartResult, FailResult, CompleteResult, AnswerChallengeQuiz
<1>2. /\ j.user \in Users /\ j.date \in Dates
      /\ result[j.user][j.date] \in Result
      /\ result \in [Users -> [Dates -> Result]]
  BY <1>1, RowFacts DEF TypeOK
<1>3. CASE StartResult(r)
  BY <1>1, <1>2, <1>3 DEF StartResult, FailResult, CompleteResult,
     AnswerChallengeQuiz
<1>4. CASE FailResult(r)
  BY <1>1, <1>2, <1>4 DEF StartResult, FailResult, CompleteResult,
     AnswerChallengeQuiz, Transition
<1>5. CASE CompleteResult(r)
  BY <1>1, <1>2, <1>5 DEF StartResult, FailResult, CompleteResult,
     AnswerChallengeQuiz, Transition
<1>6. CASE AnswerChallengeQuiz(r)
  BY <1>1, <1>2, <1>6 DEF StartResult, FailResult, CompleteResult,
     AnswerChallengeQuiz
<1> QED
  BY <1>3, <1>4, <1>5, <1>6

\* ... and only that one.
LEMMA ResultFrame ==
    ASSUME TypeOK, NEW r \in Requests,
           \/ StartResult(r) \/ FailResult(r) \/ CompleteResult(r)
           \/ AnswerChallengeQuiz(r),
           NEW u \in Users, NEW d \in Dates,
           u # job[r].user \/ d # job[r].date
    PROVE  result'[u][d] = result[u][d]
<1>1. \/ result' = result
      \/ \E v : result' = [result EXCEPT ![job[r].user][job[r].date] = v]
  BY DEF StartResult, FailResult, CompleteResult, AnswerChallengeQuiz,
         Transition
<1>2. result \in [Users -> [Dates -> Result]]
  BY DEF TypeOK
<1>3. ASSUME NEW v, result' = [result EXCEPT ![job[r].user][job[r].date] = v]
      PROVE  result'[u][d] = result[u][d]
  <2>1. CASE u # job[r].user
    BY <1>2, <1>3, <2>1
  <2>2. CASE d # job[r].date
    BY <1>2, <1>3, <2>2
  <2> QED
    BY <2>1, <2>2
<1> QED
  BY <1>1, <1>3

\* The other steps leave every result as it is.
LEMMA NoResultStep ==
    ASSUME TypeOK, NEW r \in Requests,
           \/ CheckStart(r) \/ AddXP(r) \/ AddXPFails(r)
           \/ AddUnlockPoints(r) \/ Die(r)
    PROVE  UNCHANGED <<result, totalScore>>
  BY DEF CheckStart, Accept, AddXP, AddXPFails, AddUnlockPoints, Die, tables

\* "a finished reputation can never be reset": no step, of any number of
\* handlers, takes a result back or rewrites its outcome or its quiz answer.
THEOREM ReputationIsFinal == Spec => FinishedIsFinal
<1> DEFINE Kept(old, new) ==
               /\ Finished(old) => new.status = old.status
                                       /\ new.correct = old.correct
               /\ old.status = "in_progress" => new.status # "none"
               /\ old.status = "none" => ~Finished(new)
               /\ old.quiz # NoOption => new.quiz = old.quiz
<1>1. ASSUME TypeOK, [Next]_vars, NEW u \in Users, NEW d \in Dates
      PROVE  Kept(result[u][d], result'[u][d])
  <2>0. result[u][d] \in Result
    BY <1>1 DEF TypeOK
  <2>1. ASSUME result'[u][d] = result[u][d]
        PROVE  Kept(result[u][d], result'[u][d])
    BY <2>1 DEF Finished
  <2>2. CASE Silent
    BY <2>1, <2>2 DEF Silent
  <2>3. ASSUME NEW r \in Requests,
               \/ StartResult(r) \/ FailResult(r) \/ CompleteResult(r)
               \/ AnswerChallengeQuiz(r)
        PROVE  Kept(result[u][d], result'[u][d])
    <3>1. CASE u # job[r].user \/ d # job[r].date
      <4>1. result'[u][d] = result[u][d]
        BY <1>1, <2>3, <3>1, ResultFrame
      <4> QED
        BY <2>1, <4>1
    <3>2. CASE u = job[r].user /\ d = job[r].date
      BY <1>1, <2>0, <2>3, <3>2, ResultSteps
         DEF Inserted, MayFinish, MayAnswer, Finished, Result, Statuses
    <3> QED
      BY <3>1, <3>2
  <2>4. ASSUME NEW r \in Requests,
               \/ CheckStart(r) \/ AddXP(r) \/ AddXPFails(r)
               \/ AddUnlockPoints(r) \/ Die(r)
        PROVE  Kept(result[u][d], result'[u][d])
    BY <1>1, <2>1, <2>4, NoResultStep
  <2> QED
    BY <1>1, <2>2, <2>3, <2>4, NextCases
<1>2. TypeOK /\ [Next]_vars =>
          [\A u \in Users, d \in Dates : Kept(result[u][d], result'[u][d])]_vars
  BY <1>1
<1> QED
  BY <1>2, TypeCorrect, PTL DEF Spec, FinishedIsFinal

\* "so the two can never drift": every step adds to a user's score exactly the
\* pieces of the one result it ends, or leaves score and pieces alone.
LEMMA ScoreStep ==
    ASSUME TypeOK, [Next]_vars, NEW u \in Users
    PROVE  ScoreMoves(u)
<1>1. ASSUME UNCHANGED <<result, totalScore>>
      PROVE  ScoreMoves(u)
  BY <1>1 DEF ScoreMoves
<1>2. ASSUME NEW r \in Requests, StartResult(r) \/ AnswerChallengeQuiz(r)
      PROVE  ScoreMoves(u)
  <2>1. totalScore' = totalScore
    BY <1>2 DEF StartResult, AnswerChallengeQuiz
  <2>2. ASSUME NEW d \in Dates, NEW old, NEW new,
               old = result[u][d], new = result'[u][d],
               Finished(old) \/ Finished(new)
        PROVE  new.correct = old.correct /\ Finished(old) /\ Finished(new)
    <3>1. CASE u # job[r].user \/ d # job[r].date
      <4>1. new = old
        BY <1>2, <2>2, <3>1, ResultFrame
      <4> QED
        BY <2>2, <4>1
    <3>2. CASE u = job[r].user /\ d = job[r].date
      <4>1. /\ old \in Result
            /\ \/ new = Inserted(old)
               \/ new = old
               \/ MayAnswer(old) /\ new = [old EXCEPT !.quiz = job[r].arg]
        BY <1>2, <2>2, <3>2, ResultSteps
      <4> QED
        BY <2>2, <4>1 DEF Inserted, MayAnswer, Finished, Result
    <3> QED
      BY <3>1, <3>2
  <2> QED
    BY <2>1, <2>2 DEF ScoreMoves
<1>3. ASSUME NEW r \in Requests, FailResult(r) \/ CompleteResult(r)
      PROVE  ScoreMoves(u)
  <2> DEFINE j == job[r]
  <2>1. /\ j.user \in Users /\ j.date \in Dates
        /\ result[j.user][j.date] \in Result
    <3>1. j \in Job /\ result[j.user][j.date] \in Result
      BY <1>3, ResultSteps
    <3> QED
      BY <3>1, RowFacts
  <2>2. totalScore' = [totalScore EXCEPT ![j.user] = @ + j.arg]
    BY <1>3 DEF FailResult, CompleteResult, Transition
  <2>3. CASE u # j.user
    <3>1. totalScore'[u] = totalScore[u]
      BY <2>2, <2>3 DEF TypeOK
    <3>2. \A d \in Dates : result'[u][d] = result[u][d]
      BY <1>3, <2>3, ResultFrame
    <3> QED
      BY <3>1, <3>2 DEF ScoreMoves
  <2>4. CASE u = j.user
    <3>1. \A e \in Dates \ {j.date} : result'[u][e] = result[u][e]
      BY <1>3, <2>4, ResultFrame
    <3>2. /\ MayFinish(result[u][j.date])
          /\ \E s \in {"failed", "completed"} :
               result'[u][j.date] =
                 [result[u][j.date] EXCEPT !.status = s, !.correct = j.arg]
      BY <1>3, <2>4, ResultSteps
    <3>3. /\ ~Finished(result[u][j.date]) /\ Finished(result'[u][j.date])
          /\ result'[u][j.date].correct = j.arg
      BY <2>1, <2>4, <3>2 DEF Finished, MayFinish, Result
    <3>4. totalScore'[u] = totalScore[u] + j.arg
      BY <2>1, <2>2, <2>4 DEF TypeOK
    <3> QED
      BY <2>1, <3>1, <3>3, <3>4 DEF ScoreMoves
  <2> QED
    BY <2>3, <2>4
<1> QED
  BY <1>1, <1>2, <1>3, NextCases, NoResultStep DEF Silent

\* ... and so does every step of a behaviour.
THEOREM ScoreFollowsResults == Spec => ScoreMovesWithResults
<1>1. TypeOK /\ [Next]_vars => [\A u \in Users : ScoreMoves(u)]_vars
  BY ScoreStep
<1> QED
  BY <1>1, TypeCorrect, PTL DEF Spec, ScoreMovesWithResults

-----------------------------------------------------------------------------
(* Every completion pays once *)

Owes(r, u, d) == Pays(r) /\ job[r].user = u /\ job[r].date = d

Won(u, d) == result[u][d].status = "completed"

Settled(u, d, k) == <<u, d, k>> \in credited \/ <<u, d, k>> \in lost

\* AwardedOnce without counting: at most one handler owes, and only what is
\* not settled yet; what a completion promised is settled or owed.
PointInv(u, d) ==
    /\ Won(u, d) => \/ Settled(u, d, "point")
                    \/ \E r \in Requests : Owes(r, u, d)
    /\ Settled(u, d, "point") => Won(u, d)
    /\ ~(<<u, d, "point">> \in credited /\ <<u, d, "point">> \in lost)
    /\ \A r \in Requests :
           Owes(r, u, d) => Won(u, d) /\ ~Settled(u, d, "point")
    /\ \A r, q \in Requests : Owes(r, u, d) /\ Owes(q, u, d) => r = q

XPInv(u, d) ==
    /\ Won(u, d) /\ promised[u][d] > 0 =>
           \/ Settled(u, d, "xp")
           \/ \E r \in Requests : Owes(r, u, d) /\ pc[r] = "awardXP"
    /\ Settled(u, d, "xp") => Won(u, d) /\ promised[u][d] > 0
    /\ ~(<<u, d, "xp">> \in credited /\ <<u, d, "xp">> \in lost)
    /\ \A r \in Requests :
           Owes(r, u, d) /\ pc[r] = "awardXP" =>
               promised[u][d] > 0 /\ ~Settled(u, d, "xp")

QuizInv(u, d) ==
    <<u, d, "quiz">> \in credited => Won(u, d) /\ result[u][d].quiz # NoOption

AwardInv(u, d) == PointInv(u, d) /\ XPInv(u, d) /\ QuizInv(u, d)

\* A step that the awards of one game do not see.
Untouched(u, d) ==
    /\ Won(u, d)' <=> Won(u, d)
    /\ result'[u][d].quiz = result[u][d].quiz
    /\ promised'[u][d] = promised[u][d]
    /\ \A k \in Kinds : /\ <<u, d, k>> \in credited' <=> <<u, d, k>> \in credited
                        /\ <<u, d, k>> \in lost' <=> <<u, d, k>> \in lost
    /\ \A q \in Requests :
           /\ Owes(q, u, d)' <=> Owes(q, u, d)
           /\ Owes(q, u, d) => pc'[q] = pc[q]

LEMMA UntouchedAwards ==
    ASSUME NEW u \in Users, NEW d \in Dates, AwardInv(u, d), Untouched(u, d)
    PROVE  AwardInv(u, d)'
<1> DEFINE pt == <<u, d, "point">>
           x  == <<u, d, "xp">>
           qz == <<u, d, "quiz">>
<1>1. /\ pt \in credited' <=> pt \in credited
      /\ pt \in lost' <=> pt \in lost
      /\ x \in credited' <=> x \in credited
      /\ x \in lost' <=> x \in lost
      /\ qz \in credited' <=> qz \in credited
  BY DEF Untouched, Kinds
<1>2. /\ Won(u, d)' <=> Won(u, d)
      /\ result'[u][d].quiz = result[u][d].quiz
      /\ promised'[u][d] = promised[u][d]
  BY DEF Untouched
<1>3. \A q \in Requests : /\ Owes(q, u, d)' <=> Owes(q, u, d)
                          /\ Owes(q, u, d) => pc'[q] = pc[q]
  BY DEF Untouched
<1> HIDE DEF pt, x, qz
<1>4. PointInv(u, d)'
  BY <1>1, <1>2, <1>3 DEF AwardInv, PointInv, Settled, pt
<1>5. XPInv(u, d)'
  BY <1>1, <1>2, <1>3 DEF AwardInv, XPInv, Settled, x
<1>6. QuizInv(u, d)'
  BY <1>1, <1>2 DEF AwardInv, QuizInv, qz
<1> QED
  BY <1>4, <1>5, <1>6 DEF AwardInv

\* What a handler that moves leaves alone: its own request is served by no
\* other handler, and a handler that goes on owing keeps its job.
LEMMA AloneOwes ==
    ASSUME TypeOK, TypeOK', NEW r \in Requests, Alone(r),
           NEW u \in Users, NEW d \in Dates
    PROVE  \A q \in Requests \ {r} :
               /\ Owes(q, u, d)' <=> Owes(q, u, d)
               /\ pc'[q] = pc[q]
  BY DEF Alone, Owes, Pays

LEMMA ElsewhereUntouched ==
    ASSUME TypeOK, TypeOK', NEW r \in Requests, Alone(r),
           \/ CheckStart(r) \/ StartResult(r) \/ FailResult(r)
           \/ CompleteResult(r) \/ AddXP(r) \/ AddXPFails(r)
           \/ AddUnlockPoints(r) \/ AnswerChallengeQuiz(r) \/ Die(r),
           NEW u \in Users, NEW d \in Dates,
           u # job[r].user \/ d # job[r].date
    PROVE  Untouched(u, d)
<1> DEFINE j == job[r]
<1>1. result'[u][d] = result[u][d]
  BY ResultFrame, NoResultStep
<1>2. promised'[u][d] = promised[u][d]
  BY SMTT(30) DEF TypeOK, CheckStart, Accept, StartResult, FailResult, CompleteResult,
     AddXP, AddXPFails, AddUnlockPoints, AnswerChallengeQuiz, Die, Transition,
     history
<1>3. ASSUME NEW k \in Kinds
      PROVE  /\ <<u, d, k>> \in credited' <=> <<u, d, k>> \in credited
             /\ <<u, d, k>> \in lost' <=> <<u, d, k>> \in lost
  <2>1. \A m \in Kinds : <<u, d, k>> # <<j.user, j.date, m>>
    OBVIOUS
  <2> DEFINE a == <<u, d, k>>
             b(m) == <<j.user, j.date, m>>
  <2>2. /\ credited' = credited \/ \E m \in Kinds : credited' = credited \cup {b(m)}
        /\ \/ lost' = lost
           \/ \E M \in SUBSET Kinds : lost' = lost \cup {b(m) : m \in M}
    <3>1. CASE Die(r)
      <4>1. \E M \in SUBSET Kinds : lost' = lost \cup {b(m) : m \in M}
        BY <3>1 DEF Die, Kinds
      <4> QED
        BY <3>1, <4>1 DEF Die
    <3>2. CASE AddXPFails(r)
      <4>1. lost' = lost \cup {b(m) : m \in {"xp"}}
        BY <3>2 DEF AddXPFails
      <4> QED
        BY <3>2, <4>1 DEF AddXPFails, Kinds
    <3>3. CASE CheckStart(r) \/ StartResult(r) \/ FailResult(r)
                  \/ CompleteResult(r)
      BY <3>3 DEF CheckStart, Accept, StartResult, FailResult, CompleteResult,
         Transition, history
    <3>4. CASE AddXP(r) \/ AddUnlockPoints(r) \/ AnswerChallengeQuiz(r)
      BY <3>4 DEF AddXP, AddUnlockPoints, AnswerChallengeQuiz, Kinds
    <3> QED
      BY <3>1, <3>2, <3>3, <3>4
  <2>3. \A m \in Kinds : a # b(m)
    BY <2>1
  <2> HIDE DEF a, b
  <2>4. /\ a \in credited' <=> a \in credited
        /\ a \in lost' <=> a \in lost
    BY <2>2, <2>3
  <2> QED
    BY <2>4 DEF a
<1>4. ~Owes(r, u, d)
  BY DEF Owes
<1>5. ~Owes(r, u, d)'
  <2>1. CASE CompleteResult(r) \/ AddXP(r) \/ AddXPFails(r)
    BY <2>1 DEF Owes, CompleteResult, AddXP, AddXPFails
  <2>2. CASE ~(CompleteResult(r) \/ AddXP(r) \/ AddXPFails(r))
    BY <2>2 DEF Owes, Pays, CheckStart, Accept, StartResult, FailResult,
       AddUnlockPoints, AnswerChallengeQuiz, Die, Goto, End, TypeOK
  <2> QED
    BY <2>1, <2>2
<1> QED
  BY <1>1, <1>2, <1>3, <1>4, <1>5, AloneOwes DEF Untouched, Won

\* At its own game, a handler that neither wins nor pays moves no award.
LEMMA NoAwardStep ==
    ASSUME TypeOK, TypeOK', NEW r \in Requests, Alone(r),
           CheckStart(r) \/ StartResult(r) \/ FailResult(r),
           NEW u \in Users, NEW d \in Dates,
           u = job[r].user, d = job[r].date
    PROVE  Untouched(u, d)
<1> DEFINE j == job[r]
           old == result[u][d]
           new == result'[u][d]
<1>2. old \in Result
  BY DEF TypeOK
<1>3. /\ new.status = "completed" <=> old.status = "completed"
      /\ new.quiz = old.quiz
  <2>1. CASE CheckStart(r)
    BY <2>1, NoResultStep
  <2>2. CASE StartResult(r)
    <3>1. new = Inserted(old)
      BY <2>2, ResultSteps
    <3> QED
      BY <3>1, <1>2 DEF Inserted, Result
  <2>3. CASE FailResult(r)
    <3>1. /\ MayFinish(old)
          /\ new = [old EXCEPT !.status = "failed", !.correct = j.arg]
      BY <2>3, ResultSteps
    <3> QED
      BY <3>1, <1>2 DEF MayFinish, Result
  <2> QED
    BY <2>1, <2>2, <2>3
<1>4. UNCHANGED <<promised, credited, lost>>
  BY DEF CheckStart, Accept, StartResult, FailResult, Transition, history
<1>5. ~Pays(r) /\ ~Pays(r)'
  BY DEF TypeOK, Pays, CheckStart, Accept, StartResult, FailResult, Goto, End
<1> QED
  BY <1>3, <1>4, <1>5, AloneOwes DEF Untouched, Won, Owes

\* The completion that counts makes its handler, and no other, owe the awards.
LEMMA CompleteAwards ==
    ASSUME TypeOK, TypeOK', NEW r \in Requests, Alone(r), CompleteResult(r),
           NEW u \in Users, NEW d \in Dates,
           u = job[r].user, d = job[r].date, AwardInv(u, d)
    PROVE  AwardInv(u, d)'
<1> DEFINE reward == job[r].row.xpReward
<1>1. job[r] \in Job /\ job' = job
  BY DEF TypeOK, CompleteResult
<1>2. reward \in Int /\ result[u][d] \in Result
  BY <1>1, RowFacts DEF TypeOK
<1>3. ~Won(u, d) /\ Won(u, d)' /\ result'[u][d].quiz = result[u][d].quiz
  <2>1. /\ MayFinish(result[u][d])
        /\ result'[u][d] =
               [result[u][d] EXCEPT !.status = "completed",
                                    !.correct = job[r].arg]
    BY ResultSteps
  <2> QED
    BY <2>1, <1>2 DEF Won, MayFinish, Result
<1>4. UNCHANGED <<credited, lost>>
  BY DEF CompleteResult, Transition
<1>5. promised'[u][d] = IF reward > 0 THEN reward ELSE 0
  BY <1>2 DEF CompleteResult, TypeOK
<1>6. pc'[r] = IF reward > 0 THEN "awardXP" ELSE "awardPoint"
  BY DEF CompleteResult, Goto, FirstAward, TypeOK
<1>7. \A q \in Requests : ~Owes(q, u, d)
  BY <1>3 DEF AwardInv, PointInv
<1>8. \A q \in Requests : Owes(q, u, d)' <=> q = r
  <2>1. \A q \in Requests \ {r} : ~Owes(q, u, d)'
    BY <1>2, <1>7, AloneOwes, <1>1
  <2>2. Owes(r, u, d)'
    BY <1>1, <1>6 DEF Owes, Pays
  <2> QED
    BY <2>1, <2>2
<1>9. /\ ~Settled(u, d, "point") /\ ~Settled(u, d, "xp")
      /\ <<u, d, "quiz">> \notin credited
  BY <1>3 DEF AwardInv, PointInv, XPInv, QuizInv
<1> HIDE DEF reward
<1>10. PointInv(u, d)'
  BY <1>3, <1>4, <1>8, <1>9 DEF PointInv, Settled
<1>11. XPInv(u, d)'
  BY <1>2, <1>3, <1>4, <1>5, <1>6, <1>8, <1>9 DEF XPInv, Settled
<1>12. QuizInv(u, d)'
  BY <1>4, <1>9 DEF QuizInv
<1> QED
  BY <1>10, <1>11, <1>12 DEF AwardInv

\* The handler that owes the XP credits it or gives it up, and still owes the
\* point.
LEMMA XPAwards ==
    ASSUME TypeOK, TypeOK', NEW r \in Requests, Alone(r),
           AddXP(r) \/ AddXPFails(r),
           NEW u \in Users, NEW d \in Dates,
           u = job[r].user, d = job[r].date, AwardInv(u, d)
    PROVE  AwardInv(u, d)'
<1> DEFINE x == <<u, d, "xp">>
<1>1. /\ job' = job /\ result' = result /\ promised' = promised
      /\ pc[r] = "awardXP" /\ pc'[r] = "awardPoint"
  BY DEF AddXP, AddXPFails, Goto, TypeOK, tables
<1>2. \/ credited' = credited \cup {x} /\ lost' = lost
      \/ lost' = lost \cup {x} /\ credited' = credited
  BY DEF AddXP, AddXPFails
<1>3. Owes(r, u, d) /\ Owes(r, u, d)'
  BY <1>1 DEF Owes, Pays
<1>4. \A q \in Requests : Owes(q, u, d) => q = r
  BY <1>3 DEF AwardInv, PointInv
<1>5. \A q \in Requests : Owes(q, u, d)' <=> q = r
  BY <1>3, <1>4, AloneOwes
<1>6. /\ Won(u, d) /\ ~Settled(u, d, "point") /\ ~Settled(u, d, "xp")
      /\ promised[u][d] > 0
  BY <1>1, <1>3 DEF AwardInv, PointInv, XPInv
<1>7. /\ <<u, d, "point">> \in credited' <=> <<u, d, "point">> \in credited
      /\ <<u, d, "point">> \in lost' <=> <<u, d, "point">> \in lost
      /\ <<u, d, "quiz">> \in credited' <=> <<u, d, "quiz">> \in credited
  BY <1>2
<1>8. Won(u, d)'
  BY <1>1, <1>6 DEF Won
<1>9. PointInv(u, d)'
  BY <1>5, <1>6, <1>7, <1>8 DEF PointInv, Settled
<1>10. XPInv(u, d)'
  <2>1. x \notin credited /\ x \notin lost
    BY <1>6 DEF Settled
  <2>2. Settled(u, d, "xp")' /\ ~(x \in credited' /\ x \in lost')
    BY <1>2, <2>1 DEF Settled
  <2>3. \A q \in Requests : Owes(q, u, d)' => pc'[q] # "awardXP"
    BY <1>1, <1>5
  <2>4. promised'[u][d] > 0
    BY <1>1, <1>6
  <2> QED
    BY <1>8, <2>2, <2>3, <2>4 DEF XPInv
<1>11. QuizInv(u, d)'
  BY <1>1, <1>7 DEF AwardInv, QuizInv, Won
<1> QED
  BY <1>9, <1>10, <1>11 DEF AwardInv

\* The point settles the account: its handler owes nothing any more.
LEMMA PointAwards ==
    ASSUME TypeOK, TypeOK', NEW r \in Requests, Alone(r), AddUnlockPoints(r),
           NEW u \in Users, NEW d \in Dates,
           u = job[r].user, d = job[r].date, AwardInv(u, d)
    PROVE  AwardInv(u, d)'
<1> DEFINE pt == <<u, d, "point">>
<1>1. /\ result' = result /\ promised' = promised
      /\ pc[r] = "awardPoint" /\ pc'[r] = "idle"
  BY DEF AddUnlockPoints, End, Goto, TypeOK, history
<1>2. credited' = credited \cup {pt} /\ lost' = lost
  BY DEF AddUnlockPoints
<1>3. Owes(r, u, d) /\ ~Owes(r, u, d)'
  BY <1>1 DEF Owes, Pays
<1>4. \A q \in Requests : Owes(q, u, d) => q = r
  BY <1>3 DEF AwardInv, PointInv
<1>5. \A q \in Requests : ~Owes(q, u, d)'
  BY <1>3, <1>4, AloneOwes
<1>6. Won(u, d) /\ pt \notin credited /\ pt \notin lost
  BY <1>3 DEF AwardInv, PointInv, Settled
<1>7. /\ <<u, d, "xp">> \in credited' <=> <<u, d, "xp">> \in credited
      /\ <<u, d, "xp">> \in lost' <=> <<u, d, "xp">> \in lost
      /\ <<u, d, "quiz">> \in credited' <=> <<u, d, "quiz">> \in credited
      /\ pt \in credited' /\ pt \notin lost'
  BY <1>2, <1>6
<1>8. Won(u, d)' <=> Won(u, d)
  BY <1>1 DEF Won
<1>9. PointInv(u, d)'
  BY <1>5, <1>6, <1>7, <1>8 DEF PointInv, Settled
<1>10. XPInv(u, d)'
  BY <1>1, <1>4, <1>5, <1>7, <1>8 DEF AwardInv, XPInv, Settled
<1>11. QuizInv(u, d)'
  BY <1>1, <1>7, <1>8 DEF AwardInv, QuizInv
<1> QED
  BY <1>9, <1>10, <1>11 DEF AwardInv

\* A handler that dies gives up what it owed and nothing else.
LEMMA LostAwards ==
    ASSUME TypeOK, TypeOK', NEW r \in Requests, Alone(r), Die(r),
           NEW u \in Users, NEW d \in Dates,
           u = job[r].user, d = job[r].date, AwardInv(u, d)
    PROVE  AwardInv(u, d)'
<1> DEFINE pt == <<u, d, "point">>
           x  == <<u, d, "xp">>
<1>1. /\ result' = result /\ promised' = promised /\ credited' = credited
      /\ pc'[r] = "idle"
  BY DEF Die, End, Goto, TypeOK, tables
<1>2. ~Owes(r, u, d)'
  BY <1>1 DEF Owes, Pays
<1>3. Won(u, d)' <=> Won(u, d)
  BY <1>1 DEF Won
<1>4. CASE ~Pays(r)
  <2>1. lost' = lost
    BY <1>4 DEF Die, Pays
  <2>2. ~Owes(r, u, d)
    BY <1>4 DEF Owes
  <2>3. Untouched(u, d)
    BY <1>1, <1>2, <1>3, <2>1, <2>2, AloneOwes DEF Untouched
  <2> QED
    BY <2>3, UntouchedAwards
<1>5. CASE Pays(r)
  <2>1. Owes(r, u, d)
    BY <1>5 DEF Owes
  <2>2. \A q \in Requests : Owes(q, u, d) => q = r
    BY <2>1 DEF AwardInv, PointInv
  <2>3. \A q \in Requests : ~Owes(q, u, d)'
    BY <1>2, <2>2, AloneOwes
  <2>4. Won(u, d) /\ pt \notin credited /\ pt \notin lost
    BY <2>1 DEF AwardInv, PointInv, Settled
  <2>5. /\ pt \in lost'
        /\ pc[r] = "awardXP" => x \in lost'
        /\ pc[r] # "awardXP" => (x \in lost' <=> x \in lost)
    <3>1. CASE pc[r] = "awardXP"
      BY <3>1 DEF Die
    <3>2. CASE pc[r] # "awardXP"
      <4>1. lost' = lost \cup {pt}
        BY <3>2, <1>5 DEF Die, Pays
      <4> QED
        BY <3>2, <4>1
    <3> QED
      BY <3>1, <3>2
  <2>6. PointInv(u, d)'
    BY <1>1, <1>3, <2>3, <2>4, <2>5 DEF PointInv, Settled
  <2>7. XPInv(u, d)'
    <3>1. CASE pc[r] = "awardXP"
      <4>1. promised[u][d] > 0 /\ x \notin credited
        BY <2>1, <3>1 DEF AwardInv, XPInv, Settled
      <4> QED
        BY <1>1, <1>3, <2>3, <2>4, <2>5, <3>1, <4>1 DEF XPInv, Settled
    <3>2. CASE pc[r] # "awardXP"
      BY <1>1, <1>3, <2>2, <2>3, <2>5, <3>2 DEF AwardInv, XPInv, Settled
    <3> QED
      BY <3>1, <3>2
  <2>8. QuizInv(u, d)'
    BY <1>1, <1>3 DEF AwardInv, QuizInv
  <2> QED
    BY <2>6, <2>7, <2>8 DEF AwardInv
<1> QED
  BY <1>4, <1>5

\* A quiz point is credited with the answer it is for.
LEMMA QuizAwards ==
    ASSUME TypeOK, TypeOK', NEW r \in Requests, Alone(r),
           AnswerChallengeQuiz(r),
           NEW u \in Users, NEW d \in Dates,
           u = job[r].user, d = job[r].date, AwardInv(u, d)
    PROVE  AwardInv(u, d)'
<1> DEFINE qz == <<u, d, "quiz">>
           old == result[u][d]
           new == result'[u][d]
<1>1. /\ promised' = promised /\ lost' = lost
      /\ pc[r] = "eligible" /\ pc'[r] = "idle" /\ job[r].op = "answer"
  BY DEF AnswerChallengeQuiz, End, Goto, TypeOK
<1>2. job[r].arg \in {0, 1} /\ old \in Result
  BY <1>1 DEF TypeOK
<1>3. ~Owes(r, u, d) /\ ~Owes(r, u, d)'
  BY <1>1 DEF Owes, Pays
<1>4. \A q \in Requests : /\ Owes(q, u, d)' <=> Owes(q, u, d)
                          /\ Owes(q, u, d) => pc'[q] = pc[q]
  BY <1>3, AloneOwes
<1>5. \/ new = old /\ credited' = credited
      \/ /\ MayAnswer(old) /\ new = [old EXCEPT !.quiz = job[r].arg]
         /\ credited' = credited \/ credited' = credited \cup {qz}
  BY DEF AnswerChallengeQuiz, TypeOK
<1>6. /\ Won(u, d)' <=> Won(u, d)
      /\ MayAnswer(old) /\ new = [old EXCEPT !.quiz = job[r].arg] =>
             Won(u, d) /\ new.quiz # NoOption
  BY <1>2, <1>5, SMTT(30) DEF Won, MayAnswer, Result
<1>7. /\ <<u, d, "point">> \in credited' <=> <<u, d, "point">> \in credited
      /\ <<u, d, "xp">> \in credited' <=> <<u, d, "xp">> \in credited
  BY <1>5
<1>8. PointInv(u, d)'
  BY <1>1, <1>4, <1>6, <1>7 DEF AwardInv, PointInv, Settled
<1>9. XPInv(u, d)'
  BY <1>1, <1>4, <1>6, <1>7 DEF AwardInv, XPInv, Settled
<1>10. QuizInv(u, d)'
  BY <1>5, <1>6 DEF AwardInv, QuizInv
<1> QED
  BY <1>8, <1>9, <1>10 DEF AwardInv

LEMMA AwardStep ==
    ASSUME TypeOK, [Next]_vars,
           NEW u \in Users, NEW d \in Dates, AwardInv(u, d)
    PROVE  AwardInv(u, d)'
<1>0. TypeOK'
  BY TypeStep
<1>1. CASE Silent
  <2>1. Untouched(u, d)
    <3>1. \A q \in Requests : /\ Owes(q, u, d)' <=> Owes(q, u, d)
                              /\ Owes(q, u, d) => pc'[q] = pc[q]
      BY <1>1 DEF Silent, Owes, Pays
    <3> QED
      BY <1>1, <3>1 DEF Silent, Untouched, Won, history
  <2> QED
    BY <2>1, UntouchedAwards
<1>2. ASSUME NEW r \in Requests, Alone(r),
             \/ CheckStart(r) \/ StartResult(r) \/ FailResult(r)
             \/ CompleteResult(r) \/ AddXP(r) \/ AddXPFails(r)
             \/ AddUnlockPoints(r) \/ AnswerChallengeQuiz(r) \/ Die(r)
      PROVE  AwardInv(u, d)'
  <2>1. CASE u # job[r].user \/ d # job[r].date
    <3>1. Untouched(u, d)
      BY <1>0, <1>2, <2>1, ElsewhereUntouched
    <3> QED
      BY <3>1, UntouchedAwards
  <2>2. CASE u = job[r].user /\ d = job[r].date
    <3>1. CASE CheckStart(r) \/ StartResult(r) \/ FailResult(r)
      <4>1. Untouched(u, d)
        BY <1>0, <1>2, <2>2, <3>1, NoAwardStep
      <4> QED
        BY <4>1, UntouchedAwards
    <3>2. CASE CompleteResult(r)
      BY <1>0, <1>2, <2>2, <3>2, CompleteAwards
    <3>3. CASE AddXP(r) \/ AddXPFails(r)
      BY <1>0, <1>2, <2>2, <3>3, XPAwards
    <3>4. CASE AddUnlockPoints(r)
      BY <1>0, <1>2, <2>2, <3>4, PointAwards
    <3>5. CASE AnswerChallengeQuiz(r)
      BY <1>0, <1>2, <2>2, <3>5, QuizAwards
    <3>6. CASE Die(r)
      BY <1>0, <1>2, <2>2, <3>6, LostAwards
    <3> QED
      BY <1>2, <3>1, <3>2, <3>3, <3>4, <3>5, <3>6
  <2> QED
    BY <2>1, <2>2
<1> QED
  BY <1>1, <1>2, NextCases

\* Counting the handlers that owe: there is one or there is none.
LEMMA CountAwards ==
    ASSUME TypeOK, NEW u \in Users, NEW d \in Dates, AwardInv(u, d)
    PROVE  LET won == result[u][d].status = "completed"
               settled(k) == One(<<u, d, k>> \in credited)
                                 + One(<<u, d, k>> \in lost)
               owing == {r \in Paying(u, d) : pc[r] = "awardXP"}
           IN  /\ Cardinality(Paying(u, d)) + settled("point") = One(won)
               /\ Cardinality(owing) + settled("xp")
                      = One(won /\ promised[u][d] > 0)
               /\ <<u, d, "quiz">> \in credited =>
                      won /\ result[u][d].quiz # NoOption
<1> DEFINE settled(k) == One(<<u, d, k>> \in credited)
                             + One(<<u, d, k>> \in lost)
           owing == {r \in Paying(u, d) : pc[r] = "awardXP"}
<1>1. Cardinality({}) = 0 /\ \A r : Cardinality({r}) = 1
  BY FS_EmptySet, FS_Singleton
<1>2. Paying(u, d) = {r \in Requests : Owes(r, u, d)}
  BY DEF Paying, Owes, Pays
<1>3. \A k : settled(k) = IF <<u, d, k>> \in credited
                          THEN IF <<u, d, k>> \in lost THEN 2 ELSE 1
                          ELSE IF <<u, d, k>> \in lost THEN 1 ELSE 0
  BY DEF One
<1> HIDE DEF settled
<1>4. Cardinality(Paying(u, d)) + settled("point") = One(Won(u, d))
  <2>1. CASE \E r \in Requests : Owes(r, u, d)
    <3>1. PICK r \in Requests : Owes(r, u, d)
      BY <2>1
    <3>2. Paying(u, d) = {r}
      BY <1>2, <3>1 DEF AwardInv, PointInv
    <3>3. Won(u, d) /\ settled("point") = 0
      BY <1>3, <3>1 DEF AwardInv, PointInv, Settled
    <3> QED
      BY <1>1, <3>2, <3>3 DEF One
  <2>2. CASE ~\E r \in Requests : Owes(r, u, d)
    <3>1. Paying(u, d) = {}
      BY <1>2, <2>2
    <3>2. settled("point") = One(Won(u, d))
      BY <1>3, <2>2 DEF AwardInv, PointInv, Settled, One
    <3> QED
      BY <1>1, <3>1, <3>2 DEF One
  <2> QED
    BY <2>1, <2>2
<1>5. Cardinality(owing) + settled("xp") = One(Won(u, d) /\ promised[u][d] > 0)
  <2>1. CASE \E r \in Requests : Owes(r, u, d) /\ pc[r] = "awardXP"
    <3>1. PICK r \in Requests : Owes(r, u, d) /\ pc[r] = "awardXP"
      BY <2>1
    <3>2. owing = {r}
      BY <1>2, <3>1 DEF AwardInv, PointInv
    <3>3. Won(u, d) /\ promised[u][d] > 0 /\ settled("xp") = 0
      BY <1>3, <3>1 DEF AwardInv, PointInv, XPInv, Settled
    <3> QED
      BY <1>1, <3>2, <3>3 DEF One
  <2>2. CASE ~\E r \in Requests : Owes(r, u, d) /\ pc[r] = "awardXP"
    <3>1. owing = {}
      BY <1>2, <2>2
    <3>2. settled("xp") = One(Won(u, d) /\ promised[u][d] > 0)
      BY <1>3, <2>2 DEF AwardInv, XPInv, Settled, One
    <3> QED
      BY <1>1, <3>1, <3>2 DEF One
  <2> QED
    BY <2>1, <2>2
<1>6. <<u, d, "quiz">> \in credited => Won(u, d) /\ result[u][d].quiz # NoOption
  BY DEF AwardInv, QuizInv
<1> QED
  BY <1>4, <1>5, <1>6 DEF Won, settled

\* However many handlers complete one game at once, and whichever of them die,
\* the completion is worth one point and one award of XP.
THEOREM AwardsAreUnique == Spec => []AwardedOnce
<1> DEFINE Inv == TypeOK /\ \A u \in Users, d \in Dates : AwardInv(u, d)
<1>1. Init => Inv
  <2>1. Init => TypeOK
    BY ConstantsOK DEF Init, TypeOK, NoResult, Result, Statuses, PCs
  <2>2. ASSUME Init, NEW u \in Users, NEW d \in Dates
        PROVE  AwardInv(u, d)
    BY <2>2 DEF Init, AwardInv, PointInv, XPInv, QuizInv, Won, Owes, Pays,
       Settled, NoResult
  <2> QED
    BY <2>1, <2>2
<1>2. Inv /\ [Next]_vars => Inv'
  BY TypeStep, AwardStep
<1>3. Inv => AwardedOnce
  BY CountAwards DEF AwardedOnce
<1> QED
  BY <1>1, <1>2, <1>3, PTL DEF Spec

-----------------------------------------------------------------------------
(* The totals are what they were earned with *)

\* What a handler set out to award is what it adds, whatever other handlers and
\* administrators did since.
OwesWhatItPromised ==
    \A r \in Requests :
        pc[r] = "awardXP" =>
            promised[job[r].user][job[r].date] = job[r].row.xpReward

CreditInv ==
    /\ TypeOK
    /\ \A u \in Users, d \in Dates : AwardInv(u, d)
    /\ OwesWhatItPromised

\* While a handler owes the XP of a game, nobody completes that game again.
LEMMA OwedStep == CreditInv /\ [Next]_vars => OwesWhatItPromised'
<1> SUFFICES ASSUME CreditInv, [Next]_vars,
                    NEW q \in Requests, pc'[q] = "awardXP"
             PROVE  promised'[job'[q].user][job'[q].date] = job'[q].row.xpReward
  BY DEF OwesWhatItPromised
<1>0. TypeOK /\ TypeOK'
  BY TypeStep DEF CreditInv
<1>1. CASE Silent
  BY <1>1 DEF Silent, Pays, CreditInv, OwesWhatItPromised, history
<1>2. ASSUME NEW r \in Requests, Alone(r),
             \/ CheckStart(r) \/ StartResult(r) \/ FailResult(r)
             \/ CompleteResult(r) \/ AddXP(r) \/ AddXPFails(r)
             \/ AddUnlockPoints(r) \/ AnswerChallengeQuiz(r) \/ Die(r)
      PROVE  promised'[job'[q].user][job'[q].date] = job'[q].row.xpReward
  <2>1. CASE CompleteResult(r)
    <3> DEFINE j == job[r]
    <3>1. /\ j \in Job /\ job' = job
          /\ promised' = [promised EXCEPT ![j.user][j.date] =
                              IF j.row.xpReward > 0 THEN j.row.xpReward ELSE 0]
          /\ pc' = [pc EXCEPT ![r] = FirstAward(j.row.xpReward)]
          /\ MayFinish(result[j.user][j.date])
      BY <2>1, <1>0 DEF CompleteResult, Transition, Goto, TypeOK
    <3>2. j.user \in Users /\ j.date \in Dates /\ j.row.xpReward \in Int
      BY <3>1, RowFacts
    <3>3. CASE q = r
      <4>1. j.row.xpReward > 0
        BY <1>0, <3>1, <3>3 DEF TypeOK, FirstAward
      <4> QED
        BY <1>0, <3>1, <3>2, <3>3, <4>1 DEF TypeOK
    <3>4. CASE q # r
      <4>1. pc[q] = "awardXP" /\ job[q] \in Job
        BY <1>0, <3>1, <3>4 DEF TypeOK
      <4>2. job[q].user \in Users /\ job[q].date \in Dates
        BY <4>1, RowFacts
      <4>3. Won(job[q].user, job[q].date)
        <5>1. PointInv(job[q].user, job[q].date)
          BY <4>2 DEF CreditInv, AwardInv
        <5>2. Owes(q, job[q].user, job[q].date)
          BY <4>1 DEF Owes, Pays
        <5> QED
          BY <5>1, <5>2 DEF PointInv
      <4>4. job[q].user # j.user \/ job[q].date # j.date
        BY <3>1, <4>3 DEF Won, MayFinish
      <4>5. promised'[job[q].user][job[q].date] =
                promised[job[q].user][job[q].date]
        BY <1>0, <3>1, <3>2, <4>2, <4>4 DEF TypeOK
      <4> QED
        BY <3>1, <4>1, <4>5 DEF CreditInv, OwesWhatItPromised
    <3> QED
      BY <3>3, <3>4
  <2>2. CASE ~CompleteResult(r)
    <3>1. promised' = promised
      BY <1>2, <2>2 DEF CheckStart, Accept, StartResult, FailResult, AddXP,
         AddXPFails, AddUnlockPoints, AnswerChallengeQuiz, Die, history
    <3>2. pc'[r] # "awardXP"
      BY <1>0, <1>2, <2>2 DEF TypeOK, CheckStart, Accept, StartResult,
         FailResult, AddXP, AddXPFails, AddUnlockPoints, AnswerChallengeQuiz,
         Die, Goto, End
    <3>3. pc'[q] = pc[q] /\ job'[q] = job[q]
      BY <1>2, <3>2 DEF Alone
    <3> QED
      BY <3>1, <3>3 DEF CreditInv, OwesWhatItPromised
  <2> QED
    BY <2>1, <2>2
<1> QED
  BY <1>0, <1>1, <1>2, NextCases

\* A step credits nothing, or one award that was not credited before, and adds
\* to the balance what that award is worth; and what a game promised does not
\* change once it is credited.
CreditsXP(u, d) ==
    /\ <<u, d, "xp">> \notin credited
    /\ credited' = credited \cup {<<u, d, "xp">>}
    /\ xp' = [xp EXCEPT ![u] = @ + promised[u][d]]
    /\ UNCHANGED <<points, promised>>

CreditsPoint(u, d, k) ==
    /\ <<u, d, k>> \notin credited
    /\ credited' = credited \cup {<<u, d, k>>}
    /\ points' = [points EXCEPT ![u] = @ + 1]
    /\ UNCHANGED <<xp, promised>>

CreditsNothing ==
    /\ UNCHANGED <<xp, points, credited>>
    /\ \A u \in Users, d \in Dates :
           promised'[u][d] = promised[u][d] \/ <<u, d, "xp">> \notin credited

LEMMA CreditSteps ==
    ASSUME CreditInv, [Next]_vars
    PROVE  \/ CreditsNothing
           \/ \E u \in Users, d \in Dates : CreditsXP(u, d)
           \/ \E u \in Users, d \in Dates, k \in {"point", "quiz"} :
                  CreditsPoint(u, d, k)
<1>0. TypeOK
  BY DEF CreditInv
<1>1. CASE Silent
  BY <1>1 DEF Silent, CreditsNothing, history
<1>2. ASSUME NEW r \in Requests, Alone(r),
             \/ CheckStart(r) \/ StartResult(r) \/ FailResult(r)
             \/ CompleteResult(r) \/ AddXP(r) \/ AddXPFails(r)
             \/ AddUnlockPoints(r) \/ AnswerChallengeQuiz(r) \/ Die(r)
      PROVE  \/ CreditsNothing
             \/ \E u \in Users, d \in Dates : CreditsXP(u, d)
             \/ \E u \in Users, d \in Dates, k \in {"point", "quiz"} :
                    CreditsPoint(u, d, k)
  <2> DEFINE u == job[r].user
             d == job[r].date
  <2>1. CASE CheckStart(r) \/ StartResult(r) \/ FailResult(r)
                \/ AddXPFails(r) \/ Die(r)
    BY <2>1 DEF CreditsNothing, CheckStart, Accept, StartResult, FailResult,
       Transition, AddXPFails, Die, tables, history
  <2>3. CASE CompleteResult(r)
    <3>1. u \in Users /\ d \in Dates /\ AwardInv(u, d)
      BY <1>0, <2>3, RowFacts DEF TypeOK, CompleteResult, CreditInv
    <3>2. ~Won(u, d)
      BY <2>3 DEF CompleteResult, Transition, MayFinish, Won
    <3>3. <<u, d, "xp">> \notin credited
      BY <3>1, <3>2 DEF AwardInv, XPInv, Settled
    <3>4. ASSUME NEW v \in Users, NEW e \in Dates, v # u \/ e # d
          PROVE  promised'[v][e] = promised[v][e]
      BY <1>0, <2>3, <3>1, <3>4 DEF CompleteResult, TypeOK
    <3> QED
      BY <2>3, <3>3, <3>4 DEF CreditsNothing, CompleteResult, Transition
  <2>4. CASE AddXP(r)
    <3>1. u \in Users /\ d \in Dates /\ AwardInv(u, d)
      BY <1>0, <2>4, RowFacts DEF TypeOK, AddXP, CreditInv
    <3>2. <<u, d, "xp">> \notin credited /\ promised[u][d] = job[r].row.xpReward
      BY <2>4, <3>1 DEF AddXP, AwardInv, XPInv, Settled, Owes, Pays, CreditInv,
         OwesWhatItPromised
    <3> QED
      BY <2>4, <3>1, <3>2 DEF AddXP, CreditsXP
  <2>5. CASE AddUnlockPoints(r)
    <3>1. u \in Users /\ d \in Dates /\ AwardInv(u, d)
      BY <1>0, <2>5, RowFacts DEF TypeOK, AddUnlockPoints, CreditInv
    <3>2. <<u, d, "point">> \notin credited
      BY <2>5, <3>1 DEF AddUnlockPoints, AwardInv, PointInv, Settled, Owes, Pays
    <3> QED
      BY <2>5, <3>1, <3>2 DEF AddUnlockPoints, CreditsPoint
  <2>6. CASE AnswerChallengeQuiz(r)
    <3>1. u \in Users /\ d \in Dates /\ AwardInv(u, d)
      BY <1>0, <2>6, RowFacts DEF TypeOK, AnswerChallengeQuiz, CreditInv
    <3>2. MayAnswer(result[u][d]) => <<u, d, "quiz">> \notin credited
      BY <3>1 DEF AwardInv, QuizInv, MayAnswer
    <3>3. CASE /\ MayAnswer(result[u][d]) /\ job[r].arg = job[r].row.quiz
      BY <2>6, <3>1, <3>2, <3>3 DEF AnswerChallengeQuiz, CreditsPoint
    <3>4. CASE ~(/\ MayAnswer(result[u][d]) /\ job[r].arg = job[r].row.quiz)
      BY <2>6, <3>4 DEF AnswerChallengeQuiz, CreditsNothing
    <3> QED
      BY <3>3, <3>4
  <2> QED
    BY <1>2, <2>1, <2>3, <2>4, <2>5, <2>6
<1> QED
  BY <1>0, <1>1, <1>2, NextCases

\* The pieces of a user's results, and the results that count for the score.
Pieces(u) == [d \in Dates |-> result[u][d].correct]

Ended(u) == {d \in Dates : Finished(result[u][d])}

PointsOf(u) == {a \in credited : a[1] = u /\ a[3] \in {"point", "quiz"}}

XPDates(u) == {d \in Dates : <<u, d, "xp">> \in credited}

\* TotalsAddUp, with sums of functions.
ScoreAdds(u) == totalScore[u] = SumOf(Pieces(u), Ended(u))
PointsAdd(u) == points[u] = Cardinality(PointsOf(u))
XPAdds(u)    == xp[u] = SumOf(promised[u], XPDates(u))

LEMMA SumOfPieces ==
    ASSUME NEW u \in Users
    PROVE  MapThenSumSet(LAMBDA d : result[u][d].correct, Ended(u))
               = SumOf(Pieces(u), Ended(u))
<1> DEFINE S == Ended(u)
           Solves(g) ==
               g = [s \in SUBSET S |-> IF s = {} THEN 0
                        ELSE result[u][Some(s)].correct + g[s \ {Some(s)}]]
<1>0. IsFiniteSet(S)
  BY FiniteOK, FS_Subset DEF Ended
<1>1. ASSUME NEW s \in SUBSET S, s # {}
      PROVE  result[u][Some(s)].correct = Pieces(u)[Some(s)]
  BY <1>1, SomeIsIn DEF Pieces, Ended
<1>2. ASSUME NEW g
      PROVE  Solves(g) <=> Adds(g, Pieces(u), S)
  BY <1>1 DEF Adds
<1>3. \E g : Solves(g)
  BY <1>0, <1>2, AddsExists
<1>4. Solves(CHOOSE g : Solves(g))
  BY <1>3, Zenon
<1>5. MapThenSumSet(LAMBDA d : result[u][d].correct, S) = (CHOOSE g : Solves(g))[S]
  BY DEF MapThenSumSet, MapThenFoldSet, Some
<1> HIDE DEF Solves, S
<1>6. Adds(CHOOSE g : Solves(g), Pieces(u), S)
  BY <1>2, <1>4
<1>7. S \in SUBSET S
  OBVIOUS
<1>8. (CHOOSE g : Solves(g))[S] = SumOf(Pieces(u), S)
  BY <1>0, <1>6, <1>7, SumIsAdds
<1> QED
  BY <1>5, <1>8 DEF S

\* The score moves with the pieces of the one result that ends.
LEMMA ScoreAddsStep ==
    ASSUME TypeOK, TypeOK', NEW u \in Users, ScoreMoves(u), ScoreAdds(u)
    PROVE  ScoreAdds(u)'
<1>1. /\ IsFiniteSet(Ended(u)) /\ Ended(u) \subseteq Dates
      /\ \A d \in Dates : /\ Pieces(u)[d] = result[u][d].correct
                          /\ Pieces(u)'[d] = result'[u][d].correct
                          /\ Pieces(u)[d] \in Int /\ Pieces(u)'[d] \in Int
  <2>1. \A d \in Dates : result[u][d] \in Result /\ result'[u][d] \in Result
    BY DEF TypeOK
  <2> QED
    BY <2>1, FiniteOK, FS_Subset DEF Ended, Pieces, Result
<1>2. CASE /\ totalScore'[u] = totalScore[u]
           /\ \A d \in Dates : Finished(result[u][d]) \/ Finished(result'[u][d]) =>
                  /\ Finished(result[u][d]) /\ Finished(result'[u][d])
                  /\ result'[u][d].correct = result[u][d].correct
  <2>1. Ended(u)' = Ended(u)
    BY <1>2 DEF Ended
  <2>2. \A d \in Ended(u) : Pieces(u)[d] = Pieces(u)'[d]
    BY <1>1, <1>2 DEF Ended
  <2>3. SumOf(Pieces(u), Ended(u)) = SumOf(Pieces(u)', Ended(u))
    BY <1>1, <2>2, SumCong
  <2> QED
    BY <1>2, <2>1, <2>3 DEF ScoreAdds
<1>3. ASSUME NEW d \in Dates,
             ~Finished(result[u][d]), Finished(result'[u][d]),
             totalScore'[u] = totalScore[u] + result'[u][d].correct,
             \A e \in Dates \ {d} : result'[u][e] = result[u][e]
      PROVE  ScoreAdds(u)'
  <2>1. Ended(u)' = Ended(u) \cup {d} /\ d \notin Ended(u)
    BY <1>3 DEF Ended
  <2>2. \A e \in Ended(u) : Pieces(u)[e] = Pieces(u)'[e]
    BY <1>1, <1>3, <2>1
  <2>3. SumOf(Pieces(u), Ended(u)) = SumOf(Pieces(u)', Ended(u))
    BY <1>1, <2>2, SumCong
  <2>4. ASSUME NEW f, f = Pieces(u)'
        PROVE  SumOf(f, Ended(u) \cup {d}) = SumOf(f, Ended(u)) + f[d]
    <3>1. \A e \in Ended(u) \cup {d} : f[e] \in Int
      BY <1>1, <2>4
    <3>2. IsFiniteSet(Ended(u)) /\ d \notin Ended(u)
      BY <1>1, <2>1
    <3> HIDE <2>4
    <3> QED
      BY <3>1, <3>2, SumAdd, Zenon
  <2>5. SumOf(Pieces(u)', Ended(u) \cup {d})
            = SumOf(Pieces(u)', Ended(u)) + Pieces(u)'[d]
    BY <2>4
  <2> QED
    BY <1>1, <1>3, <2>1, <2>3, <2>5 DEF ScoreAdds
<1> QED
  BY <1>2, <1>3 DEF ScoreMoves

\* The awards credited to a user are finite, and a new one is not of the old.
LEMMA BalancesStep ==
    ASSUME CreditInv, [Next]_vars, IsFiniteSet(credited),
           \A u \in Users : PointsAdd(u) /\ XPAdds(u)
    PROVE  IsFiniteSet(credited') /\ \A u \in Users : (PointsAdd(u) /\ XPAdds(u))'
<1>0. TypeOK /\ TypeOK'
  BY TypeStep DEF CreditInv
<1>1. \A u \in Users : /\ IsFiniteSet(PointsOf(u))
                       /\ IsFiniteSet(XPDates(u)) /\ XPDates(u) \subseteq Dates
                       /\ points[u] \in Nat /\ xp[u] \in Nat
                       /\ \A d \in Dates : promised[u][d] \in Int
  <2>1. \A u \in Users : PointsOf(u) \subseteq credited /\ XPDates(u) \subseteq Dates
    BY DEF PointsOf, XPDates
  <2>2. \A u \in Users : IsFiniteSet(PointsOf(u)) /\ IsFiniteSet(XPDates(u))
    BY <2>1, FiniteOK, FS_Subset
  <2> QED
    BY <1>0, <2>1, <2>2 DEF TypeOK
<1>2. CASE CreditsNothing
  <2>1. ASSUME NEW u \in Users
        PROVE  (PointsAdd(u) /\ XPAdds(u))'
    <3>1. PointsOf(u)' = PointsOf(u) /\ XPDates(u)' = XPDates(u)
      BY <1>2 DEF CreditsNothing, PointsOf, XPDates
    <3>2. \A d \in XPDates(u) : promised[u][d] = promised'[u][d]
      BY <1>2 DEF CreditsNothing, XPDates
    <3>3. SumOf(promised[u], XPDates(u)) = SumOf(promised'[u], XPDates(u))
      BY <1>1, <3>2, SumCong
    <3> QED
      BY <1>2, <3>1, <3>3 DEF CreditsNothing, PointsAdd, XPAdds
  <2> QED
    BY <1>2, <2>1 DEF CreditsNothing
<1>3. ASSUME NEW v \in Users, NEW d \in Dates, CreditsXP(v, d)
      PROVE  IsFiniteSet(credited') /\ \A u \in Users : (PointsAdd(u) /\ XPAdds(u))'
  <2>1. IsFiniteSet(credited')
    BY <1>3, FS_AddElement DEF CreditsXP
  <2>2. ASSUME NEW u \in Users
        PROVE  (PointsAdd(u) /\ XPAdds(u))'
    <3>1. PointsOf(u)' = PointsOf(u)
      BY <1>3 DEF CreditsXP, PointsOf
    <3>2. promised'[u] = promised[u] /\ points'[u] = points[u]
      BY <1>3 DEF CreditsXP
    <3>3. CASE u # v
      <4>1. XPDates(u)' = XPDates(u) /\ xp'[u] = xp[u]
        BY <1>0, <1>3, <3>3 DEF CreditsXP, XPDates, TypeOK
      <4> QED
        BY <3>1, <3>2, <4>1 DEF PointsAdd, XPAdds
    <3>4. CASE u = v
      <4>1. XPDates(u)' = XPDates(u) \cup {d} /\ d \notin XPDates(u)
        BY <1>3, <3>4 DEF CreditsXP, XPDates
      <4>2. xp'[u] = xp[u] + promised[u][d]
        BY <1>0, <1>3, <3>4 DEF CreditsXP, TypeOK
      <4>3. SumOf(promised[u], XPDates(u) \cup {d})
                = SumOf(promised[u], XPDates(u)) + promised[u][d]
        BY <1>1, <4>1, SumAdd
      <4> QED
        BY <3>1, <3>2, <4>1, <4>2, <4>3 DEF PointsAdd, XPAdds
    <3> QED
      BY <3>3, <3>4
  <2> QED
    BY <2>1, <2>2
<1>4. ASSUME NEW v \in Users, NEW d \in Dates, NEW k \in {"point", "quiz"},
             CreditsPoint(v, d, k)
      PROVE  IsFiniteSet(credited') /\ \A u \in Users : (PointsAdd(u) /\ XPAdds(u))'
  <2> DEFINE a == <<v, d, k>>
  <2>0. a[1] = v /\ a[2] = d /\ a[3] = k /\ k # "xp"
    OBVIOUS
  <2>1. a \notin credited /\ credited' = credited \cup {a}
    BY <1>4 DEF CreditsPoint
  <2>2. IsFiniteSet(credited')
    BY <2>1, FS_AddElement
  <2>3. ASSUME NEW u \in Users
        PROVE  (PointsAdd(u) /\ XPAdds(u))'
    <3>1. XPDates(u)' = XPDates(u)
      BY <1>4 DEF CreditsPoint, XPDates
    <3>2. promised'[u] = promised[u] /\ xp'[u] = xp[u]
      BY <1>4 DEF CreditsPoint
    <3> HIDE DEF a
    <3>3. CASE u # v
      <4>1. PointsOf(u)' = PointsOf(u)
        BY <2>0, <2>1, <3>3 DEF PointsOf
      <4>2. points'[u] = points[u]
        BY <1>0, <1>4, <3>3 DEF CreditsPoint, TypeOK
      <4> QED
        BY <3>1, <3>2, <4>1, <4>2 DEF PointsAdd, XPAdds
    <3>4. CASE u = v
      <4>1. PointsOf(u)' = PointsOf(u) \cup {a} /\ a \notin PointsOf(u)
        BY <2>0, <2>1, <3>4 DEF PointsOf
      <4>2. points'[u] = points[u] + 1
        BY <1>0, <1>4, <3>4 DEF CreditsPoint, TypeOK
      <4>3. Cardinality(PointsOf(u) \cup {a}) = Cardinality(PointsOf(u)) + 1
        BY <1>1, <4>1, FS_AddElement
      <4> QED
        BY <3>1, <3>2, <4>1, <4>2, <4>3 DEF PointsAdd, XPAdds
    <3> QED
      BY <3>3, <3>4
  <2> QED
    BY <2>2, <2>3
<1> QED
  BY <1>2, <1>3, <1>4, CreditSteps

\* Whatever handlers race, die or answer late: score, points and XP each add up
\* to what they were earned with.
TotalsInv ==
    /\ CreditInv /\ IsFiniteSet(credited)
    /\ \A u \in Users : ScoreAdds(u) /\ PointsAdd(u) /\ XPAdds(u)

THEOREM BalancesAddUp == Spec => []TotalsAddUp
<1>1. Init => TotalsInv
  <2> SUFFICES ASSUME Init PROVE TotalsInv
    OBVIOUS
  <2>1. TypeOK
    BY ConstantsOK DEF Init, TypeOK, NoResult, Result, Statuses, PCs
  <2>2. \A u \in Users, d \in Dates : AwardInv(u, d)
    BY DEF Init, AwardInv, PointInv, XPInv, QuizInv, Won, Owes, Pays,
       Settled, NoResult
  <2>3. OwesWhatItPromised
    BY DEF Init, OwesWhatItPromised
  <2>4. IsFiniteSet(credited) /\ Cardinality({}) = 0
    BY FS_EmptySet DEF Init
  <2>5. \A f : SumOf(f, {}) = 0
    BY FS_EmptySet, SumStep
  <2>6. ASSUME NEW u \in Users
        PROVE  ScoreAdds(u) /\ PointsAdd(u) /\ XPAdds(u)
    <3>1. Ended(u) = {} /\ PointsOf(u) = {} /\ XPDates(u) = {}
      BY DEF Init, Ended, PointsOf, XPDates, Finished, NoResult
    <3>2. totalScore[u] = 0 /\ points[u] = 0 /\ xp[u] = 0
      BY DEF Init
    <3> QED
      BY <2>4, <2>5, <3>1, <3>2 DEF ScoreAdds, PointsAdd, XPAdds
  <2> QED
    BY <2>1, <2>2, <2>3, <2>4, <2>6 DEF TotalsInv, CreditInv
<1>2. TotalsInv /\ [Next]_vars => TotalsInv'
  <2> SUFFICES ASSUME TotalsInv, [Next]_vars PROVE TotalsInv'
    OBVIOUS
  <2>1. TypeOK /\ TypeOK'
    BY TypeStep DEF TotalsInv, CreditInv
  <2>2. CreditInv'
    BY <2>1, AwardStep, OwedStep DEF TotalsInv, CreditInv
  <2>3. \A u \in Users : ScoreAdds(u)'
    BY <2>1, ScoreStep, ScoreAddsStep DEF TotalsInv
  <2>4. IsFiniteSet(credited') /\ \A u \in Users : (PointsAdd(u) /\ XPAdds(u))'
    BY BalancesStep DEF TotalsInv
  <2> QED
    BY <2>2, <2>3, <2>4 DEF TotalsInv
<1>3. TotalsInv => TotalsAddUp
  <2> SUFFICES ASSUME TotalsInv PROVE TotalsAddUp
    OBVIOUS
  <2>1. ScoreNeverDrifts
    BY SumOfPieces DEF TotalsInv, ScoreNeverDrifts, ScoreAdds, Ended
  <2>2. PointsAreCredits
    BY DEF TotalsInv, PointsAreCredits, PointsAdd, PointsOf
  <2>3. XPIsCredits
    BY SumOfFunction DEF TotalsInv, XPIsCredits, XPAdds, XPDates
  <2> QED
    BY <2>1, <2>2, <2>3 DEF TotalsAddUp
<1> QED
  BY <1>1, <1>2, <1>3, PTL DEF Spec
=============================================================================
