--------------------------- MODULE DailyChallenge ---------------------------
(***************************************************************************)
(* The daily challenge: one puzzle per calendar date, played against the   *)
(* user's reputation (challenge_results), the leaderboard score, the XP    *)
(* and the unlock points (users.total_score, xp, unlock_points).           *)
(*                                                                         *)
(* Every HTTP request is a goroutine of its own.  A handler first loads    *)
(* the challenge row, then reads the clock and the request body, then      *)
(* runs one or more database statements.  A statement, and a transaction   *)
(* whose row locks are held to its commit, is one step here; between two   *)
(* steps of a handler any other request, an administrator's edit and       *)
(* midnight may come, and the handler may die.                             *)
(***************************************************************************)
EXTENDS Integers, FiniteSets, FiniteSetsExt

CONSTANTS
    Users,      \* the players
    Requests,   \* the handlers that can be in flight at once
    Admins,     \* administrators queueing challenges at once
    Dates,      \* days that may have a challenge (challenge_date is UNIQUE)
    LastDay,    \* bound on the clock
    Rows,       \* challenge contents an administrator may save
    Claims,     \* correctPieces values a client may send (0: field omitted)
    Times,      \* elapsedSeconds values a client may send
    NoRow,      \* there is no challenge on a date
    NoJob       \* an idle handler serves no one

NoOption == -1  \* no quiz on a challenge, or a quiz not answered
NoDate   == -1

ASSUME ConstantsOK ==
    /\ Dates \subseteq Nat /\ LastDay \in Nat
    /\ Rows \subseteq [xpReward : Int, pieces : Nat \ {0},
                       playSeconds : Nat \ {0}, quiz : {NoOption, 0, 1}]
    /\ Claims \subseteq Int /\ Times \subseteq Int
    /\ NoRow \notin Rows

ASSUME FiniteOK == IsFiniteSet(Dates) /\ IsFiniteSet(Users)

VARIABLES
    today,      \* time.Now().UTC(), in days
    daily,      \* daily_challenges, by date
    picked,     \* date a create without one got from NextChallengeDate
    result,     \* challenge_results, by user and date
    totalScore, \* users.total_score
    xp,         \* users.xp
    points,     \* users.unlock_points
    pc,         \* the next step of each handler
    job,        \* what each handler has read and decoded so far
    promised,   \* history: XP the finishing handler set out to award
    credited,   \* history: awards that reached the user's row
    lost        \* history: awards whose handler failed before crediting them

tables  == <<daily, result, totalScore, xp, points>>
history == <<promised, credited, lost>>
vars    == <<today, picked, tables, pc, job, history>>

Ops == {"start", "complete", "fail", "answer"}
PCs == {"idle", "loaded", "checked", "eligible", "awardXP", "awardPoint"}
Job == [op : Ops, user : Users, date : Dates, row : Rows, arg : Nat]
Statuses == {"none", "in_progress", "completed", "failed"}
Result == [status : Statuses, correct : Nat, quiz : {NoOption, 0, 1}]
NoResult == [status |-> "none", correct |-> 0, quiz |-> NoOption]
Kinds  == {"xp", "point", "quiz"}
Awards == Users \X Dates \X Kinds

Finished(res) == res.status \in {"completed", "failed"}

-----------------------------------------------------------------------------
(* What a handler decides from what it has read *)

\* An operator marked "a slip" is not the code: it is a mistake the code could
\* make in the definition that follows, which the properties must catch
\* (PROJECT.json, "mutants").
challengeActiveWindow == 2

ActiveInAdvance(date) == today - date <= challengeActiveWindow    \* a slip

challengeIsActive(date) ==
    date <= today /\ today - date <= challengeActiveWindow

\* What a finished game counts for: every piece of a win unless the client
\* names a possible number, whatever a quitting client claims if not negative.
WonPieces(claim, row) ==
    IF claim \in 1 .. row.pieces THEN claim ELSE row.pieces

FailedPiecesUnchecked(claim) == claim                            \* a slip

FailedPieces(claim) == IF claim < 0 THEN 0 ELSE claim

\* Early returns: no longer (or not yet) active, a bad body, no quiz.
Refusable(j) ==
    \/ j.op # "fail" /\ ~challengeIsActive(j.date)
    \/ j.op = "complete" /\ \E t \in Times : t \notin 0 .. j.row.playSeconds
    \/ j.op = "answer"

\* The statements on challenge_results: INSERT ... ON CONFLICT DO NOTHING, and
\* the WHERE clauses of the two UPDATEs.
InsertedAgain(res) == [res EXCEPT !.status = "in_progress"]      \* a slip

Inserted(res) ==
    IF res.status = "none" THEN [res EXCEPT !.status = "in_progress"] ELSE res

StillFinishes(res) == res.status # "none"                        \* a slip

MayFinish(res) == res.status = "in_progress"

MayAnswer(res) == res.status = "completed" /\ res.quiz = NoOption

\* The next award of a handler whose completion was the one that counted.
AwardOnlyXP(reward) == IF reward > 0 THEN "awardXP" ELSE "idle"  \* a slip

FirstAward(reward) == IF reward > 0 THEN "awardXP" ELSE "awardPoint"

-----------------------------------------------------------------------------
Init ==
    /\ today \in 0 .. LastDay
    /\ daily = [d \in Dates |-> NoRow]
    /\ picked = [a \in Admins |-> NoDate]
    /\ result = [u \in Users |-> [d \in Dates |-> NoResult]]
    /\ totalScore = [u \in Users |-> 0]
    /\ xp = [u \in Users |-> 0]
    /\ points = [u \in Users |-> 0]
    /\ pc = [r \in Requests |-> "idle"]
    /\ job = [r \in Requests |-> NoJob]
    /\ promised = [u \in Users |-> [d \in Dates |-> 0]]
    /\ credited = {}
    /\ lost = {}

Midnight ==
    /\ today < LastDay
    /\ today' = today + 1
    /\ UNCHANGED <<picked, tables, pc, job, history>>

-----------------------------------------------------------------------------
(* Administrators *)

\* Both writes of daily_challenges replace the whole content of the row.
SaveRow(d, row) ==
    /\ daily' = [daily EXCEPT ![d] = row]
    /\ UNCHANGED <<today, result, totalScore, xp, points, pc, job, history>>

CreateChallenge(d, row) ==
    /\ SaveRow(d, row)
    /\ UNCHANGED picked

UpdateChallenge(d, row) ==
    /\ daily[d] # NoRow
    /\ SaveRow(d, row)
    /\ UNCHANGED picked

\* A create that names no date asks for the next free one ...
NextChallengeDate(a) ==
    LET next == Max({today} \cup {d + 1 : d \in {q \in Dates : daily[q] # NoRow}})
    IN  /\ picked[a] = NoDate
        /\ picked' = [picked EXCEPT ![a] = next]
        /\ next \in Dates
        /\ UNCHANGED <<today, tables, pc, job, history>>

\* ... and saves the row there with a statement of its own.
AppendChallenge(a, row) ==
    /\ picked[a] # NoDate
    /\ SaveRow(picked[a], row)
    /\ picked' = [picked EXCEPT ![a] = NoDate]

-----------------------------------------------------------------------------
(* The handlers' common steps *)

Goto(r, step) == pc' = [pc EXCEPT ![r] = step]

End(r) ==
    /\ Goto(r, "idle")
    /\ job' = [job EXCEPT ![r] = NoJob]

\* challengeIDFromPath: the row read here serves the rest of the handler.
Load(r, op, u, d) ==
    /\ pc[r] = "idle"
    /\ daily[d] # NoRow
    /\ job' = [job EXCEPT ![r] = [op |-> op, user |-> u, date |-> d,
                                  row |-> daily[d], arg |-> 0]]
    /\ Goto(r, "loaded")
    /\ UNCHANGED <<today, picked, tables, history>>

Accept(r, op, arg) ==
    /\ pc[r] = "loaded" /\ job[r].op = op
    /\ job' = [job EXCEPT ![r].arg = arg]
    /\ Goto(r, "checked")
    /\ UNCHANGED <<today, picked, tables, history>>

Refuse(r) ==
    /\ pc[r] = "loaded"
    /\ Refusable(job[r])
    /\ End(r)
    /\ UNCHANGED <<today, picked, tables, history>>

\* The process stops, the client goes away (which cancels the context of every
\* statement still to come) or a statement fails: the transaction under way
\* rolls back and whatever the handler had yet to award is never awarded.
Die(r) ==
    /\ pc[r] # "idle"
    /\ lost' = lost \cup {<<job[r].user, job[r].date, k>> : k \in
                   CASE pc[r] = "awardXP"    -> {"xp", "point"}
                     [] pc[r] = "awardPoint" -> {"point"}
                     [] OTHER                -> {}}
    /\ End(r)
    /\ UNCHANGED <<today, picked, tables, promised, credited>>

-----------------------------------------------------------------------------
(* POST /challenges/{id}/start *)

CheckStart(r) ==
    /\ Accept(r, "start", 0)
    /\ challengeIsActive(job[r].date)

StartResult(r) ==
    /\ pc[r] = "checked" /\ job[r].op = "start"
    /\ result' = [result EXCEPT ![job[r].user][job[r].date] = Inserted(@)]
    /\ End(r)
    /\ UNCHANGED <<today, daily, picked, totalScore, xp, points, history>>

-----------------------------------------------------------------------------
(* POST /challenges/{id}/fail and /complete *)

CheckFail(r) ==
    \E claim \in Claims : Accept(r, "fail", FailedPieces(claim))

CheckComplete(r) ==
    /\ \E claim \in Claims :
           Accept(r, "complete", WonPieces(claim, job[r].row))
    /\ challengeIsActive(job[r].date)
    /\ \E t \in Times : t \in 0 .. job[r].row.playSeconds

\* finishResult when the status-guarded UPDATE finds its row: one transaction
\* also adds the pieces to the leaderboard score.
Transition(j, status) ==
    /\ MayFinish(result[j.user][j.date])
    /\ result' = [result EXCEPT ![j.user][j.date] =
                      [@ EXCEPT !.status = status, !.correct = j.arg]]
    /\ totalScore' = [totalScore EXCEPT ![j.user] = @ + j.arg]
    /\ UNCHANGED <<today, daily, picked, xp, points, credited, lost>>

FailResult(r) ==
    /\ pc[r] = "checked" /\ job[r].op = "fail"
    /\ Transition(job[r], "failed")
    /\ End(r)
    /\ UNCHANGED promised

\* From here the handler owes the user the row's XP, if any, and a point.
CompleteResult(r) ==
    /\ pc[r] = "checked" /\ job[r].op = "complete"
    /\ Transition(job[r], "completed")
    /\ LET reward == job[r].row.xpReward
       IN  /\ Goto(r, FirstAward(reward))
           /\ promised' = [promised EXCEPT ![job[r].user][job[r].date] =
                               IF reward > 0 THEN reward ELSE 0]
    /\ UNCHANGED job

\* The UPDATE found no row in progress: nothing is written, nothing awarded
\* (ErrNotFound when there is no result at all).
FinishNothing(r) ==
    /\ pc[r] = "checked" /\ job[r].op \in {"fail", "complete"}
    /\ ~MayFinish(result[job[r].user][job[r].date])
    /\ End(r)
    /\ UNCHANGED <<today, picked, tables, history>>

\* The two awards are statements of their own, after the commit.
AddXP(r) ==
    /\ pc[r] = "awardXP"
    /\ LET j == job[r]
       IN  /\ xp' = [xp EXCEPT ![j.user] = @ + j.row.xpReward]
           /\ credited' = credited \cup {<<j.user, j.date, "xp">>}
    /\ Goto(r, "awardPoint")
    /\ UNCHANGED <<today, picked, daily, result, totalScore, points, job,
                   promised, lost>>

\* An error of AddXP is logged and the handler goes on.
AddXPFails(r) ==
    /\ pc[r] = "awardXP"
    /\ lost' = lost \cup {<<job[r].user, job[r].date, "xp">>}
    /\ Goto(r, "awardPoint")
    /\ UNCHANGED <<today, picked, tables, job, promised, credited>>

AddUnlockPoints(r) ==
    /\ pc[r] = "awardPoint"
    /\ LET j == job[r]
       IN  /\ points' = [points EXCEPT ![j.user] = @ + 1]
           /\ credited' = credited \cup {<<j.user, j.date, "point">>}
    /\ End(r)
    /\ UNCHANGED <<today, picked, daily, result, totalScore, xp, promised, lost>>

-----------------------------------------------------------------------------
(* POST /challenges/{id}/quiz *)

CheckAnswer(r) ==
    /\ \E option \in {0, 1} : Accept(r, "answer", option)
    /\ job[r].row.quiz # NoOption
    /\ challengeIsActive(job[r].date)

\* GetResult: only a completed result may answer.
ReadResult(r) ==
    /\ pc[r] = "checked" /\ job[r].op = "answer"
    /\ IF result[job[r].user][job[r].date].status = "completed"
       THEN Goto(r, "eligible") /\ UNCHANGED job
       ELSE End(r)
    /\ UNCHANGED <<today, picked, tables, history>>

\* One transaction; whether the answer is right is judged by the row that was
\* loaded first, not by the one there is now.
AnswerChallengeQuiz(r) ==
    /\ pc[r] = "eligible"
    /\ LET j == job[r]
           recorded == MayAnswer(result[j.user][j.date])
           granted == recorded /\ j.arg = j.row.quiz
       IN  /\ result' = IF recorded
                        THEN [result EXCEPT ![j.user][j.date] =
                                  [@ EXCEPT !.quiz = j.arg]]
                        ELSE result
           /\ points' = IF granted THEN [points EXCEPT ![j.user] = @ + 1]
                        ELSE points
           /\ credited' = IF granted
                          THEN credited \cup {<<j.user, j.date, "quiz">>}
                          ELSE credited
    /\ End(r)
    /\ UNCHANGED <<today, picked, daily, totalScore, xp, promised, lost>>

-----------------------------------------------------------------------------
\* What a handler does by itself once a request has reached it.
Handler(r) ==
    \/ CheckStart(r) \/ CheckFail(r) \/ CheckComplete(r) \/ CheckAnswer(r)
    \/ Refuse(r)
    \/ StartResult(r) \/ FailResult(r) \/ CompleteResult(r)
    \/ FinishNothing(r)
    \/ AddXP(r) \/ AddXPFails(r) \/ AddUnlockPoints(r)
    \/ ReadResult(r) \/ AnswerChallengeQuiz(r)

Admin ==
    \/ \E d \in Dates, row \in Rows :
           CreateChallenge(d, row) \/ UpdateChallenge(d, row)
    \/ \E a \in Admins :
           NextChallengeDate(a) \/ \E row \in Rows : AppendChallenge(a, row)

Next ==
    \/ Midnight
    \/ Admin
    \/ \E r \in Requests :
           \/ \E op \in Ops, u \in Users, d \in Dates : Load(r, op, u, d)
           \/ Handler(r)
           \/ Die(r)

Spec == Init /\ [][Next]_vars

\* The Go scheduler and the database let every handler finish or fail; nothing
\* makes a client call, an administrator edit or the clock advance.
FairSpec == Spec /\ \A r \in Requests : WF_vars(Handler(r))

-----------------------------------------------------------------------------
(* Properties *)

\* The tables, the handlers and the history hold values of their types.
TypeOK ==
    /\ today \in 0 .. LastDay
    /\ daily \in [Dates -> Rows \cup {NoRow}]
    /\ picked \in [Admins -> Dates \cup {NoDate}]
    /\ result \in [Users -> [Dates -> Result]]
    /\ totalScore \in [Users -> Nat]
    /\ xp \in [Users -> Nat] /\ points \in [Users -> Nat]
    /\ pc \in [Requests -> PCs]
    /\ job \in [Requests -> Job \cup {NoJob}]
    /\ \A r \in Requests :
           pc[r] # "idle" =>
               /\ job[r] \in Job
               /\ job[r].op = "answer" => job[r].arg \in {0, 1}
               /\ pc[r] = "eligible" => job[r].op = "answer"
               /\ pc[r] = "awardXP" => job[r].row.xpReward > 0
    /\ promised \in [Users -> [Dates -> Nat]]
    /\ credited \subseteq Awards /\ lost \subseteq Awards

\* "so the two can never drift" (results.go): whatever handlers race or die,
\* the leaderboard score is the sum of the pieces of the user's results.
ScoreNeverDrifts ==
    \A u \in Users :
        totalScore[u] = MapThenSumSet(LAMBDA d : result[u][d].correct,
                                      {d \in Dates : Finished(result[u][d])})

\* The handlers that still owe the user the awards of a completion.
Paying(u, d) ==
    {r \in Requests : /\ pc[r] \in {"awardXP", "awardPoint"}
                      /\ job[r].user = u /\ job[r].date = d}

One(p) == IF p THEN 1 ELSE 0

\* A completed result has its point and its XP exactly once: credited, given
\* up by a handler that failed, or still owed by one handler.  Anything else
\* has none; and a quiz point stands for an answer to a completed challenge.
AwardedOnce ==
    \A u \in Users, d \in Dates :
        LET won == result[u][d].status = "completed"
            settled(k) == One(<<u, d, k>> \in credited)
                              + One(<<u, d, k>> \in lost)
            owing == {r \in Paying(u, d) : pc[r] = "awardXP"}
        IN  /\ Cardinality(Paying(u, d)) + settled("point") = One(won)
            /\ Cardinality(owing) + settled("xp")
                   = One(won /\ promised[u][d] > 0)
            /\ <<u, d, "quiz">> \in credited => won /\ result[u][d].quiz # NoOption

\* The balances hold what was credited and nothing else: no award is added
\* twice, by two requests that race or by a retry, and no quiz point farmed.
PointsAreCredits ==
    \A u \in Users :
        points[u] = Cardinality({a \in credited :
                                   a[1] = u /\ a[3] \in {"point", "quiz"}})

XPIsCredits ==
    \A u \in Users :
        xp[u] = MapThenSumSet(LAMBDA d : promised[u][d],
                              {d \in Dates : <<u, d, "xp">> \in credited})

\* Score, points and XP each add up to what they were earned with.
TotalsAddUp == ScoreNeverDrifts /\ PointsAreCredits /\ XPIsCredits

\* "a finished reputation can never be reset" (results.go): a result only
\* moves forward, and its outcome, pieces and quiz answer are written once.
FinishedIsFinal ==
    [][\A u \in Users, d \in Dates :
         LET old == result[u][d]
             new == result'[u][d]
         IN  /\ Finished(old) => new.status = old.status
                                     /\ new.correct = old.correct
             /\ old.status = "in_progress" => new.status # "none"
             /\ old.status = "none" => ~Finished(new)
             /\ old.quiz # NoOption => new.quiz = old.quiz]_vars

\* A step leaves the score of a user and the pieces it is made of alone, or
\* ends one result and adds the pieces of that one.
ScoreMoves(u) ==
    LET old(d) == result[u][d]
        new(d) == result'[u][d]
    IN  \/ /\ totalScore'[u] = totalScore[u]
           /\ \A d \in Dates : Finished(old(d)) \/ Finished(new(d)) =>
                  /\ Finished(old(d)) /\ Finished(new(d))
                  /\ new(d).correct = old(d).correct
        \/ \E d \in Dates :
               /\ ~Finished(old(d)) /\ Finished(new(d))
               /\ totalScore'[u] = totalScore[u] + new(d).correct
               /\ \A e \in Dates \ {d} : new(e) = old(e)

\* ScoreNeverDrifts, step by step: what it takes whatever the number of dates.
ScoreMovesWithResults == [][\A u \in Users : ScoreMoves(u)]_vars

\* Nobody has played a puzzle whose date has not come: the clock a handler
\* checked may be old when it writes, but never ahead.
NothingPlayedEarly ==
    \A u \in Users, d \in Dates : result[u][d].status # "none" => d <= today

\* Every completion is settled in the end: unless a failure loses them, the
\* point, and the XP if the challenge carries any, reach the user.
EveryWinSettles ==
    \A u \in Users, d \in Dates :
        result[u][d].status = "completed" ~>
            /\ <<u, d, "point">> \in credited \cup lost
            /\ promised[u][d] > 0 => <<u, d, "xp">> \in credited \cup lost

\* "No date -> append to the next free queue slot" (admin.go): a create that
\* named no date never replaces a challenge that is already queued.
AppendTakesAFreeDate ==
    [][\A a \in Admins :
         picked[a] # NoDate /\ picked'[a] = NoDate =>
             daily[picked[a]] = NoRow]_vars
=============================================================================
