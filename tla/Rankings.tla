-------------------------------- MODULE Rankings --------------------------------
(***************************************************************************)
(* Ranks, the leaderboard and achievements.  They are read off the scores  *)
(* other handlers write, one query after the other, and an achievement is  *)
(* given by a statement of its own, later.                                 *)
(***************************************************************************)
EXTENDS Integers, FiniteSets

CONSTANTS
    Players,     \* 1 .. n, in order of created_at
    Readers,     \* requests
    BoardSize,   \* entries of the leaderboard: 10
    MaxScore,    \* bound on a player's score
    NoReading

ASSUME RankingsConstants ==
    BoardSize \in Nat \ {0} /\ MaxScore \in Nat /\ Players \subseteq Nat /\ IsFiniteSet(Players)

VARIABLES
    score,        \* users.total_score, the sum of the player's results
    solved,       \* who has completed a challenge ...
    fast,         \* ... and now has one in half of its seconds
    achievements, \* the table
    reading,      \* what each request has read
    reigned,      \* history: who has had the highest score
    wasFast       \* history: who has been fast

rankingsVars == <<score, solved, fast, achievements, reading, reigned, wasFast>>
truth        == <<score, solved, fast, reigned, wasFast>>

Keys    == {"first_piece", "speed_demon", "jigsaw_king"}
Reading == [page : {"stats", "board"}, me : Players, step : {"rank", "award"},
            due : SUBSET (Players \X Keys)]

-----------------------------------------------------------------------------
(* The queries *)

GetRank(p) ==
    IF score[p] = 0 THEN 0
    ELSE 1 + Cardinality({q \in Players : score[q] > score[p]})

\* ORDER BY total_score DESC, created_at ASC
Before(p, q) == score[p] > score[q] \/ (score[p] = score[q] /\ p < q)

Place(p) == 1 + Cardinality({q \in Players : Before(q, p)})

GetLeaderboard == {p \in Players : Place(p) <= BoardSize}

\* "Persist Jigsaw King for the current #1."
FirstOfAll(board) ==                                             \* a slip
    {<<p, "jigsaw_king">> : p \in {q \in board : Place(q) = 1}}

King(board) ==
    {<<p, "jigsaw_king">> : p \in {q \in board : Place(q) = 1 /\ score[q] > 0}}

RankingsInit ==
    /\ score = [p \in Players |-> 0]
    /\ solved = {} /\ fast = {}
    /\ achievements = {}
    /\ reading = [r \in Readers |-> NoReading]
    /\ reigned = {}
    /\ wasFast = {}

-----------------------------------------------------------------------------
(* What other handlers write (DailyChallenge) *)

Leaders(s) == {p \in Players : s[p] > 0 /\ \A q \in Players : s[q] <= s[p]}

\* A failed result counts its pieces as well.
FinishResult(p, pieces, completed, quick) ==
    /\ score[p] + pieces <= MaxScore
    /\ completed => pieces > 0
    /\ quick => completed
    /\ score' = [score EXCEPT ![p] = @ + pieces]
    /\ solved' = IF completed THEN solved \cup {p} ELSE solved
    /\ fast' = IF quick THEN fast \cup {p} ELSE fast
    /\ reigned' = reigned \cup Leaders(score')
    /\ wasFast' = wasFast \cup fast'
    /\ UNCHANGED <<achievements, reading>>

\* An administrator edits the seconds of a challenge, and so what all of its
\* results are worth: more of them make more players fast, fewer make fewer.
EditSeconds(players) ==
    /\ fast' \in {fast \cup players, fast \ players}
    /\ wasFast' = wasFast \cup fast'
    /\ UNCHANGED <<score, solved, achievements, reading, reigned>>

-----------------------------------------------------------------------------
(* handleMyStats and handleLeaderboard *)

Read(r, page, p, step, due) ==
    reading' = [reading EXCEPT ![r] = [page |-> page, me |-> p, step |-> step, due |-> due]]

\* GetAggregateStats: two of the achievements are due, ...
GetAggregateStats(r, p) ==
    /\ reading[r] = NoReading
    /\ Read(r, "stats", p, "rank",
            (IF score[p] > 0 THEN {<<p, "first_piece">>} ELSE {})
                \cup (IF p \in fast THEN {<<p, "speed_demon">>} ELSE {}))
    /\ UNCHANGED <<truth, achievements>>

\* ... and the third by the next query.
RankOfMine(r) ==
    /\ reading[r] # NoReading /\ reading[r].step = "rank"
    /\ LET p == reading[r].me
       IN  Read(r, "stats", p, "award",
                reading[r].due \cup (IF GetRank(p) = 1 THEN {<<p, "jigsaw_king">>} ELSE {}))
    /\ UNCHANGED <<truth, achievements>>

ReadLeaderboard(r, p) ==
    /\ reading[r] = NoReading
    /\ Read(r, "board", p, "award", King(GetLeaderboard))
    /\ UNCHANGED <<truth, achievements>>

\* A statement for each, ON CONFLICT DO NOTHING, that may fail unnoticed.
AwardAchievement(r, award) ==
    /\ reading[r] # NoReading /\ reading[r].step = "award"
    /\ award \in reading[r].due
    /\ reading' = [reading EXCEPT ![r].due = @ \ {award}]
    /\ \/ achievements' = achievements \cup {award}
       \/ UNCHANGED achievements
    /\ UNCHANGED truth

\* The rest of the handler only reads: the entry of a caller who is not on the
\* board, the achievements, the answer.
Answer(r) ==
    /\ reading[r] # NoReading
    /\ reading' = [reading EXCEPT ![r] = NoReading]
    /\ UNCHANGED <<truth, achievements>>

RankingsNext ==
    \/ \E p \in Players, pieces \in 0 .. MaxScore, completed, quick \in BOOLEAN :
           FinishResult(p, pieces, completed, quick)
    \/ \E players \in SUBSET solved : EditSeconds(players)
    \/ \E r \in Readers :
           \/ \E p \in Players : GetAggregateStats(r, p) \/ ReadLeaderboard(r, p)
           \/ RankOfMine(r) \/ Answer(r)
           \/ \E award \in Players \X Keys : AwardAchievement(r, award)

RankingsSpec == RankingsInit /\ [][RankingsNext]_rankingsVars

-----------------------------------------------------------------------------
(* Properties *)

\* Scores, achievements, requests and history hold values of their types.
RankingsTypeOK ==
    /\ score \in [Players -> 0 .. MaxScore]
    /\ fast \in SUBSET solved /\ solved \in SUBSET Players
    /\ achievements \in SUBSET (Players \X Keys)
    /\ reading \in [Readers -> Reading \cup {NoReading}]
    /\ reigned \in SUBSET Players /\ wasFast \in SUBSET Players

\* The ranks and aggregates an achievement is given for are old by then, and
\* whoever it goes to may have been overtaken; but each was once deserved, at
\* the least: a king has been first with a score, alone or among equals, and who
\* is fast has completed a challenge in half of the seconds it had at some time,
\* if not when it was played: an edit of them makes old results fast.
AchievementsWereEarned ==
    \A p \in Players :
        /\ <<p, "first_piece">> \in achievements => score[p] > 0
        /\ <<p, "speed_demon">> \in achievements => p \in solved \cap wasFast
        /\ <<p, "jigsaw_king">> \in achievements => p \in reigned
=============================================================================
