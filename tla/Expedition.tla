------------------------------ MODULE Expedition ------------------------------
(***************************************************************************)
(* The expedition: a campaign of numbered levels that open with the stars  *)
(* a player has earned or bought.  Administrators append levels, remove    *)
(* the last one, and set the image and the configuration of any.           *)
(*                                                                         *)
(* Nothing here is one transaction of the player's handlers: each of their *)
(* queries is a step, and so is each statement of an administrator, the    *)
(* removal of a level included, which locks nothing it reads.              *)
(***************************************************************************)
EXTENDS Integers, Sequences, FiniteSets, FiniteSetsExt

CONSTANTS
    Users, Requests, Admins,
    Band,       \* levels of one default tier: 20
    Cap,        \* maxExpeditionLevels: 1000
    Configs,    \* configurations an administrator may send
    Campaign,   \* the levels there are to begin with, in order
    MaxLevels,  \* bound on the levels that several administrators append
    MaxEdits,   \* bound on configurations sent and levels removed
    MaxBonus,   \* bound on the stars bought
    NoConfig, NoJob, NoTask

\* Several administrators may pass the cap's check before any of them appends,
\* and an edit of a level that was removed meanwhile puts it back: a bound.
Indices == 1 .. MaxLevels

Tiers == [star : 1 .. 5, onMain : BOOLEAN, xp : Nat]
Row   == [config : Configs \cup {NoConfig}, image : BOOLEAN]

ASSUME ConstantsOK ==
    /\ IsFiniteSet(Admins) /\ Admins # {}
    /\ Band \in Nat \ {0}
    /\ Configs \subseteq Tiers /\ NoConfig \notin Tiers
    /\ Cap \in Nat /\ Campaign \in Seq(Row) /\ Len(Campaign) \in 1 .. Cap
    /\ MaxLevels \in Nat /\ Cap <= MaxLevels
    /\ MaxEdits \in Nat /\ MaxBonus \in Nat

VARIABLES
    levels,     \* expedition_levels, by index
    progress,   \* expedition_progress.status, "none" without a row
    bonus,      \* users.expedition_bonus_stars
    pc, job,    \* each handler's next step and what it has read
    task,       \* what each administrator is in the middle of
    edits,      \* configurations sent and levels removed so far
    credited    \* history: XP awards of each user for each level

tables  == <<levels, progress, bonus>>
vars    == <<tables, pc, job, task, edits, credited>>

Statuses == {"none", "in_progress", "completed", "failed"}
Ops      == {"start", "complete", "fail"}
PCs      == {"idle", "stars", "gate", "image", "start", "complete", "fail", "award"}
Job      == [user : Users, op : Ops, level : Indices,
             stars : Nat, xp : Nat]
Task     == [step : {"create", "played", "delete", "edit"}, level : Indices \cup {0}]

-----------------------------------------------------------------------------
(* What the code computes ("a slip": a mistake it could make, PROJECT.json) *)

LevelCount == Max(DOMAIN levels \cup {0})

TierForLevel(i) ==
    LET band == Min({5, (i - 1) \div Band + 1})
    IN  [star |-> band, onMain |-> TRUE, xp |-> <<100, 200, 300, 500, 1000>>[band]]

\* EffectiveTiers: a map over 1 .. LevelCount, zero beyond it.
EffectiveTier(i) ==
    IF i > LevelCount THEN [star |-> 0, onMain |-> FALSE, xp |-> 0]
    ELSE IF i \notin DOMAIN levels \/ levels[i].config = NoConfig THEN TierForLevel(i)
    ELSE levels[i].config

SumOfStars(S) ==
    LET stars == [i \in Indices |-> EffectiveTier(i).star]
    IN  MapThenSumSet(LAMBDA i : stars[i], S)

CompletedLevels(u) == {i \in Indices : progress[u][i] = "completed"}

TotalExpeditionStars(u) == SumOfStars(CompletedLevels(u)) + bonus[u]

RequiredStars(i) == SumOfStars({k \in 1 .. i - 1 : EffectiveTier(k).onMain})

OpensOneShort(i, n) ==                                           \* a slip
    ~EffectiveTier(i).onMain \/ n + 1 >= RequiredStars(i)

Opens(i, n) == ~EffectiveTier(i).onMain \/ n >= RequiredStars(i)

EveryLevelCounts(i) == i > 0                                     \* a slip

CountsOnMap(i) == EffectiveTier(i).onMain

\* "req" of buildExpeditionState when its loop comes to level i.
RunningSum[i \in Nat] ==
    IF i <= 1 THEN 0
    ELSE RunningSum[i - 1] +
         (IF CountsOnMap(i - 1) THEN EffectiveTier(i - 1).star ELSE 0)

StartedAgain(status) == "in_progress"                            \* a slip

Started(status) == IF status = "completed" THEN status ELSE "in_progress"

MayAlwaysFinish(status) == status # "none"                       \* a slip

MayFinish(status) == status = "in_progress"

BelowCapOrAtIt(n) == n <= Cap                                    \* a slip

BelowCap(n) == n < Cap

IsLastLevel(i) == i = LevelCount

-----------------------------------------------------------------------------
Init ==
    /\ levels = Campaign
    /\ progress = [u \in Users |-> [i \in Indices |-> "none"]]
    /\ bonus = [u \in Users |-> 0]
    /\ pc = [r \in Requests |-> "idle"]
    /\ job = [r \in Requests |-> NoJob]
    /\ task = [a \in Admins |-> NoTask]
    /\ edits = 0
    /\ credited = [u \in Users |-> [i \in Indices |-> 0]]

Goto(r, step) == pc' = [pc EXCEPT ![r] = step]

End(r) ==
    /\ Goto(r, "idle")
    /\ job' = [job EXCEPT ![r] = NoJob]

Administration == <<task, edits>>

-----------------------------------------------------------------------------
(* POST /expedition/{level}/start, /complete and /fail *)

\* levelFromPath.  A fail has no gate.
Load(r, u, op, i) ==
    /\ pc[r] = "idle"
    /\ i <= LevelCount
    /\ Goto(r, IF op = "fail" THEN "fail" ELSE "stars")
    /\ job' = [job EXCEPT ![r] =
                  [user |-> u, op |-> op, level |-> i, stars |-> 0, xp |-> 0]]
    /\ UNCHANGED <<tables, Administration, credited>>

\* TotalExpeditionStars, its queries in one step: a level completed after the
\* first of them is not counted yet, which can only close a level.
ReadStars(r) ==
    /\ pc[r] = "stars"
    /\ Goto(r, "gate")
    /\ job' = [job EXCEPT ![r].stars = TotalExpeditionStars(job[r].user)]
    /\ UNCHANGED <<tables, Administration, credited>>

\* The handler reads the tiers, again, and keeps the level's XP.
Gate(r) ==
    /\ pc[r] = "gate"
    /\ Opens(job[r].level, job[r].stars)
    /\ \/ /\ job[r].op = "start" /\ Goto(r, "image")
          /\ job' = [job EXCEPT ![r].stars = 0]
       \/ /\ job[r].op = "complete" /\ Goto(r, "complete")
          /\ job' = [job EXCEPT ![r].stars = 0,
                                ![r].xp = EffectiveTier(job[r].level).xp]
    /\ UNCHANGED <<tables, Administration, credited>>

LevelImageID(r) ==
    /\ pc[r] = "image"
    /\ job[r].level \in DOMAIN levels /\ levels[job[r].level].image
    /\ Goto(r, "start")
    /\ UNCHANGED <<tables, job, Administration, credited>>

StartExpeditionLevel(r) ==
    /\ pc[r] = "start"
    /\ progress' = [progress EXCEPT ![job[r].user][job[r].level] = Started(@)]
    /\ End(r)
    /\ UNCHANGED <<levels, bonus, Administration, credited>>

FailExpeditionLevel(r) ==
    /\ pc[r] = "fail"
    /\ MayFinish(progress[job[r].user][job[r].level])
    /\ progress' = [progress EXCEPT ![job[r].user][job[r].level] = "failed"]
    /\ End(r)
    /\ UNCHANGED <<levels, bonus, Administration, credited>>

CompleteExpeditionLevel(r) ==
    /\ pc[r] = "complete"
    /\ LET j == job[r] IN
           /\ MayFinish(progress[j.user][j.level])
           /\ progress' = [progress EXCEPT ![j.user][j.level] = "completed"]
           /\ \/ j.xp > 0 /\ Goto(r, "award") /\ UNCHANGED job
              \/ j.xp = 0 /\ End(r)
    /\ UNCHANGED <<levels, bonus, Administration, credited>>

\* A statement of its own.
AddXP(r) ==
    /\ pc[r] = "award"
    /\ credited' = [credited EXCEPT ![job[r].user][job[r].level] = @ + 1]
    /\ End(r)
    /\ UNCHANGED <<tables, Administration>>

\* The request is refused, finds nothing to update, or fails; an AddXP that
\* fails is logged and forgotten.
GiveUp(r) ==
    /\ pc[r] # "idle"
    /\ End(r)
    /\ UNCHANGED <<tables, Administration, credited>>

\* CreditPurchase, seen from here.
BuyStars(u) ==
    /\ bonus[u] < MaxBonus
    /\ bonus' = [bonus EXCEPT ![u] = @ + 1]
    /\ UNCHANGED <<levels, progress, pc, job, Administration, credited>>

-----------------------------------------------------------------------------
(* Administrators *)

Begin(a, step, i) ==
    /\ task[a] = NoTask
    /\ task' = [task EXCEPT ![a] = [step |-> step, level |-> i]]
    /\ UNCHANGED <<tables, pc, job, edits, credited>>

At(a, step) == task[a] # NoTask /\ task[a].step = step

Finish(a) == task' = [task EXCEPT ![a] = NoTask]

SetRow(i, row) ==
    levels' = [k \in DOMAIN levels \cup {i} |-> IF k = i THEN row ELSE levels[k]]

\* handleAdminCreateExpeditionLevel looks at the cap, then inserts at the
\* index it finds free in the same statement.
BeginCreate(a) ==
    /\ BelowCap(LevelCount)
    /\ Begin(a, "create", 0)

CreateExpeditionLevel(a) ==
    /\ At(a, "create") /\ LevelCount + 1 \in Indices
    /\ SetRow(LevelCount + 1, [config |-> NoConfig, image |-> FALSE])
    /\ Finish(a)
    /\ UNCHANGED <<progress, bonus, pc, job, edits, credited>>

\* DeleteLastExpeditionLevel: the highest index, the rows of its players, and
\* the removal are three statements, and what the first two saw may change.
BeginDelete(a, i) ==
    /\ i <= LevelCount /\ i # 1 /\ IsLastLevel(i)
    /\ edits < MaxEdits
    /\ Begin(a, "played", i)

CountPlayed(a) ==
    /\ At(a, "played")
    /\ \A u \in Users : progress[u][task[a].level] = "none"
    /\ task' = [task EXCEPT ![a].step = "delete"]
    /\ UNCHANGED <<tables, pc, job, edits, credited>>

DeleteLevel(a) ==
    /\ At(a, "delete")
    /\ levels' = [i \in DOMAIN levels \ {task[a].level} |-> levels[i]]
    /\ edits' = edits + 1
    /\ Finish(a)
    /\ UNCHANGED <<progress, bonus, pc, job, credited>>

\* levelFromPath of the two edits of a level; both then insert a row for it if
\* there is none, with what it knows of it.
BeginEdit(a, i) ==
    /\ i <= LevelCount
    /\ Begin(a, "edit", i)

SetLevelImage(a) ==
    /\ At(a, "edit")
    /\ LET i == task[a].level
       IN  SetRow(i, [config |-> IF i \in DOMAIN levels THEN levels[i].config
                                 ELSE NoConfig,
                      image |-> TRUE])
    /\ Finish(a)
    /\ UNCHANGED <<progress, bonus, pc, job, edits, credited>>

UpdateLevelConfig(a, config) ==
    /\ At(a, "edit")
    /\ edits < MaxEdits
    /\ LET i == task[a].level
       IN  SetRow(i, [config |-> config,
                      image |-> i \in DOMAIN levels /\ levels[i].image])
    /\ edits' = edits + 1
    /\ Finish(a)
    /\ UNCHANGED <<progress, bonus, pc, job, credited>>

AdminDies(a) ==
    /\ task[a] # NoTask
    /\ Finish(a)
    /\ UNCHANGED <<tables, pc, job, edits, credited>>

-----------------------------------------------------------------------------
Next ==
    \/ \E r \in Requests :
           \/ \E u \in Users, op \in Ops, i \in Indices : Load(r, u, op, i)
           \/ ReadStars(r) \/ Gate(r) \/ LevelImageID(r)
           \/ StartExpeditionLevel(r) \/ FailExpeditionLevel(r)
           \/ CompleteExpeditionLevel(r) \/ AddXP(r) \/ GiveUp(r)
    \/ \E u \in Users : BuyStars(u)
    \/ \E a \in Admins :
           \/ BeginCreate(a) \/ CreateExpeditionLevel(a)
           \/ CountPlayed(a) \/ DeleteLevel(a) \/ SetLevelImage(a)
           \/ \E i \in Indices : BeginDelete(a, i) \/ BeginEdit(a, i)
           \/ \E config \in Configs : UpdateLevelConfig(a, config)
           \/ AdminDies(a)

Spec == Init /\ [][Next]_vars

-----------------------------------------------------------------------------
(* Properties *)

Shapes ==
    /\ DOMAIN levels \subseteq Indices /\ levels \in [DOMAIN levels -> Row]
    /\ progress \in [Users -> [Indices -> Statuses]]
    /\ bonus \in [Users -> 0 .. MaxBonus]
    /\ pc \in [Requests -> PCs]
    /\ job \in [Requests -> Job \cup {NoJob}]
    /\ task \in [Admins -> Task \cup {NoTask}]
    /\ edits \in 0 .. MaxEdits + Cardinality(Admins)
    /\ credited \in [Users -> [Indices -> Nat]]

\* The tables, handlers, administrators and history hold values of their types,
\* and the cap holds as long as there is one administrator.
TypeOK == Shapes /\ (Cardinality(Admins) = 1 => LevelCount <= Cap)

OnMap == {i \in 1 .. LevelCount : EffectiveTier(i).onMain}

\* A level played has an image, and a player who has started a level of the
\* map has the stars it asks for, earned or bought: however starts, wins and
\* failures of several requests interleave, nobody gets ahead of the ladder,
\* as long as no administrator moves it.
NobodySkipsAhead ==
    edits = 0 =>
        \A u \in Users, i \in Indices : progress[u][i] # "none" =>
            /\ i \in DOMAIN levels /\ levels[i].image
            /\ i \in OnMap =>
                   TotalExpeditionStars(u) >= SumOfStars({k \in OnMap : k < i})

\* A level's XP is awarded to a player who has completed it, and never twice,
\* whether requests race, the level is removed and appended anew, or its XP is
\* edited.
AwardedOnce ==
    \A u \in Users, i \in Indices :
        LET awards == credited[u][i]
                + Cardinality({r \in Requests : /\ pc[r] = "award"
                                                /\ job[r].user = u
                                                /\ job[r].level = i})
        IN  awards <= IF progress[u][i] = "completed" THEN 1 ELSE 0

\* "Levels are numbered 1..N with no gaps" (ExpeditionLevelCount), from 1 and
\* up to the cap, while there is one administrator at work.
Numbered ==
    DOMAIN levels = 1 .. LevelCount /\ LevelCount \in 1 .. Cap

\* What buildExpeditionState shows a player with n stars.
StatusShown(u, n, i) ==
    IF EffectiveTier(i).onMain /\ n < RunningSum[i] THEN "locked"
    ELSE IF progress[u][i] = "none" THEN "available" ELSE progress[u][i]

CurrentLevel(u) ==
    Min({Cardinality(CompletedLevels(u) \cap OnMap) + 1, Cardinality(OnMap)})

\* pageOf: a player's page is cut from the campaign that was built in full.
PageOf(count, limit, offset) == {i \in 1 .. count : offset < i /\ i <= offset + limit}

\* The administrator's is computed: its rows, and the room that is made for them
\* (make panics when it is negative).
AdminPage(count, limit, offset) ==
    LET from == offset + 1
        to   == IF offset + limit > count THEN count ELSE offset + limit
    IN  [room |-> to - from + 1, rows |-> from .. to]

\* Whatever their size, the administrator's pages have the rows of the player's.
\* A page that begins past the end of the list, as one does when two levels are
\* removed since the page before, is left out: less than no room is made for it.
PagesAgree(count) ==
    \A limit, number \in 1 .. Cap :
        LET offset == (number - 1) * limit
            page   == AdminPage(count, limit, offset)
        IN  offset <= count => /\ page.room >= 0
                               /\ page.rows = PageOf(count, limit, offset)

\* The campaign a player is shown is the one that start and complete enforce,
\* which sum the ladder another way: it has no gap, no level won is shown
\* locked unless an administrator moved the ladder, and there is always a level
\* to begin with.
ViewAgreesWithGate ==
    /\ Numbered /\ PagesAgree(LevelCount)
    /\ \A u \in Users :
           LET n     == TotalExpeditionStars(u)
               shown == [i \in 1 .. LevelCount |-> StatusShown(u, n, i)]
           IN  /\ \A i \in 1 .. LevelCount :
                      /\ shown[i] # "locked" <=> Opens(i, n)
                      /\ edits = 0 /\ progress[u][i] # "none" => shown[i] = progress[u][i]
               /\ \E i \in 1 .. LevelCount : shown[i] # "locked"
               /\ OnMap # {} => CurrentLevel(u) \in 1 .. Cardinality(OnMap)

\* A player's stars only grow, unless an administrator edits or removes a
\* level: nothing a player does, in any order, costs a star.
StarsAreKept ==
    [][edits' # edits \/ UNCHANGED tables \/ \A u \in Users :
         TotalExpeditionStars(u)' >= TotalExpeditionStars(u)]_vars

\* "deleting a played level would silently take stars away from whoever
\* completed it", and is refused (DeleteLastExpeditionLevel).
RemovalTakesNoStars ==
    [][DOMAIN levels \subseteq DOMAIN levels' \/ \A u \in Users :
         TotalExpeditionStars(u)' >= TotalExpeditionStars(u)]_vars
=============================================================================
