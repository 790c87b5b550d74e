--------------------------------- MODULE Story ---------------------------------
(***************************************************************************)
(* A story: an ordered list of pages, each a jigsaw that opens with the    *)
(* one before it, behind the level a player must have reached.             *)
(*                                                                         *)
(* CompleteStoryPage is four statements outside any transaction: the page  *)
(* with the story's gate, the player's XP, the page before, the insert.    *)
(* The XP of the page is a fifth.  Pages are only ever appended, by one    *)
(* statement whose UNIQUE index is taken by one of two that race, so a     *)
(* page is its index here.                                                 *)
(***************************************************************************)
EXTENDS Integers, Sequences, FiniteSets, FiniteSetsExt

CONSTANTS
    Users, Requests,
    MaxLevel,   \* models.MaxLevel: 100
    xpBase,     \* models.xpBase: 100
    Rewards,    \* xpReward values an administrator may send, unchecked
    Earned,     \* XP a player may get from any other game at once
    MaxPages, MaxXP,    \* bounds on the pages and on the XP from other games
    NoJob

ASSUME ConstantsOK ==
    /\ MaxLevel \in Nat \ {0} /\ xpBase \in Nat \ {0}
    /\ Rewards \subseteq Int /\ Earned \subseteq Nat \ {0}
    /\ MaxPages \in Nat /\ MaxXP \in Nat

Levels == 1 .. MaxLevel
Pages  == 1 .. MaxPages
PCs    == {"idle", "level", "previous", "insert", "award"}
Job    == [user : Users, page : Pages, reward : Rewards, required : Levels]

ASSUME NothingIsSomething == NoJob \notin Job

VARIABLES
    pages,      \* story_pages: the reward of each, in order
    gate,       \* stories.level_required
    done,       \* story_page_progress, by user
    xp,         \* users.xp
    pc, job,    \* each handler's next step and what it has read
    lowest,     \* history: the lowest the gate has been
    credited,   \* history: awards of each page to each user ...
    lost        \* ... and those a failure took

tables  == <<pages, gate, done, xp>>
history == <<lowest, credited, lost>>
vars    == <<tables, pc, job, history>>

-----------------------------------------------------------------------------
(* What the code decides ("a slip": a mistake it could make, PROJECT.json) *)

XPForLevelUpLinear(level) == xpBase * level                      \* a slip

XPForLevelUp(level) == xpBase * level * level

\* The loop of LevelFromXP, from a level and then the XP that is left.
Climb[level \in Levels] ==
    [remaining \in Nat |->
        IF level < MaxLevel /\ remaining >= XPForLevelUp(level)
        THEN Climb[level + 1][remaining - XPForLevelUp(level)]
        ELSE level]

LevelFromXP(n) == Climb[1][n]

OpensPairs(u, page) == page <= 2 \/ page - 1 \in done[u]         \* a slip

PreviousDone(u, page) == page = 1 \/ page - 1 \in done[u]

NewOrNot(u, page) == page \in Pages                              \* a slip

Newly(u, page) == page \notin done[u]

AwardsAny(reward) == reward \in Int                              \* a slip

AwardsXP(reward) == reward > 0

-----------------------------------------------------------------------------
None == [u \in Users |-> [page \in Pages |-> 0]]

\* CreateStory has chosen a gate.
Init ==
    /\ pages = <<>>
    /\ gate \in Levels
    /\ done = [u \in Users |-> {}]
    /\ xp = [u \in Users |-> 0]
    /\ pc = [r \in Requests |-> "idle"]
    /\ job = [r \in Requests |-> NoJob]
    /\ lowest = gate
    /\ credited = None /\ lost = None

AddStoryPage ==
    /\ Len(pages) < MaxPages
    /\ \E reward \in Rewards : pages' = Append(pages, reward)
    /\ UNCHANGED <<gate, done, xp, pc, job, history>>

UpdateStoryLevelRequired ==
    /\ gate' \in Levels \ {gate}
    /\ lowest' = IF gate' < lowest THEN gate' ELSE lowest
    /\ UNCHANGED <<pages, done, xp, pc, job, credited, lost>>

\* The other games, which only ever add XP.
EarnXP(u) ==
    /\ \E n \in Earned :
           /\ xp[u] + n <= MaxXP
           /\ xp' = [xp EXCEPT ![u] = @ + n]
    /\ UNCHANGED <<pages, gate, done, pc, job, history>>

-----------------------------------------------------------------------------
(* CompleteStoryPage *)

Goto(r, step) == pc' = [pc EXCEPT ![r] = step]

End(r) ==
    /\ Goto(r, "idle")
    /\ job' = [job EXCEPT ![r] = NoJob]

ReadPage(r, u, page) ==
    /\ pc[r] = "idle" /\ page <= Len(pages)
    /\ job' = [job EXCEPT ![r] = [user |-> u, page |-> page,
                                  reward |-> pages[page], required |-> gate]]
    /\ Goto(r, "level")
    /\ UNCHANGED <<tables, history>>

\* The level now, against the gate as it was.
CheckLevel(r) ==
    /\ pc[r] = "level"
    /\ IF LevelFromXP(xp[job[r].user]) >= job[r].required
       THEN Goto(r, "previous") /\ UNCHANGED job
       ELSE End(r)
    /\ UNCHANGED <<tables, history>>

CheckPrevious(r) ==
    /\ pc[r] = "previous"
    /\ IF PreviousDone(job[r].user, job[r].page)
       THEN Goto(r, "insert") /\ UNCHANGED job
       ELSE End(r)
    /\ UNCHANGED <<tables, history>>

\* ON CONFLICT DO NOTHING: only the first insert goes on to the award.
CompleteStoryPage(r) ==
    LET j == job[r]
    IN  /\ pc[r] = "insert"
        /\ done' = [done EXCEPT ![j.user] = @ \cup {j.page}]
        /\ IF Newly(j.user, j.page) /\ AwardsXP(j.reward)
           THEN Goto(r, "award") /\ UNCHANGED job
           ELSE End(r)
        /\ UNCHANGED <<pages, gate, xp, history>>

AddXP(r) ==
    LET j == job[r]
    IN  /\ pc[r] = "award"
        /\ xp' = [xp EXCEPT ![j.user] = @ + j.reward]
        /\ credited' = [credited EXCEPT ![j.user][j.page] = @ + 1]
        /\ End(r)
        /\ UNCHANGED <<pages, gate, done, lowest, lost>>

\* A handler fails anywhere, and what it owes is lost.
Die(r) ==
    LET j == job[r]
    IN  /\ pc[r] # "idle"
        /\ lost' = IF pc[r] = "award"
                   THEN [lost EXCEPT ![j.user][j.page] = @ + 1] ELSE lost
        /\ End(r)
        /\ UNCHANGED <<tables, lowest, credited>>

-----------------------------------------------------------------------------
Next ==
    \/ AddStoryPage \/ UpdateStoryLevelRequired
    \/ \E u \in Users : EarnXP(u)
    \/ \E r \in Requests :
           \/ \E u \in Users, page \in Pages : ReadPage(r, u, page)
           \/ CheckLevel(r) \/ CheckPrevious(r) \/ CompleteStoryPage(r)
           \/ AddXP(r) \/ Die(r)

Spec == Init /\ [][Next]_vars

-----------------------------------------------------------------------------
(* What a player is shown.  The flags of a page are computed from the list of *)
(* pages, not with the statements CompleteStoryPage decides by.               *)

StoryUnlocked(u) == LevelFromXP(xp[u]) >= gate

EarnedXP(u) == MapThenSumSet(LAMBDA page : pages[page], done[u])

ListStories(u) ==
    [unlocked |-> StoryUnlocked(u), completed |-> Cardinality(done[u]),
     earned |-> EarnedXP(u)]

\* The story with its flags; whoever is below the gate is not given the pages,
\* unless it is an administrator.
GetStory(u, admin) ==
    LET completed == [page \in 1 .. Len(pages) |-> page \in done[u]]
        unlocked(page) == StoryUnlocked(u) /\ (page = 1 \/ completed[page - 1])
    IN  [unlocked |-> StoryUnlocked(u),
         pages |-> IF StoryUnlocked(u) \/ admin
                   THEN [page \in 1 .. Len(pages) |->
                            [completed |-> completed[page], unlocked |-> unlocked(page)]]
                   ELSE <<>>]

-----------------------------------------------------------------------------
(* Properties *)

\* The tables, the handlers and the history hold values of their types, and no
\* handler is about to take XP away (AddXP adds what it is given).
TypeOK ==
    /\ pages \in Seq(Rewards) /\ Len(pages) <= MaxPages
    /\ gate \in Levels /\ lowest \in 1 .. gate
    /\ done \in [Users -> SUBSET (1 .. Len(pages))]
    /\ xp \in [Users -> Nat]
    /\ pc \in [Requests -> PCs]
    /\ job \in [Requests -> Job \cup {NoJob}]
    /\ \A r \in Requests :
           /\ pc[r] # "idle" => job[r] \in Job /\ job[r].page <= Len(pages)
           /\ pc[r] = "award" => job[r].reward > 0
    /\ credited \in [Users -> [Pages -> Nat]] /\ lost \in [Users -> [Pages -> Nat]]

\* "completing a page unlocks the next one (sequential)" (0008_stories.sql):
\* what a player has done of a story has no gap, although the page before was
\* checked by a statement of its own and other requests come between.
DoneInOrder ==
    \A u \in Users : \E n \in 0 .. Len(pages) : done[u] = 1 .. n

\* A page shown to a reader as done is shown as open, and so are those before it:
\* "these flags can never tell a client that a page is playable while the story
\* itself is not" (GetStory), nor that one is not which the player has finished.
ShownInOrder ==
    \A u \in Users, admin \in BOOLEAN :
        LET shown == GetStory(u, admin).pages
        IN  \A page \in DOMAIN shown :
                /\ shown[page].unlocked => GetStory(u, admin).unlocked
                /\ shown[page].completed /\ GetStory(u, admin).unlocked =>
                       \A before \in 1 .. page : shown[before].unlocked

PagesInOrder == DoneInOrder /\ ShownInOrder

\* What reaching a level takes, by the sum of the squares below it.
XPToReach(level) == xpBase * (((level - 1) * level * (2 * level - 1)) \div 6)

\* "this is what actually enforces it" (CompleteStoryPage): nobody has done a
\* page without the XP that the gate, at its lowest, asks for: the gate and the
\* level are read apart and may both have changed when the page is recorded.
\* And the XP that the list says a story has earned is in the player's balance,
\* but for the awards a handler still owes or a failure took.
NobodyReadsAhead ==
    \A u \in Users :
        LET unpaid == {page \in done[u] : pages[page] > 0 /\ credited[u][page] = 0}
        IN  /\ done[u] # {} => xp[u] >= XPToReach(lowest)
            /\ ListStories(u).earned <=
                   xp[u] + MapThenSumSet(LAMBDA page : pages[page], unpaid)

\* "awards its XP the first time" (handleCompleteStoryPage): a page done has
\* its award once, credited, lost or owed by one handler, unless it carries
\* none; a page not done has none.
AwardedOnce ==
    \A u \in Users, page \in Pages :
        LET owing == {r \in Requests : /\ pc[r] = "award"
                                       /\ job[r].user = u /\ job[r].page = page}
            worth == page \in done[u] /\ pages[page] > 0
        IN  credited[u][page] + lost[u][page] + Cardinality(owing)
                = IF worth THEN 1 ELSE 0
=============================================================================
