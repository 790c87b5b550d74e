-------------------------------- MODULE Dungeon --------------------------------
(***************************************************************************)
(* A dungeon: an administrator's map of a road from a start to a treasure  *)
(* with monsters on it, and the players walking it for unlock points.      *)
(*                                                                         *)
(* The handlers of move, defeat and complete read the map, or a monster,   *)
(* before they open their transaction, which then locks the player's       *)
(* progress row: between the two the map may be replaced, and the handler  *)
(* goes on with what it read.  UpdateDungeon deletes the progress rows it  *)
(* sees and commits later; a row that is inserted between the two stays.   *)
(* Its statement takes the rows one after the other, and waits for those   *)
(* that are locked: what a handler still writes to a row that will go is   *)
(* as good as written before the statement.                                *)
(***************************************************************************)
EXTENDS Integers, Sequences, FiniteSets, FiniteSetsExt

CONSTANTS
    Users, Requests,
    GridRows, GridCols,     \* models.DungeonGridRows, DungeonGridCols
    MinMonsters, MaxMonsters,
    Layouts,        \* maps an administrator may send, not all of them valid
    Legacy,         \* maps saved before dungeons had a treasure puzzle
    Energy,         \* unlock points every player begins with
    MaxVersion,     \* bound on the maps saved for the dungeon
    NoMap,          \* the dungeon is not there
    NoImage, NoCell, NoProgress, NoJob,
    NoSave          \* no replacement of the map is under way

Cells == (0 .. GridRows - 1) \X (0 .. GridCols - 1)

ASSUME ConstantsOK ==
    /\ GridRows \in Nat /\ GridCols \in Nat
    /\ MinMonsters \in Nat /\ MaxMonsters \in Nat
    /\ Energy \in Nat /\ MaxVersion \in Nat \ {0}
    /\ NoCell \notin Cells

VARIABLES
    version,    \* how often the dungeon was saved: 0 before it is created
    map,        \* dungeons and dungeon_monsters: its current content
    saving,     \* the users whose rows an UpdateDungeon has deleted, but not
                \* committed, and so keeps locked
    progress,   \* dungeon_progress, by user
    treasure,   \* dungeon_treasure_unlocks, by user
    points,     \* users.unlock_points
    pc, job,    \* each handler's next step and what it has read
    moves,      \* history: moves each user has made, by the version read
    credited,   \* history: XP awards of each user on each version ...
    lost        \* ... and those whose handler failed before crediting them

tables  == <<version, map, saving, progress, treasure, points>>
history == <<moves, credited, lost>>
vars    == <<tables, pc, job, history>>

RoadOf(l) == {l.path[i] : i \in 1 .. Len(l.path)}

\* Every save gives its monsters fresh ids.
MonsterId(v, cell) == [saved |-> v, cell |-> cell]
MonsterIds == [saved : 1 .. MaxVersion, cell : Cells]

\* A progress row; "maps" is history: the versions its writers had read.
Progress == [pos : Cells, prev : Cells \cup {NoCell},
             defeated : SUBSET MonsterIds, visited : SUBSET Cells,
             completed : BOOLEAN, maps : SUBSET (1 .. MaxVersion)]

NoCounts == [u \in Users |-> [v \in 1 .. MaxVersion |-> 0]]

PCs == {"idle", "move", "defeat", "complete", "award"}
Job == [user : Users, version : 1 .. MaxVersion, map : Layouts \cup Legacy,
        target : Cells]

-----------------------------------------------------------------------------
(* What the code decides ("a slip": a mistake it could make, PROJECT.json) *)

manhattan(a, b) ==
    LET abs(n) == IF n < 0 THEN -n ELSE n
    IN  abs(a[1] - b[1]) + abs(a[2] - b[2])

ValidateDungeonLayout(l) ==
    /\ {l.start, l.treasure} \cup RoadOf(l) \cup l.monsters \subseteq Cells
    /\ Len(l.path) >= 2
    /\ Cardinality(RoadOf(l)) = Len(l.path)
    /\ \A i \in 2 .. Len(l.path) : manhattan(l.path[i - 1], l.path[i]) = 1
    /\ l.start = l.path[1] /\ l.treasure = l.path[Len(l.path)]
    /\ Cardinality(l.monsters) \in MinMonsters .. MaxMonsters
    /\ l.monsters \subseteq RoadOf(l) \ {l.start, l.treasure}

\* Maps are lists of cells; those that are saved were valid when they were.
ASSUME MapsOK ==
    /\ \A l \in Layouts \cup Legacy : l.path \in Seq(Int \X Int)
    /\ \A l \in Legacy : ValidateDungeonLayout(l) /\ l.image = NoImage
    /\ NoMap \notin Layouts \cup Legacy /\ NoProgress \notin Progress

AnyCell(l, cell) == cell \in Cells                               \* a slip

OnPath(l, cell) == cell \in RoadOf(l)

CostOfNewCells(p, cell) == IF cell \in p.visited THEN 0 ELSE 1   \* a slip

Cost(p, cell) == 1

AffordsUnchecked(u, n) == u \in Users                            \* a slip

Affords(u, n) == points[u] >= n

MonstersRemain(p, l) == Cardinality(p.defeated) < Cardinality(l.monsters)

StillCompletes(p) == p # NoProgress                              \* a slip

MayComplete(p) == p # NoProgress /\ ~p.completed

LatestTreasure(old, image) == image                              \* a slip

\* INSERT ... ON CONFLICT DO NOTHING; a legacy map has no image to unlock.
Unlocked(old, image) == IF old = NoImage THEN image ELSE old

Locked(u) == saving # NoSave /\ u \in saving

-----------------------------------------------------------------------------
Init ==
    /\ \/ version = 0 /\ map = NoMap
       \/ version = 1 /\ map \in Legacy
    /\ saving = NoSave
    /\ progress = [u \in Users |-> NoProgress]
    /\ treasure = [u \in Users |-> NoImage]
    /\ points = [u \in Users |-> Energy]
    /\ pc = [r \in Requests |-> "idle"]
    /\ job = [r \in Requests |-> NoJob]
    /\ moves = NoCounts /\ credited = NoCounts /\ lost = NoCounts

Goto(r, step) == pc' = [pc EXCEPT ![r] = step]

End(r) ==
    /\ Goto(r, "idle")
    /\ job' = [job EXCEPT ![r] = NoJob]

-----------------------------------------------------------------------------
(* Administrators *)

CreateDungeon(l) ==
    /\ version = 0 /\ ValidateDungeonLayout(l)
    /\ version' = 1 /\ map' = l
    /\ UNCHANGED <<saving, progress, treasure, points, pc, job, history>>

\* The dungeon's own row is locked until the end, so that there is one save or
\* delete at a time; the last statement deletes the progress it sees.  The map
\* that replaces the old one matters when it appears, at the commit.
UpdateDungeon ==
    /\ map # NoMap /\ version < MaxVersion /\ saving = NoSave
    /\ saving' = {u \in Users : progress[u] # NoProgress}
    /\ UNCHANGED <<version, map, progress, treasure, points, pc, job, history>>

CommitUpdate(l) ==
    /\ saving # NoSave /\ ValidateDungeonLayout(l)
    /\ version' = version + 1 /\ map' = l
    /\ progress' = [u \in Users |-> IF u \in saving THEN NoProgress ELSE progress[u]]
    /\ saving' = NoSave
    /\ UNCHANGED <<treasure, points, pc, job, history>>

\* The request goes away, or a statement fails.
RollBackUpdate ==
    /\ saving # NoSave
    /\ saving' = NoSave
    /\ UNCHANGED <<version, map, progress, treasure, points, pc, job, history>>

\* One statement, progress and treasures go with it (ON DELETE CASCADE).
DeleteDungeon ==
    /\ map # NoMap /\ saving = NoSave
    /\ map' = NoMap
    /\ progress' = [u \in Users |-> NoProgress]
    /\ treasure' = [u \in Users |-> NoImage]
    /\ UNCHANGED <<version, saving, points, pc, job, history>>

-----------------------------------------------------------------------------
(* POST /dungeons/{id}/move, /monsters/{monsterId}/complete and /complete:  *)
(* what is read first                                                       *)

Read(r, step, u, cell) ==
    /\ pc[r] = "idle" /\ map # NoMap
    /\ Goto(r, step)
    /\ job' = [job EXCEPT ![r] = [user |-> u, version |-> version, map |-> map,
                                  target |-> cell]]
    /\ UNCHANGED <<tables, history>>

\* getDungeonRow, and the checks that need the map only.
ReadForMove(r, u) ==
    /\ map # NoMap /\ map.active
    /\ \E cell \in Cells : OnPath(map, cell) /\ Read(r, "move", u, cell)

\* The monster the client names is there, at the cell it has now.
ReadMonster(r, u) ==
    /\ map # NoMap
    /\ \E cell \in map.monsters : Read(r, "defeat", u, cell)

ReadForComplete(r, u) ==
    /\ map # NoMap
    /\ Read(r, "complete", u, map.treasure)

\* The process stops, the client goes away, a statement fails (two first moves
\* of a user collide on the primary key), or an AddXP error is ignored.
Die(r) ==
    /\ pc[r] # "idle"
    /\ lost' = IF pc[r] = "award"
               THEN [lost EXCEPT ![job[r].user][job[r].version] = @ + 1]
               ELSE lost
    /\ End(r)
    /\ UNCHANGED <<tables, moves, credited>>

\* The dungeon, the player's state or the balance refuses the request.
Refuse(r) ==
    /\ pc[r] \in {"move", "defeat", "complete"}
    /\ End(r)
    /\ UNCHANGED <<tables, history>>

-----------------------------------------------------------------------------
(* The transactions *)

\* The progress a move starts from: without a row, one at the start it read.
From(j) ==
    IF progress[j.user] # NoProgress THEN progress[j.user]
    ELSE [pos |-> j.map.start, prev |-> NoCell, defeated |-> {},
          visited |-> {j.map.start}, completed |-> FALSE, maps |-> {}]

MoveDungeon(r) ==
    /\ pc[r] = "move"
    /\ LET j == job[r]
           p == From(j)
           n == Cost(p, j.target)
       IN  /\ map # NoMap          \* else the foreign key fails the insert
           /\ ~Locked(j.user)
           /\ ~p.completed
           /\ manhattan(p.pos, j.target) = 1
           /\ Affords(j.user, n)
           /\ points' = [points EXCEPT ![j.user] = @ - n]
           /\ progress' = [progress EXCEPT ![j.user] =
                  [p EXCEPT !.prev = p.pos, !.pos = j.target,
                            !.visited = @ \cup {j.target},
                            !.maps = @ \cup {j.version}]]
           /\ moves' = [moves EXCEPT ![j.user][j.version] = @ + 1]
    /\ End(r)
    /\ UNCHANGED <<version, map, saving, treasure, credited, lost>>

\* One transaction that needs nothing of the map: back to the cell before, for
\* free, once.
RetreatDungeon(u) ==
    /\ progress[u] # NoProgress /\ ~Locked(u)
    /\ LET p == progress[u]
       IN  /\ p.prev # NoCell
           /\ progress' = [progress EXCEPT ![u] =
                               [p EXCEPT !.pos = p.prev, !.prev = NoCell]]
    /\ UNCHANGED <<version, map, saving, treasure, points, pc, job, history>>

CompleteDungeonMonster(r) ==
    /\ pc[r] = "defeat"
    /\ LET j == job[r]
           p == progress[j.user]
           id == MonsterId(j.version, j.target)
       IN  /\ p # NoProgress /\ ~Locked(j.user)
           /\ p.pos = j.target
           /\ id \notin p.defeated
           /\ progress' = [progress EXCEPT ![j.user] =
                  [p EXCEPT !.defeated = @ \cup {id},
                            !.maps = @ \cup {j.version}]]
    /\ End(r)
    /\ UNCHANGED <<version, map, saving, treasure, points, history>>

\* The monsters are counted in the transaction, those of a replacement after its
\* commit only; treasure, image and XP are those that were read.  The award notes
\* the version that was completed.
CompleteDungeon(r) ==
    /\ pc[r] = "complete"
    /\ LET j == job[r]
           p == progress[j.user]
       IN  /\ MayComplete(p) /\ ~Locked(j.user)
           /\ p.pos = j.map.treasure
           /\ ~MonstersRemain(p, map)
           /\ progress' = [progress EXCEPT ![j.user] =
                  [p EXCEPT !.completed = TRUE, !.maps = @ \cup {j.version}]]
           /\ treasure' = [treasure EXCEPT ![j.user] = Unlocked(@, j.map.image)]
           /\ job' = [job EXCEPT ![r].version = version]
    /\ Goto(r, "award")
    /\ UNCHANGED <<version, map, saving, points, history>>

\* A statement of its own after the commit; every map is saved with some XP.
AddXP(r) ==
    /\ pc[r] = "award"
    /\ credited' = [credited EXCEPT ![job[r].user][job[r].version] = @ + 1]
    /\ End(r)
    /\ UNCHANGED <<tables, moves, lost>>

-----------------------------------------------------------------------------
Next ==
    \/ \E l \in Layouts : CreateDungeon(l) \/ CommitUpdate(l)
    \/ UpdateDungeon \/ RollBackUpdate \/ DeleteDungeon
    \/ \E u \in Users : RetreatDungeon(u)
    \/ \E r \in Requests :
           \/ \E u \in Users :
                  ReadForMove(r, u) \/ ReadMonster(r, u) \/ ReadForComplete(r, u)
           \/ MoveDungeon(r) \/ CompleteDungeonMonster(r) \/ CompleteDungeon(r)
           \/ AddXP(r) \/ Refuse(r) \/ Die(r)

Spec == Init /\ [][Next]_vars

-----------------------------------------------------------------------------
(* What a player is shown: inactive dungeons are left out of the list only *)

ListDungeons(u) ==
    IF map = NoMap \/ ~map.active THEN {}
    ELSE {[monsterCount |-> Cardinality(map.monsters),
           started      |-> progress[u] # NoProgress,
           completed    |-> progress[u] # NoProgress /\ progress[u].completed]}

\* The progress that is saved, or one at the start, and the monsters it leaves.
GetDungeon(u) ==
    LET p == IF progress[u] # NoProgress THEN progress[u]
             ELSE [pos |-> map.start, defeated |-> {}, visited |-> {map.start},
                   completed |-> FALSE]
    IN  [pos |-> p.pos, visited |-> p.visited, completed |-> p.completed,
         energy |-> points[u],
         left |-> {cell \in map.monsters : MonsterId(version, cell) \notin p.defeated}]

ListUnlockedTreasures(u) == {treasure[u]} \ {NoImage}

-----------------------------------------------------------------------------
(* Properties *)

\* The tables, the handlers and the history hold values of their types; no
\* player's balance is negative.
TypeOK ==
    /\ version \in 0 .. MaxVersion
    /\ map \in Layouts \cup Legacy \cup {NoMap}
    /\ progress \in [Users -> Progress \cup {NoProgress}]
    /\ \A u \in Users : progress[u] # NoProgress => map # NoMap
    /\ saving = NoSave \/ saving \in SUBSET Users
    /\ saving # NoSave => map # NoMap /\ version < MaxVersion
    /\ treasure \in [Users -> {l.image : l \in Layouts} \cup {NoImage}]
    /\ points \in [Users -> Nat]
    /\ pc \in [Requests -> PCs]
    /\ job \in [Requests -> Job \cup {NoJob}]
    /\ \A c \in {moves, credited, lost} : c \in [Users -> [1 .. MaxVersion -> Nat]]

\* The progress row was written from the map there is now, and from no other.
Fresh(u) == progress[u] # NoProgress /\ progress[u].maps \subseteq {version}

Connected(V) ==
    \A S \in (SUBSET V) \ {{}, V} :
        \E a \in S, b \in V \ S : manhattan(a, b) = 1

\* A player has walked the road from its start, cell by cell, and defeated
\* only monsters met on the way: moves, retreats and defeats in any order, of
\* any number of requests at once, leave no gap.
OnTheRoad ==
    \A u \in Users : Fresh(u) =>
        LET p == progress[u]
        IN  /\ {map.start, p.pos} \subseteq p.visited
            /\ p.visited \subseteq RoadOf(map) /\ Connected(p.visited)
            /\ p.prev # NoCell =>
                   p.prev \in p.visited /\ manhattan(p.prev, p.pos) = 1
            /\ p.defeated \subseteq
                   {MonsterId(version, cell) : cell \in p.visited \cap map.monsters}

\* What a move costs: the points a player has lost are the moves made, and
\* each cell seen beyond the start was paid for, by a move of a handler that had
\* read one of the maps the row was written from: whatever is retried, retreated
\* from, started over on a new map or kept through its replacement.
WalkIsPaid ==
    \A u \in Users :
        /\ points[u] + MapThenSumSet(LAMBDA v : moves[u][v], 1 .. MaxVersion) = Energy
        /\ progress[u] # NoProgress =>
               Cardinality(progress[u].visited)
                   <= 1 + MapThenSumSet(LAMBDA v : moves[u][v], progress[u].maps)

AllDefeated(u) ==
    {MonsterId(version, cell) : cell \in map.monsters} \subseteq progress[u].defeated

\* What is shown of a dungeon is what the transactions go by: monsters are shown
\* as left exactly as long as the count says some remain, the player stands on
\* the road shown, and a dungeon listed as completed shows none left.
ShownAsWalked ==
    \A u \in Users : map # NoMap /\ (progress[u] = NoProgress \/ Fresh(u)) =>
        LET shown == GetDungeon(u)
        IN  /\ progress[u] # NoProgress =>
                   (shown.left # {} <=> MonstersRemain(progress[u], map))
            /\ shown.pos \in shown.visited /\ shown.visited \subseteq RoadOf(map)
            /\ \A row \in ListDungeons(u) :
                   /\ row.completed => shown.left = {}
                   /\ row.completed /\ map.image # NoImage =>
                          ListUnlockedTreasures(u) # {}

\* "at the treasure cell with every monster defeated" (repository/dungeon.go),
\* as far as nothing stale was written: whoever completed a dungeon got there
\* on the road, has defeated all of its monsters and holds its trophy.
NoMonsterSkipped ==
    /\ OnTheRoad /\ ShownAsWalked
    /\ \A u \in Users : Fresh(u) /\ progress[u].completed =>
           /\ map.treasure \in progress[u].visited
           /\ AllDefeated(u)
           /\ map.image # NoImage => treasure[u] # NoImage

\* The XP of a dungeon is awarded once for each map a player completes: by one
\* handler, credited or lost, however many requests complete at once and whether
\* or not a replacement drops the row.  Who was awarded the map there is has it
\* completed; and who has, in a row of this map alone, was awarded it.
AwardedOnce ==
    \A u \in Users, v \in 1 .. MaxVersion :
        LET awards == credited[u][v] + lost[u][v]
                + Cardinality({r \in Requests : /\ pc[r] = "award"
                                                /\ job[r].user = u
                                                /\ job[r].version = v})
            done   == progress[u] # NoProgress /\ progress[u].completed
        IN  /\ awards <= 1
            /\ v = version /\ map # NoMap /\ awards = 1 => done
            /\ v = version /\ Fresh(u) /\ done => awards = 1

\* A trophy stays the image it was first unlocked with, through new maps and
\* new completions, until the dungeon is deleted.
TreasureIsKept ==
    [][\A u \in Users :
         treasure[u] # NoImage =>
             treasure'[u] = treasure[u] \/ (map # NoMap /\ map' = NoMap)]_vars

\* "requiring them to be at the treasure cell with every monster defeated"
\* (CompleteDungeon, repository/dungeon.go): of every step that completes.
EveryMonsterDefeated ==
    [][\A u \in Users :
         /\ progress'[u] # NoProgress /\ progress'[u].completed
         /\ progress[u] # NoProgress => ~progress[u].completed
         => AllDefeated(u)']_vars
=============================================================================
