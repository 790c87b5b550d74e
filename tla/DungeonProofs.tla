------------------------------ MODULE DungeonProofs ------------------------------
(***************************************************************************)
(* What holds of a dungeon for any grid and any maps of it, any players,   *)
(* handlers and versions.                                                  *)
(***************************************************************************)
EXTENDS Dungeon, Counting

\* A map that was saved, and so was valid.
Saved(l) == l \in Layouts \cup Legacy /\ ValidateDungeonLayout(l)

LEMMA SavedMap ==
    ASSUME NEW l, Saved(l)
    PROVE  /\ l.start \in Cells /\ l.treasure \in Cells
           /\ RoadOf(l) \subseteq Cells /\ l.monsters \subseteq RoadOf(l)
           /\ l.start \in RoadOf(l)
<1>1. l.path \in Seq(Int \X Int) /\ Len(l.path) >= 2 /\ l.start = l.path[1]
  BY MapsOK DEF Saved, ValidateDungeonLayout
<1>2. 1 \in 1 .. Len(l.path)
  BY <1>1
<1>3. l.start \in RoadOf(l)
  BY <1>1, <1>2 DEF RoadOf
<1> QED
  BY <1>3 DEF Saved, ValidateDungeonLayout

Working(r) == pc[r] # "idle"

\* Types, with what makes them inductive: the map there is, and the one a
\* handler has read, were saved.
Typed ==
    /\ TypeOK
    /\ map # NoMap => Saved(map) /\ version >= 1
    /\ \A r \in Requests : Working(r) => job[r] \in Job /\ Saved(job[r].map)

LEMMA JobOf ==
    ASSUME NEW j \in Job
    PROVE  /\ j.user \in Users /\ j.version \in 1 .. MaxVersion
           /\ j.target \in Cells /\ j.map \in Layouts \cup Legacy
  BY DEF Job

LEMMA EndKeeps ==
    ASSUME Typed, NEW r \in Requests, End(r)
    PROVE  /\ pc' \in [Requests -> PCs] /\ job' \in [Requests -> Job \cup {NoJob}]
           /\ pc'[r] = "idle"
           /\ \A q \in Requests : q # r => pc'[q] = pc[q] /\ job'[q] = job[q]
  BY DEF Typed, TypeOK, End, Goto, PCs

LEMMA CountUp ==
    ASSUME NEW D, NEW c \in [Users -> [D -> Nat]], NEW u \in Users, NEW v \in D
    PROVE  /\ [c EXCEPT ![u][v] = @ + 1] \in [Users -> [D -> Nat]]
           /\ \A w \in Users, m \in D :
                  [c EXCEPT ![u][v] = @ + 1][w][m] =
                      IF w = u /\ m = v THEN c[w][m] + 1 ELSE c[w][m]
<1>1. c[u][v] + 1 \in Nat
  OBVIOUS
<1> QED
  BY <1>1

LEMMA InitTyped == ASSUME Init PROVE Typed
<1>1. version \in 0 .. MaxVersion /\ (map # NoMap => map \in Legacy /\ version = 1)
  BY ConstantsOK DEF Init
<1>2. NoCounts \in [Users -> [1 .. MaxVersion -> Nat]]
  BY DEF NoCounts
<1> QED
  BY <1>1, <1>2, MapsOK, ConstantsOK DEF Init, Typed, TypeOK, Saved, Working, PCs

\* The map there is changes, or goes.
NewMap == (\E l \in Layouts : CreateDungeon(l) \/ CommitUpdate(l)) \/ DeleteDungeon

\* A replacement begins, or is given up.
Saving == UpdateDungeon \/ RollBackUpdate

LEMMA SavesTyped ==
    ASSUME Typed, NewMap \/ Saving
    PROVE  Typed'
<1>1. CASE \E l \in Layouts : CreateDungeon(l)
  BY <1>1, MapsOK, ConstantsOK DEF CreateDungeon, Typed, TypeOK, Saved, Working, history
<1>2. ASSUME NEW l \in Layouts, CommitUpdate(l)
      PROVE  Typed'
  <2>1. version' = version + 1 /\ version' \in 1 .. MaxVersion
    BY <1>2, ConstantsOK DEF CommitUpdate, Typed, TypeOK
  <2> QED
    BY <1>2, <2>1, MapsOK DEF CommitUpdate, Typed, TypeOK, Saved, Working, history
<1>3. CASE DeleteDungeon
  BY <1>3 DEF DeleteDungeon, Typed, TypeOK, Saved, Working, history
<1>4. CASE Saving
  BY <1>4 DEF Saving, UpdateDungeon, RollBackUpdate, Typed, TypeOK, Saved, Working, history
<1> QED
  BY <1>1, <1>2, <1>3, <1>4 DEF NewMap

LEMMA ReadTyped ==
    ASSUME Typed, NEW r \in Requests, NEW u \in Users, NEW step \in PCs,
           NEW cell \in Cells, Read(r, step, u, cell)
    PROVE  Typed'
<1>1. /\ map \in Layouts \cup Legacy /\ Saved(map) /\ version \in 1 .. MaxVersion
  BY ConstantsOK DEF Read, Typed, TypeOK, Saved
<1> DEFINE new == [user |-> u, version |-> version, map |-> map, target |-> cell]
<1>2. new \in Job /\ new.map = map
  BY <1>1 DEF Job
<1> HIDE DEF new
<1>3. /\ job' = [job EXCEPT ![r] = new] /\ pc' = [pc EXCEPT ![r] = step]
      /\ UNCHANGED <<tables, history>>
  BY DEF Read, Goto, new
<1>4. /\ pc' \in [Requests -> PCs] /\ job' \in [Requests -> Job \cup {NoJob}]
      /\ job'[r] = new
      /\ \A q \in Requests : q # r => pc'[q] = pc[q] /\ job'[q] = job[q]
  BY <1>2, <1>3 DEF Typed, TypeOK
<1>5. TypeOK'
  BY <1>3, <1>4 DEF Typed, TypeOK, tables, history
<1>6. ASSUME NEW q \in Requests, pc'[q] # "idle"
      PROVE  job'[q] \in Job /\ Saved(job'[q].map)
  BY <1>1, <1>2, <1>4, <1>6 DEF Typed, Working
<1> QED
  BY <1>3, <1>5, <1>6 DEF Typed, Saved, Working, tables

LEMMA ReadsTyped ==
    ASSUME Typed, NEW r \in Requests, NEW u \in Users,
           ReadForMove(r, u) \/ ReadMonster(r, u) \/ ReadForComplete(r, u)
    PROVE  Typed'
<1>1. map # NoMap /\ Saved(map)
  BY DEF Typed, ReadForMove, ReadMonster, ReadForComplete
<1>2. CASE ReadForMove(r, u)
  BY <1>2, ReadTyped DEF ReadForMove, PCs
<1>3. CASE ReadMonster(r, u)
  BY <1>1, <1>3, ReadTyped, SavedMap DEF ReadMonster, PCs
<1>4. CASE ReadForComplete(r, u)
  BY <1>1, <1>4, ReadTyped, SavedMap DEF ReadForComplete, PCs
<1> QED
  BY <1>2, <1>3, <1>4

\* What the four transactions make of a progress row.
Walked(p, j) == [p EXCEPT !.prev = p.pos, !.pos = j.target,
                          !.visited = @ \cup {j.target}, !.maps = @ \cup {j.version}]
Fought(p, j) == [p EXCEPT !.defeated = @ \cup {MonsterId(j.version, j.target)},
                          !.maps = @ \cup {j.version}]
Ended(p, j)  == [p EXCEPT !.completed = TRUE, !.maps = @ \cup {j.version}]
Back(p)      == [p EXCEPT !.pos = p.prev, !.prev = NoCell]

LEMMA WalkedRow ==
    ASSUME NEW p \in Progress, NEW j \in Job
    PROVE  LET new == Walked(p, j)
           IN  /\ new \in Progress
               /\ new.prev = p.pos /\ new.pos = j.target
               /\ new.visited = p.visited \cup {j.target}
               /\ new.defeated = p.defeated /\ new.completed = p.completed
               /\ new.maps = p.maps \cup {j.version}
  BY JobOf DEF Walked, Progress

LEMMA FoughtRow ==
    ASSUME NEW p \in Progress, NEW j \in Job
    PROVE  LET new == Fought(p, j)
           IN  /\ new \in Progress
               /\ new.prev = p.prev /\ new.pos = p.pos /\ new.visited = p.visited
               /\ new.defeated = p.defeated \cup {MonsterId(j.version, j.target)}
               /\ new.completed = p.completed
               /\ new.maps = p.maps \cup {j.version}
<1>1. MonsterId(j.version, j.target) \in MonsterIds /\ j.version \in 1 .. MaxVersion
  BY JobOf DEF MonsterId, MonsterIds
<1> QED
  BY <1>1 DEF Fought, Progress

LEMMA EndedRow ==
    ASSUME NEW p \in Progress, NEW j \in Job
    PROVE  LET new == Ended(p, j)
           IN  /\ new \in Progress
               /\ new.prev = p.prev /\ new.pos = p.pos /\ new.visited = p.visited
               /\ new.defeated = p.defeated /\ new.completed
               /\ new.maps = p.maps \cup {j.version}
  BY JobOf DEF Ended, Progress

LEMMA BackRow ==
    ASSUME NEW p \in Progress, p.prev # NoCell
    PROVE  LET new == Back(p)
           IN  /\ new \in Progress
               /\ new.prev = NoCell /\ new.pos = p.prev /\ new.visited = p.visited
               /\ new.defeated = p.defeated /\ new.completed = p.completed
               /\ new.maps = p.maps
  BY DEF Back, Progress

\* Player u's row becomes new, and nobody else's changes.
Writes(u, new) ==
    /\ progress'[u] = new
    /\ \A w \in Users : w # u => progress'[w] = progress[w]

\* Where a move starts from.
LEMMA FromTyped ==
    ASSUME Typed, NEW r \in Requests, Working(r)
    PROVE  From(job[r]) \in Progress
<1>1. job[r].user \in Users /\ job[r].map.start \in Cells
  BY JobOf, SavedMap DEF Typed
<1>2. progress[job[r].user] \in Progress \cup {NoProgress}
  BY <1>1 DEF Typed, TypeOK
<1> QED
  BY <1>1, <1>2 DEF From, Progress

\* The rest of a handler's steps, which change the tables of one player.
LEMMA RowsTyped ==
    ASSUME Typed, NEW r \in Requests, MoveDungeon(r) \/ CompleteDungeonMonster(r)
    PROVE  Typed'
<1> DEFINE j == job[r]
<1>1. /\ Working(r) /\ j \in Job /\ End(r) /\ UNCHANGED <<version, map, saving, treasure, credited, lost>>
  BY DEF Typed, Working, MoveDungeon, CompleteDungeonMonster, history
<1>2. j.user \in Users /\ j.version \in 1 .. MaxVersion /\ j.target \in Cells
  BY <1>1, JobOf
<1>3. \A p \in Progress : Walked(p, j) \in Progress /\ Fought(p, j) \in Progress
  BY <1>1, WalkedRow, FoughtRow
<1>4. /\ progress' \in [Users -> Progress \cup {NoProgress}]
      /\ \A u \in Users : progress'[u] # NoProgress => map # NoMap
  <2>1. CASE MoveDungeon(r)
    <3>1. From(j) \in Progress
      BY <1>1, FromTyped
    <3>2. PICK p \in Progress : progress' = [progress EXCEPT ![j.user] = p]
      BY <1>3, <2>1, <3>1 DEF MoveDungeon, Walked
    <3>3. map # NoMap
      BY <2>1 DEF MoveDungeon
    <3> QED
      BY <3>2, <3>3 DEF Typed, TypeOK
  <2>2. CASE CompleteDungeonMonster(r)
    <3>1. progress[j.user] \in Progress
      BY <1>2, <2>2 DEF CompleteDungeonMonster, Typed, TypeOK
    <3>2. PICK p \in Progress : progress' = [progress EXCEPT ![j.user] = p]
      BY <1>3, <2>2, <3>1 DEF CompleteDungeonMonster, Fought
    <3>3. map # NoMap
      BY <1>2, <2>2 DEF CompleteDungeonMonster, Typed, TypeOK
    <3> QED
      BY <3>2, <3>3 DEF Typed, TypeOK
  <2> QED
    BY <2>1, <2>2
<1>5. points' \in [Users -> Nat] /\ moves' \in [Users -> [1 .. MaxVersion -> Nat]]
  <2>1. CASE MoveDungeon(r)
    <3>1. points[j.user] >= 1 /\ points' = [points EXCEPT ![j.user] = @ - 1]
      BY <2>1 DEF MoveDungeon, Cost, Affords
    <3>2. points' \in [Users -> Nat]
      BY <1>2, <3>1 DEF Typed, TypeOK
    <3>3. moves' \in [Users -> [1 .. MaxVersion -> Nat]]
      <4>1. PICK w \in Users, m \in 1 .. MaxVersion : w = j.user /\ m = j.version
        BY <1>2
      <4>2. moves' = [moves EXCEPT ![w][m] = @ + 1]
        BY <2>1, <4>1 DEF MoveDungeon
      <4>3. moves \in [Users -> [1 .. MaxVersion -> Nat]]
        BY DEF Typed, TypeOK
      <4> DEFINE D == 1 .. MaxVersion
      <4> HIDE DEF D, j
      <4>4. [moves EXCEPT ![w][m] = @ + 1] \in [Users -> [D -> Nat]]
        BY <4>3, CountUp DEF D
      <4> QED
        BY <4>2, <4>4 DEF D
    <3> QED
      BY <3>2, <3>3
  <2>2. CASE CompleteDungeonMonster(r)
    BY <2>2 DEF CompleteDungeonMonster, Typed, TypeOK, history
  <2> QED
    BY <2>1, <2>2
<1> HIDE DEF j
<1>6. TypeOK'
  BY <1>1, <1>4, <1>5, EndKeeps DEF Typed, TypeOK
<1> QED
  BY <1>1, <1>6, EndKeeps DEF Typed, Working, Saved

LEMMA RetreatTyped ==
    ASSUME Typed, NEW u \in Users, RetreatDungeon(u)
    PROVE  Typed'
<1>1. progress[u] \in Progress /\ progress[u].prev # NoCell
  BY DEF RetreatDungeon, Typed, TypeOK
<1>2. Back(progress[u]) \in Progress
  BY <1>1, BackRow
<1>3. PICK p \in Progress : progress' = [progress EXCEPT ![u] = p]
  BY <1>2 DEF RetreatDungeon, Back
<1> QED
  BY <1>1, <1>3, MapsOK DEF RetreatDungeon, Typed, TypeOK, Working, Saved, history

LEMMA CompleteTyped ==
    ASSUME Typed, NEW r \in Requests, CompleteDungeon(r)
    PROVE  Typed'
<1> DEFINE j == job[r]
           p == progress[j.user]
<1>1. /\ j \in Job /\ Saved(j.map)
  BY DEF Typed, Working, CompleteDungeon
<1>2. j.user \in Users /\ j.version \in 1 .. MaxVersion
  BY <1>1, JobOf
<1>3. p \in Progress /\ map # NoMap /\ version \in 1 .. MaxVersion
  BY <1>2, ConstantsOK DEF CompleteDungeon, MayComplete, Typed, TypeOK
<1>4. Ended(p, j) \in Progress
  BY <1>1, <1>3, EndedRow
<1>5. progress' \in [Users -> Progress \cup {NoProgress}]
  BY <1>2, <1>4 DEF CompleteDungeon, Typed, TypeOK, Ended
<1>6. treasure' \in [Users -> {l.image : l \in Layouts} \cup {NoImage}]
  <2>1. j.map.image \in {l.image : l \in Layouts} \cup {NoImage}
    BY <1>1, MapsOK DEF Saved
  <2>2. treasure' = [treasure EXCEPT ![j.user] = Unlocked(@, j.map.image)]
    BY DEF CompleteDungeon
  <2> HIDE DEF j
  <2> QED
    BY <2>1, <2>2 DEF Unlocked, Typed, TypeOK
<1>7. [j EXCEPT !.version = version] \in Job /\ [j EXCEPT !.version = version].map = j.map
  BY <1>1, <1>3 DEF Job
<1>8. /\ job' = [job EXCEPT ![r] = [j EXCEPT !.version = version]]
      /\ pc' = [pc EXCEPT ![r] = "award"]
      /\ UNCHANGED <<version, map, saving, points, moves, credited, lost>>
  BY DEF CompleteDungeon, Goto, history, Typed, TypeOK
<1> HIDE DEF j, p
<1>9. TypeOK'
  BY <1>3, <1>5, <1>6, <1>7, <1>8 DEF Typed, TypeOK, PCs
<1>10. \A q \in Requests : Working(q)' => job'[q] \in Job /\ Saved(job'[q].map)
  <2>1. job'[r] \in Job /\ job'[r].map = j.map
    BY <1>7, <1>8 DEF Typed, TypeOK
  <2>2. \A q \in Requests : q # r => job'[q] = job[q] /\ pc'[q] = pc[q]
    BY <1>8 DEF Typed, TypeOK
  <2> QED
    BY <1>1, <2>1, <2>2 DEF Typed, Working
<1> QED
  BY <1>8, <1>9, <1>10 DEF Typed, Saved, Working

LEMMA EndsTyped ==
    ASSUME Typed, NEW r \in Requests, AddXP(r) \/ Refuse(r) \/ Die(r)
    PROVE  Typed'
<1>1. Working(r) /\ End(r) /\ UNCHANGED tables /\ moves' = moves
  BY DEF AddXP, Refuse, Die, Working, history
<1>2. job[r].user \in Users /\ job[r].version \in 1 .. MaxVersion
  BY <1>1, JobOf DEF Typed
<1>3. /\ [credited EXCEPT ![job[r].user][job[r].version] = @ + 1]
             \in [Users -> [1 .. MaxVersion -> Nat]]
      /\ [lost EXCEPT ![job[r].user][job[r].version] = @ + 1]
             \in [Users -> [1 .. MaxVersion -> Nat]]
  BY <1>2, CountUp DEF Typed, TypeOK
<1>4. /\ credited' \in [Users -> [1 .. MaxVersion -> Nat]]
      /\ lost' \in [Users -> [1 .. MaxVersion -> Nat]]
  BY <1>3 DEF AddXP, Refuse, Die, Typed, TypeOK, history
<1>5. TypeOK'
  BY <1>1, <1>4, EndKeeps DEF Typed, TypeOK, tables
<1> QED
  BY <1>1, <1>5, EndKeeps DEF Typed, tables, Saved, Working

LEMMA TypeStep == ASSUME Typed, [Next]_vars PROVE Typed'
<1>1. CASE UNCHANGED vars
  BY <1>1 DEF vars, tables, history, Typed, TypeOK, Working, Saved
<1> QED
  BY <1>1, SavesTyped, RetreatTyped, ReadsTyped, RowsTyped, CompleteTyped, EndsTyped
     DEF Next, NewMap, Saving

\* Every reachable state is well typed; above all, no balance is negative.
THEOREM TypeCorrect == Spec => []TypeOK
<1>1. Init => Typed
  BY InitTyped
<1>2. Typed /\ [Next]_vars => Typed'
  BY TypeStep
<1>3. Typed => TypeOK
  BY DEF Typed
<1> QED
  BY <1>1, <1>2, <1>3, PTL DEF Spec

-----------------------------------------------------------------------------
(* What each transaction found, and wrote *)

LEMMA MoveWrites ==
    ASSUME Typed, NEW r \in Requests, MoveDungeon(r)
    PROVE  LET j == job[r]
               p == From(j)
           IN  /\ pc[r] = "move" /\ j \in Job /\ Saved(j.map) /\ j.user \in Users
               /\ p \in Progress /\ ~p.completed /\ manhattan(p.pos, j.target) = 1
               /\ map # NoMap
               /\ Writes(j.user, Walked(p, j))
<1>1. Working(r) /\ job[r] \in Job /\ Saved(job[r].map) /\ job[r].user \in Users
  BY JobOf DEF Typed, Working, MoveDungeon
<1>2. From(job[r]) \in Progress
  BY <1>1, FromTyped
<1>3. progress' = [progress EXCEPT ![job[r].user] = Walked(From(job[r]), job[r])]
  BY DEF MoveDungeon, Walked
<1> QED
  BY <1>1, <1>2, <1>3 DEF MoveDungeon, Typed, TypeOK, Writes

LEMMA FightWrites ==
    ASSUME Typed, NEW r \in Requests, CompleteDungeonMonster(r)
    PROVE  LET j == job[r]
               p == progress[j.user]
           IN  /\ pc[r] = "defeat" /\ j \in Job /\ Saved(j.map) /\ j.user \in Users
               /\ p \in Progress /\ p.pos = j.target
               /\ Writes(j.user, Fought(p, j))
<1>1. job[r] \in Job /\ Saved(job[r].map) /\ job[r].user \in Users
  BY JobOf DEF Typed, Working, CompleteDungeonMonster
<1>2. progress[job[r].user] \in Progress
  BY <1>1 DEF CompleteDungeonMonster, Typed, TypeOK
<1>3. progress' = [progress EXCEPT ![job[r].user] = Fought(progress[job[r].user], job[r])]
  BY DEF CompleteDungeonMonster, Fought
<1> QED
  BY <1>1, <1>2, <1>3 DEF CompleteDungeonMonster, Typed, TypeOK, Writes

LEMMA CompleteWrites ==
    ASSUME Typed, NEW r \in Requests, CompleteDungeon(r)
    PROVE  LET j == job[r]
               p == progress[j.user]
           IN  /\ pc[r] = "complete" /\ j \in Job /\ Saved(j.map) /\ j.user \in Users
               /\ p \in Progress /\ ~p.completed /\ p.pos = j.map.treasure
               /\ ~MonstersRemain(p, map) /\ map # NoMap
               /\ Writes(j.user, Ended(p, j))
<1>1. job[r] \in Job /\ Saved(job[r].map) /\ job[r].user \in Users
  BY JobOf DEF Typed, Working, CompleteDungeon
<1>2. progress[job[r].user] \in Progress /\ map # NoMap
  BY <1>1 DEF CompleteDungeon, MayComplete, Typed, TypeOK
<1>3. progress' = [progress EXCEPT ![job[r].user] = Ended(progress[job[r].user], job[r])]
  BY DEF CompleteDungeon, Ended
<1> QED
  BY <1>1, <1>2, <1>3 DEF CompleteDungeon, MayComplete, Typed, TypeOK, Writes

LEMMA RetreatWrites ==
    ASSUME Typed, NEW u \in Users, RetreatDungeon(u)
    PROVE  /\ progress[u] \in Progress /\ progress[u].prev # NoCell
           /\ Writes(u, Back(progress[u]))
<1>1. progress' = [progress EXCEPT ![u] = Back(progress[u])]
  BY DEF RetreatDungeon, Back
<1> QED
  BY <1>1 DEF RetreatDungeon, Typed, TypeOK, Writes

\* A trophy stays: a handler writes a player's first one only, and a delete
\* takes the dungeon away with it.
THEOREM TrophiesAreKept == Spec => TreasureIsKept
<1> DEFINE Kept(u) == treasure[u] # NoImage =>
                          treasure'[u] = treasure[u] \/ (map # NoMap /\ map' = NoMap)
<1>1. ASSUME Typed, [Next]_vars, NEW u \in Users
      PROVE  Kept(u)
  <2>1. CASE DeleteDungeon
    BY <2>1 DEF DeleteDungeon
  <2>2. CASE \E r \in Requests : CompleteDungeon(r)
    <3>1. PICK r \in Requests : CompleteDungeon(r)
      BY <2>2
    <3>2. PICK image : treasure' = [treasure EXCEPT ![job[r].user] = Unlocked(@, image)]
      BY <3>1 DEF CompleteDungeon
    <3> QED
      BY <3>2 DEF Unlocked
  <2>3. CASE UNCHANGED treasure
    BY <2>3
  <2> QED
    BY <1>1, <2>1, <2>2, <2>3
       DEF Next, CreateDungeon, UpdateDungeon, CommitUpdate, RollBackUpdate,
           RetreatDungeon, ReadForMove, ReadMonster, ReadForComplete, Read, MoveDungeon, CompleteDungeonMonster, AddXP, Refuse,
           Die, vars, tables
<1>2. Init => Typed
  BY InitTyped
<1>3. Typed /\ [Next]_vars => Typed'
  BY TypeStep
<1>4. Typed /\ [Next]_vars => [\A u \in Users : Kept(u)]_vars
  BY <1>1
<1> QED
  BY <1>2, <1>3, <1>4, PTL DEF Spec, TreasureIsKept

-----------------------------------------------------------------------------
(* Rows and handlers are of the maps there have been so far *)

RowDated(u) ==
    progress[u] # NoProgress =>
        progress[u].maps # {} /\ \A v \in progress[u].maps : v <= version

Dated ==
    /\ \A u \in Users : RowDated(u)
    /\ \A r \in Requests : Working(r) => job[r].version <= version

\* A handler writes the row of its user.
LEMMA WriteDated ==
    ASSUME Typed, Dated, NEW r \in Requests, Working(r), NEW w \in Users, NEW p, NEW new,
           Writes(w, new), version' = version,
           p = progress[w] \/ p.maps = {}, p = progress[w] => p # NoProgress,
           new.maps = p.maps \cup {job[r].version}
    PROVE  \A u \in Users : RowDated(u)'
<1>1. job[r].version <= version
  BY DEF Dated
<1>2. RowDated(w)'
  BY <1>1 DEF Dated, RowDated, Writes
<1> QED
  BY <1>2 DEF Dated, RowDated, Writes

LEMMA RowsDated ==
    ASSUME Typed, Dated, [Next]_vars
    PROVE  \A u \in Users : RowDated(u)'
<1>1. ASSUME NEW r \in Requests, MoveDungeon(r)
      PROVE  \A u \in Users : RowDated(u)'
  <2>w. PICK w \in Users : w = job[r].user
    BY <1>1, MoveWrites
  <2>1. /\ Writes(w, Walked(From(job[r]), job[r])) /\ Working(r) /\ version' = version
        /\ Walked(From(job[r]), job[r]).maps = From(job[r]).maps \cup {job[r].version}
        /\ From(job[r]) \in Progress
    BY <1>1, <2>w, MoveWrites, WalkedRow DEF MoveDungeon, Working
  <2>2. /\ From(job[r]) = progress[w] \/ From(job[r]).maps = {}
        /\ From(job[r]) # NoProgress
    BY <2>w, <2>1, MapsOK DEF From
  <2> QED
    BY <2>1, <2>2, WriteDated
<1>2. ASSUME NEW r \in Requests, CompleteDungeonMonster(r)
      PROVE  \A u \in Users : RowDated(u)'
  <2>w. PICK w \in Users : w = job[r].user
    BY <1>2, FightWrites
  <2>1. /\ Writes(w, Fought(progress[w], job[r])) /\ Working(r) /\ version' = version
        /\ Fought(progress[w], job[r]).maps = progress[w].maps \cup {job[r].version}
        /\ progress[w] # NoProgress
    BY <1>2, <2>w, FightWrites, FoughtRow, MapsOK, ZenonT(30) DEF CompleteDungeonMonster, Working
  <2> QED
    BY <2>1, WriteDated
<1>3. ASSUME NEW r \in Requests, CompleteDungeon(r)
      PROVE  \A u \in Users : RowDated(u)'
  <2>w. PICK w \in Users : w = job[r].user
    BY <1>3, CompleteWrites
  <2>1. /\ Writes(w, Ended(progress[w], job[r])) /\ Working(r) /\ version' = version
        /\ Ended(progress[w], job[r]).maps = progress[w].maps \cup {job[r].version}
        /\ progress[w] # NoProgress
    BY <1>3, <2>w, CompleteWrites, EndedRow, MapsOK, ZenonT(30) DEF CompleteDungeon, Working
  <2> QED
    BY <2>1, WriteDated
<1>4. ASSUME NEW w \in Users, RetreatDungeon(w)
      PROVE  \A u \in Users : RowDated(u)'
  <2>1. /\ Writes(w, Back(progress[w])) /\ version' = version
        /\ Back(progress[w]).maps = progress[w].maps /\ progress[w] # NoProgress
    BY <1>4, RetreatWrites, BackRow, MapsOK DEF RetreatDungeon
  <2> QED
    BY <2>1 DEF Dated, RowDated, Writes
<1>5. CASE UNCHANGED <<version, progress>>
  BY <1>5 DEF Dated, RowDated
<1>6. ASSUME NEW l \in Layouts, CommitUpdate(l), NEW u \in Users
      PROVE  RowDated(u)'
  <2>1. /\ version' = version + 1 /\ version \in Int
        /\ progress'[u] = NoProgress \/ progress'[u] = progress[u]
    BY <1>6 DEF CommitUpdate, Typed, TypeOK
  <2>2. ASSUME progress[u] \in Progress, NEW v \in progress[u].maps, v <= version
        PROVE  v <= version'
    <3>1. v \in Int
      BY <2>2 DEF Progress
    <3> QED
      BY <2>1, <2>2, <3>1
  <2>3. progress[u] \in Progress \/ progress[u] = NoProgress
    BY DEF Typed, TypeOK
  <2> QED
    BY <2>1, <2>2, <2>3 DEF Dated, RowDated
<1>7. CASE DeleteDungeon
  BY <1>7 DEF DeleteDungeon, RowDated
<1>8. ASSUME NEW l \in Layouts, CreateDungeon(l), NEW u \in Users
      PROVE  RowDated(u)'
  <2>1. progress'[u] = NoProgress
    BY <1>8 DEF CreateDungeon, Typed, TypeOK
  <2> QED
    BY <2>1 DEF RowDated
<1>9. CASE UNCHANGED tables \/ UpdateDungeon \/ RollBackUpdate
  BY <1>5, <1>9 DEF tables, UpdateDungeon, RollBackUpdate
<1> QED
  BY <1>1, <1>2, <1>3, <1>4, <1>6, <1>7, <1>8, <1>9
     DEF Next, vars, ReadForMove, ReadMonster, ReadForComplete, Read, AddXP, Refuse, Die

LEMMA ReadersDated ==
    ASSUME Typed, Dated, [Next]_vars, NEW q \in Requests, Working(q)'
    PROVE  job'[q].version <= version'
<1>1. version \in Int /\ (Working(q) => job[q].version <= version /\ job[q].version \in Int)
  BY JobOf DEF Typed, TypeOK, Dated
<1>2. CASE /\ version' = version \/ version' = version + 1
           /\ pc'[q] = pc[q] /\ job'[q] = job[q]
  BY <1>1, <1>2 DEF Working
<1>3. ASSUME NEW r \in Requests, NEW step, NEW u, NEW cell, Read(r, step, u, cell)
      PROVE  job'[q].version <= version'
  <2>1. version' = version
    BY <1>3 DEF Read, tables
  <2>2. CASE q = r
    <3>1. job'[q].version = version
      BY <1>3, <2>2 DEF Read, Typed, TypeOK
    <3> QED
      BY <1>1, <2>1, <3>1
  <2>3. CASE q # r
    BY <1>2, <1>3, <2>1, <2>3 DEF Read, Goto, Typed, TypeOK
  <2> QED
    BY <2>2, <2>3
<1>4. ASSUME NEW r \in Requests, CompleteDungeon(r)
      PROVE  job'[q].version <= version'
  <2>1. version' = version
    BY <1>4 DEF CompleteDungeon
  <2>2. CASE q = r
    <3>1. job[r] \in Job /\ job'[r] = [job[r] EXCEPT !.version = version]
      BY <1>4, CompleteWrites DEF CompleteDungeon, Typed, TypeOK
    <3>2. job'[q].version = version
      BY <2>2, <3>1 DEF Job
    <3> QED
      BY <1>1, <2>1, <3>2
  <2>3. CASE q # r
    BY <1>2, <1>4, <2>1, <2>3 DEF CompleteDungeon, Goto, Typed, TypeOK
  <2> QED
    BY <2>2, <2>3
<1>5. ASSUME NEW r \in Requests, End(r), version' = version
      PROVE  job'[q].version <= version'
  <2>1. q # r /\ pc'[q] = pc[q] /\ job'[q] = job[q]
    BY <1>5, EndKeeps DEF Working
  <2> QED
    BY <1>2, <1>5, <2>1
<1>6. ASSUME NEW r \in Requests,
             \/ MoveDungeon(r) \/ CompleteDungeonMonster(r)
             \/ AddXP(r) \/ Refuse(r) \/ Die(r)
      PROVE  job'[q].version <= version'
  BY <1>5, <1>6 DEF MoveDungeon, CompleteDungeonMonster, AddXP, Refuse, Die, tables
<1>7. ASSUME NEW l \in Layouts, CreateDungeon(l) \/ CommitUpdate(l)
      PROVE  job'[q].version <= version'
  BY <1>2, <1>7 DEF CreateDungeon, CommitUpdate
<1>8. CASE UpdateDungeon \/ RollBackUpdate \/ DeleteDungeon
  BY <1>2, <1>8 DEF UpdateDungeon, RollBackUpdate, DeleteDungeon
<1>9. CASE (\E u \in Users : RetreatDungeon(u)) \/ UNCHANGED vars
  BY <1>2, <1>9 DEF RetreatDungeon, vars, tables
<1> QED
  BY <1>3, <1>4, <1>6, <1>7, <1>8, <1>9 DEF Next, ReadForMove, ReadMonster, ReadForComplete

LEMMA DatedStep == ASSUME Typed, Dated, [Next]_vars PROVE Dated'
  BY RowsDated, ReadersDated DEF Dated

LEMMA DatedInit == ASSUME Init PROVE Dated
  BY DEF Init, Dated, RowDated, Working

\* A row that stays when its map is replaced is not one of the new map.
LEMMA OldRowIsStale ==
    ASSUME Typed, Dated, NEW l \in Layouts, CommitUpdate(l), NEW u \in Users
    PROVE  ~Fresh(u)'
<1>1. /\ version' = version + 1 /\ version \in Int
      /\ progress'[u] = NoProgress \/ progress'[u] = progress[u]
      /\ progress[u] \in Progress \/ progress[u] = NoProgress
  BY DEF CommitUpdate, Typed, TypeOK
<1>2. ASSUME progress[u] \in Progress, progress[u] # NoProgress
      PROVE  ~(progress[u].maps \subseteq {version + 1})
  <2>1. PICK v \in progress[u].maps : v <= version
    BY <1>2 DEF Dated, RowDated
  <2>2. v \in Int
    BY <1>2 DEF Progress
  <2>3. v # version + 1
    BY <1>1, <2>1, <2>2
  <2> QED
    BY <2>3
<1> QED
  BY <1>1, <1>2 DEF Fresh

-----------------------------------------------------------------------------
(* XP comes once for each map that is completed *)

Owing(u, v) == {r \in Requests : /\ pc[r] = "award"
                                 /\ job[r].user = u /\ job[r].version = v}

Awards(u, v) == credited[u][v] + lost[u][v] + Cardinality(Owing(u, v))

Done(u) == progress[u] # NoProgress /\ progress[u].completed

\* Nobody has an award for a map to come; for the map there is, only who has
\* completed it, and everybody who has in a row of this map alone.
Accounted(u, v) ==
    /\ IsFiniteSet(Owing(u, v))
    /\ Awards(u, v) <= 1
    /\ v > version => Awards(u, v) = 0
    /\ v = version /\ map # NoMap /\ Awards(u, v) = 1 => Done(u)
    /\ v = version /\ Fresh(u) /\ Done(u) => Awards(u, v) = 1

AwardInv == Typed /\ Dated /\ \A u \in Users, v \in 1 .. MaxVersion : Accounted(u, v)

\* Handler r moves, the others wait.
Alone(r) == \A q \in Requests : q # r => pc'[q] = pc[q] /\ job'[q] = job[q]

SameOwing == \A u \in Users, v \in 1 .. MaxVersion : Owing(u, v)' = Owing(u, v)

LEMMA NoneOwes ==
    ASSUME NEW r \in Requests, Alone(r), pc[r] # "award", pc'[r] # "award"
    PROVE  SameOwing
<1>1. ASSUME NEW q \in Requests
      PROVE  /\ pc'[q] = "award" <=> pc[q] = "award"
             /\ pc[q] = "award" => job'[q] = job[q]
  BY DEF Alone
<1> QED
  BY <1>1 DEF SameOwing, Owing

\* A step that no award and no completion depends on.
Quiet ==
    /\ UNCHANGED <<version, map, credited, lost>>
    /\ SameOwing
    /\ \A u \in Users : (Done(u)' <=> Done(u)) /\ (Done(u)' /\ Fresh(u)' => Fresh(u))

\* What is written to the row of w leaves it as completed and as stale as it was.
LEMMA WriteIsQuiet ==
    ASSUME NEW w \in Users, NEW new, Writes(w, new), version' = version,
           \/ progress[w] # NoProgress /\ new.completed = progress[w].completed
              /\ progress[w].maps \subseteq new.maps
           \/ progress[w] = NoProgress /\ ~new.completed,
           new # NoProgress
    PROVE  \A u \in Users : (Done(u)' <=> Done(u)) /\ (Done(u)' /\ Fresh(u)' => Fresh(u))
<1>1. (Done(w)' <=> Done(w)) /\ (Done(w)' /\ Fresh(w)' => Fresh(w))
  BY DEF Done, Fresh, Writes
<1>2. ASSUME NEW u \in Users, u # w
      PROVE  (Done(u)' <=> Done(u)) /\ (Fresh(u)' => Fresh(u))
  BY <1>2 DEF Done, Fresh, Writes
<1> QED
  BY <1>1, <1>2

LEMMA RetreatIsQuiet ==
    ASSUME Typed, NEW u \in Users, RetreatDungeon(u) PROVE Quiet
<1>1. /\ Writes(u, Back(progress[u])) /\ Back(progress[u]) # NoProgress
      /\ progress[u] # NoProgress
      /\ Back(progress[u]).completed = progress[u].completed
      /\ Back(progress[u]).maps = progress[u].maps
  BY RetreatWrites, BackRow, MapsOK
<1>2. \A w \in Users : (Done(w)' <=> Done(w)) /\ (Done(w)' /\ Fresh(w)' => Fresh(w))
  BY <1>1, WriteIsQuiet DEF RetreatDungeon
<1> QED
  BY <1>2 DEF RetreatDungeon, Quiet, SameOwing, Owing, history

LEMMA ReadIsQuiet ==
    ASSUME Typed, NEW r \in Requests, NEW u \in Users,
           ReadForMove(r, u) \/ ReadMonster(r, u) \/ ReadForComplete(r, u)
    PROVE  Quiet
<1>1. PICK step, cell : step \in {"move", "defeat", "complete"} /\ Read(r, step, u, cell)
  BY DEF ReadForMove, ReadMonster, ReadForComplete
<1>2. Alone(r) /\ pc[r] # "award" /\ pc'[r] # "award"
  BY <1>1 DEF Read, Goto, Alone, Typed, TypeOK
<1>3. SameOwing
  BY <1>2, NoneOwes
<1> QED
  BY <1>1, <1>3 DEF Read, Quiet, Done, Fresh, tables, history

LEMMA WalkIsQuiet ==
    ASSUME Typed, NEW r \in Requests, MoveDungeon(r) \/ CompleteDungeonMonster(r)
    PROVE  Quiet
<1> DEFINE j == job[r]
<1>1. /\ Working(r) /\ j \in Job /\ j.user \in Users /\ End(r) /\ pc[r] # "award"
      /\ UNCHANGED <<version, map, credited, lost>>
  BY JobOf DEF Typed, Working, MoveDungeon, CompleteDungeonMonster, history
<1>2. SameOwing
  BY <1>1, EndKeeps, NoneOwes DEF Alone
<1>w. PICK w \in Users : w = j.user
  BY <1>1
<1> HIDE DEF j
<1>3. \A u \in Users : (Done(u)' <=> Done(u)) /\ (Done(u)' /\ Fresh(u)' => Fresh(u))
  <2>1. CASE MoveDungeon(r)
    <3> DEFINE p == From(j)
               new == Walked(p, j)
    <3>1. p \in Progress /\ Writes(w, new) /\ ~p.completed
      BY <1>w, <2>1, MoveWrites DEF j
    <3>2. new \in Progress /\ new.completed = p.completed /\ new.maps = p.maps \cup {j.version}
      BY <1>1, <3>1, WalkedRow
    <3>3. progress[w] = NoProgress \/ progress[w] = p
      BY <1>w DEF From
    <3> HIDE DEF new, p
    <3>4. new # NoProgress
      BY <3>2, MapsOK
    <3>5. \/ progress[w] # NoProgress /\ new.completed = progress[w].completed
             /\ progress[w].maps \subseteq new.maps
          \/ progress[w] = NoProgress /\ ~new.completed
      BY <3>1, <3>2, <3>3
    <3> QED
      BY <1>1, <3>1, <3>4, <3>5, WriteIsQuiet
  <2>2. CASE CompleteDungeonMonster(r)
    <3> DEFINE p == progress[w]
    <3>1. p \in Progress /\ Writes(w, Fought(p, j))
      BY <1>w, <2>2, FightWrites DEF j
    <3>2. /\ Fought(p, j) \in Progress /\ Fought(p, j).completed = p.completed
          /\ Fought(p, j).maps = p.maps \cup {j.version}
      BY <1>1, <3>1, FoughtRow
    <3>3. p # NoProgress /\ Fought(p, j) # NoProgress
      BY <3>1, <3>2, MapsOK
    <3> QED
      BY <1>1, <3>1, <3>2, <3>3, WriteIsQuiet
  <2> QED
    BY <1>1, <2>1, <2>2 DEF j
<1> QED
  BY <1>1, <1>2, <1>3 DEF Quiet

LEMMA EndIsQuiet ==
    ASSUME Typed, NEW r \in Requests, Refuse(r) \/ (Die(r) /\ pc[r] # "award")
    PROVE  Quiet
<1>1. End(r) /\ pc[r] # "award" /\ UNCHANGED <<tables, credited, lost>>
  BY DEF Refuse, Die, history
<1>2. SameOwing
  BY <1>1, EndKeeps, NoneOwes DEF Alone
<1> QED
  BY <1>1, <1>2 DEF Quiet, Done, Fresh, tables

LEMMA NextCases ==
    ASSUME Typed, [Next]_vars
    PROVE  \/ Quiet
           \/ NewMap
           \/ \E r \in Requests :
                  CompleteDungeon(r) \/ AddXP(r) \/ (Die(r) /\ pc[r] = "award")
<1>1. CASE UNCHANGED vars
  BY <1>1 DEF vars, tables, history, Quiet, SameOwing, Owing, Done, Fresh
<1>2. ASSUME NEW r \in Requests, Die(r), pc[r] # "award"
      PROVE  Quiet
  BY <1>2, EndIsQuiet
<1>3. ASSUME NEW r \in Requests, Refuse(r)
      PROVE  Quiet
  BY <1>3, EndIsQuiet
<1>4. ASSUME NEW r \in Requests, MoveDungeon(r) \/ CompleteDungeonMonster(r)
      PROVE  Quiet
  BY <1>4, WalkIsQuiet
<1>5. ASSUME NEW u \in Users, RetreatDungeon(u)
      PROVE  Quiet
  BY <1>5, RetreatIsQuiet
<1>6. ASSUME NEW r \in Requests, NEW u \in Users,
             ReadForMove(r, u) \/ ReadMonster(r, u) \/ ReadForComplete(r, u)
      PROVE  Quiet
  BY <1>6, ReadIsQuiet
<1>7. CASE Saving
  BY <1>7 DEF Saving, UpdateDungeon, RollBackUpdate, Quiet, SameOwing, Owing, Done, Fresh, history
<1>8. CASE Next
  BY <1>2, <1>3, <1>4, <1>5, <1>6, <1>7, <1>8 DEF Next, NewMap, Saving
<1> QED
  BY <1>1, <1>8

LEMMA CountsOf ==
    ASSUME Typed, NEW u \in Users, NEW v \in 1 .. MaxVersion
    PROVE  /\ version \in Int
           /\ credited[u][v] \in Nat /\ lost[u][v] \in Nat /\ moves[u][v] \in Nat
<1>1. version \in 0 .. MaxVersion /\ 0 .. MaxVersion \subseteq Int
  BY DEF Typed, TypeOK
<1>2. /\ credited \in [Users -> [1 .. MaxVersion -> Nat]]
      /\ lost \in [Users -> [1 .. MaxVersion -> Nat]]
      /\ moves \in [Users -> [1 .. MaxVersion -> Nat]]
  BY DEF Typed, TypeOK
<1> QED
  BY <1>1, <1>2, Zenon

LEMMA QuietAwards ==
    ASSUME AwardInv, Quiet, NEW u \in Users, NEW v \in 1 .. MaxVersion
    PROVE  Accounted(u, v)'
<1>1. Owing(u, v)' = Owing(u, v) /\ Awards(u, v)' = Awards(u, v) /\ (Done(u)' <=> Done(u))
  BY DEF Quiet, SameOwing, Awards
<1> QED
  BY <1>1 DEF AwardInv, Accounted, Quiet

\* A new map, or none: awards stay with the old one, and rows that stay as well.
LEMMA SaveAwards ==
    ASSUME AwardInv, NEW u \in Users, NEW v \in 1 .. MaxVersion, NewMap
    PROVE  Accounted(u, v)'
<1>1. UNCHANGED <<pc, job, credited, lost>>
  BY DEF NewMap, CreateDungeon, CommitUpdate, DeleteDungeon, history
<1>2. Owing(u, v)' = Owing(u, v) /\ Awards(u, v)' = Awards(u, v)
  BY <1>1 DEF Owing, Awards
<1>3. /\ version \in Int /\ Accounted(u, v)
      /\ ~Fresh(u)' /\ (map' = NoMap \/ version' = version + 1)
      /\ version' = version \/ version' = version + 1
  <2>1. CASE \E l \in Layouts : CreateDungeon(l)
    <3>1. progress[u] = NoProgress \/ version >= 1
      BY DEF AwardInv, Typed, TypeOK
    <3> QED
      BY <2>1, <3>1 DEF CreateDungeon, AwardInv, Typed, TypeOK, Fresh
  <2>2. CASE \E l \in Layouts : CommitUpdate(l)
    <3>1. PICK l \in Layouts : CommitUpdate(l)
      BY <2>2
    <3>2. ~Fresh(u)' /\ version' = version + 1
      BY <3>1, OldRowIsStale DEF CommitUpdate, AwardInv
    <3>3. version \in Int /\ Accounted(u, v)
      BY CountsOf DEF AwardInv
    <3> QED
      BY <3>2, <3>3
  <2>3. CASE DeleteDungeon
    BY <2>3 DEF DeleteDungeon, AwardInv, Typed, TypeOK, Fresh
  <2> QED
    BY <2>1, <2>2, <2>3 DEF NewMap
<1> QED
  BY <1>2, <1>3 DEF Accounted

\* The completion that counts brings one award, for the map there is.
LEMMA CompleteAwards ==
    ASSUME AwardInv, NEW r \in Requests, CompleteDungeon(r),
           NEW u \in Users, NEW v \in 1 .. MaxVersion
    PROVE  Accounted(u, v)'
<1>1. /\ job[r] \in Job /\ pc[r] = "complete" /\ version \in Int
      /\ Accounted(u, v) /\ credited[u][v] \in Nat /\ lost[u][v] \in Nat
  BY CompleteWrites, CountsOf DEF AwardInv
<1>w. PICK w \in Users : w = job[r].user
  BY <1>1, JobOf
<1>2. /\ Alone(r) /\ pc'[r] = "award" /\ job'[r].user = w /\ job'[r].version = version
      /\ UNCHANGED <<version, map, credited, lost>>
  <2>1. job'[r] = [job[r] EXCEPT !.version = version]
    BY DEF CompleteDungeon, AwardInv, Typed, TypeOK
  <2>2. job'[r].user = w /\ job'[r].version = version
    BY <1>1, <1>w, <2>1 DEF Job
  <2> QED
    BY <2>2 DEF CompleteDungeon, Goto, AwardInv, Typed, TypeOK, Alone, history
<1>3. progress[w] \in Progress /\ map # NoMap /\ ~Done(w)
  BY <1>w, CompleteWrites DEF AwardInv, Done
<1>4. Done(w)' /\ \A x \in Users : x # w => (Done(x)' <=> Done(x)) /\ (Fresh(x)' => Fresh(x))
  <2> DEFINE new == Ended(progress[w], job[r])
  <2>1. Writes(w, new)
    BY <1>w, CompleteWrites DEF AwardInv
  <2>2. new \in Progress /\ new.completed
    BY <1>1, <1>3, EndedRow
  <2> HIDE DEF new
  <2> QED
    BY <1>2, <2>1, <2>2, MapsOK DEF Done, Fresh, Writes
<1>5. CASE u = w /\ v = version
  <2>1. Owing(u, v)' = Owing(u, v) \cup {r} /\ r \notin Owing(u, v)
    BY <1>1, <1>2, <1>5 DEF Owing, Alone
  <2>2. Cardinality(Owing(u, v)) \in Nat
    BY <1>1, FS_CardinalityType DEF Accounted
  <2>3. Awards(u, v) = 0
    <3>1. Awards(u, v) \in Nat /\ Awards(u, v) <= 1 /\ Awards(u, v) # 1
      BY <1>1, <1>3, <1>5, <2>2 DEF Accounted, Awards
    <3> QED
      BY <3>1
  <2>4. /\ IsFiniteSet(Owing(u, v)')
        /\ Cardinality(Owing(u, v)') = Cardinality(Owing(u, v)) + 1
    BY <1>1, <2>1, FS_AddElement DEF Accounted
  <2>5. Awards(u, v)' = 1
    BY <1>1, <1>2, <2>2, <2>3, <2>4 DEF Awards
  <2>6. IsFiniteSet(Owing(u, v))' /\ Done(u)' /\ v = version' /\ version' \in Int
    BY <1>1, <1>2, <1>4, <1>5, <2>4
  <2> QED
    BY <2>5, <2>6 DEF Accounted
<1>6. CASE ~(u = w /\ v = version)
  <2>1. Owing(u, v)' = Owing(u, v)
    <3>1. ASSUME NEW q \in Requests
          PROVE  q \in Owing(u, v)' <=> q \in Owing(u, v)
      BY <1>1, <1>2, <1>6 DEF Owing, Alone
    <3> QED
      BY <3>1 DEF Owing
  <2>2. Awards(u, v)' = Awards(u, v)
    BY <1>2, <2>1 DEF Awards
  <2>3. v = version => (Done(u)' <=> Done(u)) /\ (Fresh(u)' => Fresh(u))
    BY <1>4, <1>6
  <2> QED
    BY <1>1, <1>2, <2>1, <2>2, <2>3 DEF Accounted
<1> QED
  BY <1>5, <1>6

\* An award that was owed is credited or lost.
LEMMA SettleAwards ==
    ASSUME AwardInv, NEW r \in Requests, AddXP(r) \/ (Die(r) /\ pc[r] = "award"),
           NEW u \in Users, NEW v \in 1 .. MaxVersion
    PROVE  Accounted(u, v)'
<1>0. pc[r] = "award" /\ End(r) /\ UNCHANGED <<version, map, progress>>
  BY DEF AddXP, Die, tables
<1>1. /\ job[r] \in Job /\ pc[r] = "award" /\ End(r)
      /\ Accounted(u, v) /\ credited[u][v] \in Nat /\ lost[u][v] \in Nat
      /\ UNCHANGED <<version, map, progress>>
  BY <1>0, CountsOf DEF AwardInv, Typed, Working
<1>w. PICK w \in Users, m \in 1 .. MaxVersion : w = job[r].user /\ m = job[r].version
  BY <1>1, JobOf
<1>2. Alone(r) /\ pc'[r] = "idle"
  BY <1>1, EndKeeps DEF AwardInv, Alone
<1>3. LET settled == IF u = w /\ v = m THEN 1 ELSE 0
      IN  \/ credited'[u][v] = credited[u][v] + settled /\ lost' = lost
          \/ lost'[u][v] = lost[u][v] + settled /\ credited' = credited
  <2>0. /\ credited \in [Users -> [1 .. MaxVersion -> Nat]]
        /\ lost \in [Users -> [1 .. MaxVersion -> Nat]]
    BY DEF AwardInv, Typed, TypeOK
  <2>1. CASE AddXP(r)
    <3>1. credited' = [credited EXCEPT ![w][m] = @ + 1] /\ lost' = lost
      BY <1>w, <2>1 DEF AddXP
    <3>2. credited'[u][v] = IF u = w /\ v = m THEN credited[u][v] + 1 ELSE credited[u][v]
      <4> DEFINE D == 1 .. MaxVersion
      <4>1. credited \in [Users -> [D -> Nat]] /\ m \in D /\ v \in D
        BY <2>0
      <4> HIDE DEF D
      <4>2. [credited EXCEPT ![w][m] = @ + 1][u][v] =
                IF u = w /\ v = m THEN credited[u][v] + 1 ELSE credited[u][v]
        BY <4>1, CountUp
      <4> QED
        BY <3>1, <4>2
    <3> QED
      BY <1>1, <3>1, <3>2
  <2>2. CASE Die(r) /\ pc[r] = "award"
    <3>1. lost' = [lost EXCEPT ![w][m] = @ + 1] /\ credited' = credited
      BY <1>w, <2>2 DEF Die
    <3>2. lost'[u][v] = IF u = w /\ v = m THEN lost[u][v] + 1 ELSE lost[u][v]
      <4> DEFINE D == 1 .. MaxVersion
      <4>1. lost \in [Users -> [D -> Nat]] /\ m \in D /\ v \in D
        BY <2>0
      <4> HIDE DEF D
      <4>2. [lost EXCEPT ![w][m] = @ + 1][u][v] =
                IF u = w /\ v = m THEN lost[u][v] + 1 ELSE lost[u][v]
        BY <4>1, CountUp
      <4> QED
        BY <3>1, <4>2
    <3> QED
      BY <1>1, <3>1, <3>2
  <2> QED
    BY <2>1, <2>2
<1>4. Cardinality(Owing(u, v)) \in Nat
  BY <1>1, FS_CardinalityType DEF Accounted
<1>5. Awards(u, v)' = Awards(u, v) /\ IsFiniteSet(Owing(u, v)')
  <2>1. CASE u = w /\ v = m
    <3>1. Owing(u, v)' = Owing(u, v) \ {r} /\ r \in Owing(u, v)
      BY <1>1, <1>2, <1>w, <2>1 DEF Owing, Alone
    <3>2. /\ IsFiniteSet(Owing(u, v)')
          /\ Cardinality(Owing(u, v)') = Cardinality(Owing(u, v)) - 1
      BY <1>1, <3>1, FS_RemoveElement DEF Accounted
    <3> QED
      BY <1>1, <1>3, <1>4, <2>1, <3>2 DEF Awards
  <2>2. CASE ~(u = w /\ v = m)
    <3>1. Owing(u, v)' = Owing(u, v)
      <4>1. ASSUME NEW q \in Requests
            PROVE  q \in Owing(u, v)' <=> q \in Owing(u, v)
        BY <1>1, <1>2, <1>w, <2>2 DEF Owing, Alone
      <4> QED
        BY <4>1 DEF Owing
    <3> QED
      BY <1>1, <1>3, <2>2, <3>1 DEF Awards, Accounted
  <2> QED
    BY <2>1, <2>2
<1> QED
  BY <1>1, <1>5 DEF Accounted, Done, Fresh

LEMMA AwardsInit == ASSUME Init PROVE AwardInv
<1>1. Typed /\ Cardinality({}) = 0 /\ IsFiniteSet({})
  BY InitTyped, FS_EmptySet
<1>2. ASSUME NEW u \in Users, NEW v \in 1 .. MaxVersion
      PROVE  Accounted(u, v)
  <2>1. Owing(u, v) = {} /\ credited[u][v] = 0 /\ lost[u][v] = 0 /\ ~Done(u)
    BY DEF Init, Owing, NoCounts, Done
  <2> QED
    BY <1>1, <2>1 DEF Accounted, Awards
<1> QED
  BY <1>1, <1>2, DatedInit DEF AwardInv

LEMMA AwardStep == ASSUME AwardInv, [Next]_vars PROVE AwardInv'
<1>1. Typed /\ Typed' /\ Dated'
  BY TypeStep, DatedStep DEF AwardInv
<1>2. ASSUME NEW u \in Users, NEW v \in 1 .. MaxVersion
      PROVE  Accounted(u, v)'
  BY <1>1, NextCases, QuietAwards, SaveAwards, CompleteAwards, SettleAwards
<1> QED
  BY <1>1, <1>2 DEF AwardInv

\* However many handlers complete at once, whichever of them die, and whatever
\* rows a replacement drops or leaves, a player is awarded a map once at the most:
\* the map there is only with the row completed, and always when the row, written
\* from this map alone, is completed.
THEOREM AwardsComeOnce == Spec => []AwardedOnce
<1>1. Init => AwardInv
  BY AwardsInit
<1>2. AwardInv /\ [Next]_vars => AwardInv'
  BY AwardStep
<1>3. AwardInv => AwardedOnce
  <2> SUFFICES ASSUME AwardInv, NEW u \in Users, NEW v \in 1 .. MaxVersion
               PROVE  /\ Awards(u, v) <= 1
                      /\ v = version /\ map # NoMap /\ Awards(u, v) = 1 => Done(u)
                      /\ v = version /\ Fresh(u) /\ Done(u) => Awards(u, v) = 1
    BY DEF AwardedOnce, Awards, Owing, Done
  <2> QED
    BY DEF AwardInv, Accounted
<1> QED
  BY <1>1, <1>2, <1>3, PTL DEF Spec

-----------------------------------------------------------------------------
(* A move costs a point, and shows at most one cell *)

Spent(u) == points[u] + SumOf(moves[u], 1 .. MaxVersion) = Energy

SeenPaid(u) ==
    progress[u] # NoProgress =>
        /\ IsFiniteSet(progress[u].visited)
        /\ Cardinality(progress[u].visited) <= 1 + SumOf(moves[u], progress[u].maps)

WalkInv == Typed /\ \A u \in Users : Spent(u) /\ SeenPaid(u)

LEMMA Versions == IsFiniteSet(1 .. MaxVersion) /\ 1 .. MaxVersion \subseteq Int
  BY FS_Interval, ConstantsOK

\* One more at m makes the sum over some of the elements and m greater.
LEMMA SumWith ==
    ASSUME NEW D, IsFiniteSet(D), NEW f \in [D -> Nat], NEW m \in D, NEW M \in SUBSET D
    PROVE  /\ SumOf(f, M) \in Nat /\ SumOf([f EXCEPT ![m] = @ + 1], M \cup {m}) \in Nat
           /\ SumOf([f EXCEPT ![m] = @ + 1], M \cup {m}) >= SumOf(f, M) + 1
<1> DEFINE g == [f EXCEPT ![m] = @ + 1]
           R == M \ {m}
           N == M \cup {m}
<1>1. /\ g \in [D -> Nat] /\ g[m] = f[m] + 1 /\ \A x \in R : f[x] = g[x]
      /\ \A x \in N : g[x] \in Int /\ g[x] \in Nat
      /\ \A x \in M : f[x] \in Int /\ f[x] \in Nat
      /\ \A x \in R : f[x] \in Nat
  OBVIOUS
<1>2. N \subseteq D /\ R \subseteq D /\ N \ {m} = R /\ m \in N /\ (m \notin M => R = M)
  OBVIOUS
<1>3. IsFiniteSet(M) /\ IsFiniteSet(R) /\ IsFiniteSet(N)
  BY <1>2, FS_Subset
<1> HIDE DEF g, N
<1>4. SumOf(g, N) = g[m] + SumOf(g, R)
  BY <1>1, <1>2, <1>3, SumTakesAny
<1>5. m \in M => SumOf(f, M) = f[m] + SumOf(f, R)
  BY <1>1, <1>3, SumTakesAny
<1> HIDE DEF R
<1>6. SumOf(f, R) = SumOf(g, R)
  BY <1>1, <1>3, SumCong
<1>7. SumOf(f, M) \in Nat /\ SumOf(g, N) \in Nat /\ SumOf(f, R) \in Nat
  BY <1>1, <1>3, SumTyped
<1>8. f[m] \in Nat
  OBVIOUS
<1>9. SumOf(g, N) >= SumOf(f, M) + 1
  BY <1>1, <1>2, <1>4, <1>5, <1>6, <1>7, <1>8
<1> QED
  BY <1>7, <1>9 DEF g, N

LEMMA MapsFinite ==
    ASSUME NEW p \in Progress PROVE IsFiniteSet(p.maps) /\ p.maps \subseteq 1 .. MaxVersion
<1>1. p.maps \subseteq 1 .. MaxVersion
  BY DEF Progress
<1> QED
  BY <1>1, Versions, FS_Subset

LEMMA WalkInit == ASSUME Init PROVE WalkInv
<1>1. Typed
  BY InitTyped
<1>2. ASSUME NEW u \in Users
      PROVE  Spent(u) /\ SeenPaid(u)
  <2> DEFINE D == 1 .. MaxVersion
             f == [v \in D |-> 0]
  <2>1. moves[u] = f /\ points[u] = Energy /\ progress[u] = NoProgress
    BY DEF Init, NoCounts
  <2>2. SumOf(f, D) = 0
    <3>1. IsFiniteSet(D)
      BY Versions
    <3> DEFINE g == [s \in SUBSET D |-> 0]
    <3>2. Adds(g, f, D)
      <4>1. ASSUME NEW s \in SUBSET D
            PROVE  0 = IF s = {} THEN 0 ELSE f[Some(s)] + g[s \ {Some(s)}]
        <5>1. s # {} => Some(s) \in D /\ s \ {Some(s)} \in SUBSET D
          BY SomeIsIn
        <5>2. s # {} => f[Some(s)] = 0 /\ g[s \ {Some(s)}] = 0
          BY <5>1
        <5> HIDE DEF f, g
        <5> QED
          BY <5>2
      <4> HIDE DEF f, D
      <4> QED
        BY <4>1 DEF Adds
    <3>3. D \in SUBSET D /\ g[D] = 0
      OBVIOUS
    <3> HIDE DEF f, g, D
    <3> QED
      BY <3>1, <3>2, <3>3, SumIsAdds
  <2> HIDE DEF f
  <2> QED
    BY <2>1, <2>2, ConstantsOK DEF Spent, SeenPaid
<1> QED
  BY <1>1, <1>2 DEF WalkInv

\* What a move does to its player, and to nobody else.
LEMMA MovePays ==
    ASSUME WalkInv, NEW r \in Requests, MoveDungeon(r)
    PROVE  \A u \in Users : Spent(u)' /\ SeenPaid(u)'
<1> DEFINE j == job[r]
           p == From(j)
<1>1. /\ j \in Job /\ j.user \in Users /\ p \in Progress /\ map # NoMap
      /\ Writes(j.user, Walked(p, j))
  BY MoveWrites DEF WalkInv
<1>w. PICK w \in Users, q \in Progress, target \in Cells, m \in 1 .. MaxVersion :
          w = j.user /\ q = p /\ target = j.target /\ m = j.version
  BY <1>1, JobOf
<1>3. /\ points' = [points EXCEPT ![w] = @ - 1] /\ points \in [Users -> Nat]
      /\ moves' = [moves EXCEPT ![w][m] = @ + 1]
      /\ moves \in [Users -> [1 .. MaxVersion -> Nat]]
  BY <1>w DEF MoveDungeon, WalkInv, Typed, TypeOK, Cost
<1>4. /\ Walked(p, j).visited = q.visited \cup {target} /\ Walked(p, j) \in Progress
      /\ Walked(p, j).maps = q.maps \cup {m}
  BY <1>1, <1>w, WalkedRow
<1>5. \/ q = progress[w]
      \/ progress[w] = NoProgress /\ q.maps = {} /\ \E c : q.visited = {c}
  BY <1>w DEF From
<1>6. progress'[w].visited = q.visited \cup {target} /\ progress'[w].maps = q.maps \cup {m}
  BY <1>1, <1>4, <1>w DEF Writes
<1>7. \A u \in Users : u # w => progress'[u] = progress[u]
  BY <1>1, <1>w DEF Writes
<1> HIDE DEF j, p
<1>8. ASSUME NEW u \in Users, u # w
      PROVE  Spent(u)' /\ SeenPaid(u)'
  <2>1. points'[u] = points[u] /\ moves'[u] = moves[u] /\ progress'[u] = progress[u]
    BY <1>3, <1>7, <1>8
  <2> QED
    BY <2>1 DEF WalkInv, Spent, SeenPaid
<1>f. PICK f \in [1 .. MaxVersion -> Nat] : f = moves[w]
  BY <1>3
<1>g. moves'[w] = [f EXCEPT ![m] = @ + 1]
  BY <1>3, <1>f
<1>9. Spent(w)'
  <2> DEFINE D == 1 .. MaxVersion
  <2>1. f \in [D -> Nat] /\ m \in D /\ IsFiniteSet(D)
    BY Versions
  <2>2. points'[w] = points[w] - 1 /\ points[w] \in Int
    BY <1>3
  <2>3. points[w] + SumOf(f, D) = Energy
    BY <1>f DEF WalkInv, Spent
  <2> HIDE DEF D
  <2>4. SumOf(moves'[w], D) = SumOf(f, D) + 1 /\ SumOf(f, D) \in Nat
    BY <1>g, <2>1, SumCountsUp, SumTyped, ZenonT(30)
  <2>5. points'[w] + SumOf(moves'[w], D) = Energy
    BY <2>2, <2>3, <2>4
  <2> QED
    BY <2>5 DEF D, Spent
<1>10. SeenPaid(w)'
  <2> DEFINE D == 1 .. MaxVersion
             M == q.maps
             V == q.visited
  <2>1. M \in SUBSET D /\ IsFiniteSet(D) /\ m \in D /\ f \in [D -> Nat]
    BY MapsFinite, Versions
  <2> HIDE DEF D
  <2>2. IsFiniteSet(V) /\ Cardinality(V) <= 1 + SumOf(f, M)
    <3>1. CASE q = progress[w]
      BY <1>f, <3>1, MapsOK DEF WalkInv, SeenPaid
    <3>2. CASE M = {} /\ \E c : V = {c}
      <4>1. PICK c : V = {c}
        BY <3>2
      <4>2. IsFiniteSet(V) /\ Cardinality(V) = 1
        BY <4>1, FS_Singleton
      <4>3. SumOf(f, M) = 0
        BY <3>2, FS_EmptySet, SumStep
      <4> QED
        BY <4>2, <4>3
    <3> QED
      BY <1>5, <3>1, <3>2
  <2> HIDE DEF M, V
  <2>3. /\ SumOf(f, M) \in Nat /\ SumOf(moves'[w], M \cup {m}) \in Nat
        /\ SumOf(moves'[w], M \cup {m}) >= SumOf(f, M) + 1
    BY <1>g, <2>1, SumWith
  <2>4. Cardinality(V) \in Nat
    BY <2>2, FS_CardinalityType
  <2>5. /\ IsFiniteSet(V \cup {target})
        /\ Cardinality(V \cup {target}) =
               IF target \in V THEN Cardinality(V) ELSE Cardinality(V) + 1
    BY <2>2, FS_AddElement
  <2>6. Cardinality(V \cup {target}) <= 1 + SumOf(moves'[w], M \cup {m})
    BY <2>2, <2>3, <2>4, <2>5
  <2> QED
    BY <1>6, <2>5, <2>6 DEF SeenPaid, M, V
<1> QED
  BY <1>8, <1>9, <1>10

\* A step that spends nothing keeps the cells a player has seen, or drops them.
SpendsNothing ==
    /\ UNCHANGED <<points, moves>>
    /\ \A u \in Users :
           \/ progress'[u] = NoProgress
           \/ /\ progress[u] # NoProgress
              /\ progress'[u].visited = progress[u].visited
              /\ progress[u].maps \subseteq progress'[u].maps

LEMMA OthersSpendNothing ==
    ASSUME Typed, [Next]_vars
    PROVE  SpendsNothing \/ \E r \in Requests : MoveDungeon(r)
<1>1. ASSUME NEW l \in Layouts, CreateDungeon(l) \/ CommitUpdate(l)
      PROVE  SpendsNothing
  BY <1>1 DEF CreateDungeon, CommitUpdate, SpendsNothing, Typed, TypeOK, history
<1>2. ASSUME DeleteDungeon
      PROVE  SpendsNothing
  BY <1>2 DEF DeleteDungeon, SpendsNothing, history
<1>3. ASSUME NEW u \in Users, RetreatDungeon(u)
      PROVE  SpendsNothing
  <2>1. /\ progress[u] \in Progress /\ Writes(u, Back(progress[u]))
        /\ Back(progress[u]).visited = progress[u].visited
        /\ Back(progress[u]).maps = progress[u].maps
    BY <1>3, RetreatWrites, BackRow
  <2> QED
    BY <1>3, <2>1, MapsOK DEF RetreatDungeon, SpendsNothing, Writes, history
<1>4. ASSUME NEW r \in Requests, CompleteDungeonMonster(r)
      PROVE  SpendsNothing
  <2>w. PICK w \in Users : w = job[r].user
    BY <1>4, FightWrites
  <2>1. /\ progress[w] \in Progress /\ Writes(w, Fought(progress[w], job[r]))
        /\ Fought(progress[w], job[r]).visited = progress[w].visited
        /\ progress[w].maps \subseteq Fought(progress[w], job[r]).maps
    BY <1>4, <2>w, FightWrites, FoughtRow
  <2> QED
    BY <1>4, <2>1, MapsOK DEF CompleteDungeonMonster, SpendsNothing, Writes, history
<1>5. ASSUME NEW r \in Requests, CompleteDungeon(r)
      PROVE  SpendsNothing
  <2>w. PICK w \in Users : w = job[r].user
    BY <1>5, CompleteWrites
  <2>1. /\ progress[w] \in Progress /\ Writes(w, Ended(progress[w], job[r]))
        /\ Ended(progress[w], job[r]).visited = progress[w].visited
        /\ progress[w].maps \subseteq Ended(progress[w], job[r]).maps
    BY <1>5, <2>w, CompleteWrites, EndedRow
  <2> QED
    BY <1>5, <2>1, MapsOK DEF CompleteDungeon, SpendsNothing, Writes, history
<1>6. ASSUME UNCHANGED <<progress, points, moves>>
      PROVE  SpendsNothing
  BY <1>6 DEF SpendsNothing
<1>s. ASSUME UpdateDungeon \/ RollBackUpdate
      PROVE  SpendsNothing
  BY <1>6, <1>s DEF UpdateDungeon, RollBackUpdate, history
<1>7. ASSUME NEW r \in Requests, AddXP(r) \/ Refuse(r) \/ Die(r)
      PROVE  SpendsNothing
  BY <1>6, <1>7 DEF AddXP, Refuse, Die, tables, history
<1>8. ASSUME NEW r \in Requests, NEW u \in Users,
             ReadForMove(r, u) \/ ReadMonster(r, u) \/ ReadForComplete(r, u)
      PROVE  SpendsNothing
  BY <1>6, <1>8 DEF ReadForMove, ReadMonster, ReadForComplete, Read, tables, history
<1>9. CASE UNCHANGED vars
  BY <1>6, <1>9 DEF vars, tables, history
<1> QED
  BY <1>1, <1>2, <1>3, <1>4, <1>5, <1>7, <1>8, <1>9, <1>s DEF Next

LEMMA WalkStep == ASSUME WalkInv, [Next]_vars PROVE WalkInv'
<1>1. Typed'
  BY TypeStep DEF WalkInv
<1>2. ASSUME SpendsNothing, NEW u \in Users
      PROVE  Spent(u)' /\ SeenPaid(u)'
  <2>1. Spent(u)'
    BY <1>2 DEF WalkInv, SpendsNothing, Spent
  <2>2. SUFFICES ASSUME progress'[u] # NoProgress
                 PROVE  SeenPaid(u)'
    BY <2>1 DEF SeenPaid
  <2>3. PICK p \in Progress, new \in Progress :
            /\ p = progress[u] /\ new = progress'[u] /\ progress[u] # NoProgress
            /\ new.visited = p.visited /\ p.maps \subseteq new.maps
    BY <1>1, <1>2, <2>2 DEF SpendsNothing, WalkInv, Typed, TypeOK
  <2>4. PICK f \in [1 .. MaxVersion -> Nat] : f = moves[u] /\ f = moves'[u]
    BY <1>2 DEF SpendsNothing, WalkInv, Typed, TypeOK
  <2>5. IsFiniteSet(p.visited) /\ Cardinality(p.visited) <= 1 + SumOf(f, p.maps)
    BY <2>3, <2>4 DEF WalkInv, SeenPaid
  <2> DEFINE S == p.maps
             T == new.maps
             D == 1 .. MaxVersion
  <2>6. IsFiniteSet(S) /\ IsFiniteSet(T) /\ S \in SUBSET T /\ T \subseteq D /\ f \in [D -> Nat]
    BY <2>3, MapsFinite
  <2> HIDE DEF S, T, D
  <2>7. ASSUME NEW x \in T
        PROVE  f[x] \in Nat /\ f[x] <= f[x]
    <3>1. f[x] \in Nat
      BY <2>6
    <3> QED
      BY <3>1
  <2>a. \A x \in S : f[x] \in Nat /\ f[x] <= f[x]
    BY <2>6, <2>7
  <2>8. SumOf(f, S) <= SumOf(f, T) /\ SumOf(f, S) \in Nat /\ SumOf(f, T) \in Nat
    BY <2>6, <2>7, <2>a, SumGrows, SumTyped
  <2>9. Cardinality(p.visited) \in Nat
    BY <2>5, FS_CardinalityType
  <2>10. Cardinality(p.visited) <= 1 + SumOf(f, T)
    BY <2>5, <2>8, <2>9 DEF S
  <2> QED
    BY <2>3, <2>4, <2>5, <2>10 DEF SeenPaid, T
<1>3. CASE \E r \in Requests : MoveDungeon(r)
  BY <1>1, <1>3, MovePays DEF WalkInv
<1> QED
  BY <1>1, <1>2, <1>3, OthersSpendNothing DEF WalkInv

\* Each point a player has lost was a move, and each cell seen beyond the start
\* was paid for, whatever races, is retried, starts over or is left on a new map.
THEOREM EveryCellIsPaid == Spec => []WalkIsPaid
<1>1. Init => WalkInv
  BY WalkInit
<1>2. WalkInv /\ [Next]_vars => WalkInv'
  BY WalkStep
<1>3. WalkInv => WalkIsPaid
  <2> SUFFICES ASSUME WalkInv, NEW u \in Users
               PROVE  /\ points[u] + MapThenSumSet(LAMBDA v : moves[u][v], 1 .. MaxVersion)
                             = Energy
                      /\ progress[u] # NoProgress =>
                             Cardinality(progress[u].visited)
                                 <= 1 + MapThenSumSet(LAMBDA v : moves[u][v], progress[u].maps)
    BY DEF WalkIsPaid
  <2>1. \A f, S : MapThenSumSet(LAMBDA v : f[v], S) = SumOf(f, S)
    BY SumOfFunction
  <2>2. \A S : MapThenSumSet(LAMBDA v : moves[u][v], S) = SumOf(moves[u], S)
    BY <2>1
  <2> QED
    BY <2>2 DEF WalkInv, Spent, SeenPaid
<1> QED
  BY <1>1, <1>2, <1>3, PTL DEF Spec

-----------------------------------------------------------------------------
(* The road: what a row shows of the map it was written from *)

Ids(v, M) == {MonsterId(v, cell) : cell \in M}

\* A row p of a player whose trophy is image, on the map m that was saved as v.
OnRoad(m, v, p, image) ==
    /\ {m.start, p.pos} \subseteq p.visited
    /\ p.visited \subseteq RoadOf(m) /\ Connected(p.visited)
    /\ p.prev # NoCell => p.prev \in p.visited /\ manhattan(p.prev, p.pos) = 1
    /\ p.defeated \subseteq Ids(v, p.visited \cap m.monsters)
    /\ p.completed => /\ m.treasure \in p.visited /\ Ids(v, m.monsters) \subseteq p.defeated
                      /\ m.image # NoImage => image # NoImage

\* What a handler has read is the map there is, unless a newer one was saved.
HasRead(r) ==
    pc[r] \in {"move", "defeat", "complete"} =>
        /\ job[r].version <= version
        /\ job[r].version = version /\ map # NoMap => job[r].map = map
        /\ pc[r] = "move" => job[r].target \in RoadOf(job[r].map)
        /\ pc[r] = "defeat" => job[r].target \in job[r].map.monsters

RowInv(u) == Fresh(u) => OnRoad(map, version, progress[u], treasure[u])

RoadInv ==
    /\ Typed /\ Dated
    /\ \A r \in Requests : HasRead(r)
    /\ \A u \in Users : RowInv(u)

LEMMA Symmetric ==
    ASSUME NEW a \in Cells, NEW b \in Cells
    PROVE  manhattan(a, b) = manhattan(b, a)
<1>1. a[1] \in Int /\ a[2] \in Int /\ b[1] \in Int /\ b[2] \in Int
  BY ConstantsOK DEF Cells
<1> QED
  BY <1>1 DEF manhattan

LEMMA OneCellConnected == ASSUME NEW c PROVE Connected({c})
<1>1. ASSUME NEW S \in SUBSET {c}, S # {}
      PROVE  S = {c}
  <2>1. c \in S
    BY <1>1
  <2> QED
    BY <2>1
<1> QED
  BY <1>1 DEF Connected

\* A cell next to one that is connected is connected with it.
LEMMA NextCellConnected ==
    ASSUME NEW V \in SUBSET Cells, Connected(V), NEW from \in V, NEW to \in Cells,
           manhattan(from, to) = 1
    PROVE  Connected(V \cup {to})
<1>1. CASE to \in V
  <2>1. V \cup {to} = V
    BY <1>1
  <2> QED
    BY <2>1
<1>2. CASE to \notin V
  <2> SUFFICES ASSUME NEW S \in SUBSET (V \cup {to}), S # {}, S # V \cup {to}
               PROVE  \E a \in S, b \in (V \cup {to}) \ S : manhattan(a, b) = 1
    BY DEF Connected
  <2>1. manhattan(to, from) = 1
    BY Symmetric
  <2>2. CASE S \cap V # {} /\ S \cap V # V
    <3> DEFINE T == S \cap V
    <3>1. T \subseteq V /\ T \subseteq S /\ \A b \in V \ T : b \in (V \cup {to}) \ S
      OBVIOUS
    <3>2. T # {} /\ T # V
      BY <2>2
    <3> HIDE DEF T
    <3>3. PICK a \in T, b \in V \ T : manhattan(a, b) = 1
      BY <3>1, <3>2 DEF Connected
    <3> QED
      BY <3>1, <3>3
  <2>3. CASE S \cap V = {}
    <3>1. to \in S /\ from \notin S
      BY <2>3
    <3> QED
      BY <2>1, <3>1
  <2>4. CASE S \cap V = V
    <3>1. to \notin S /\ from \in S
      BY <2>4
    <3> QED
      BY <3>1
  <2> QED
    BY <2>2, <2>3, <2>4
<1> QED
  BY <1>1, <1>2

\* A map has finitely many monsters, with as many ids.
LEMMA MonstersCounted ==
    ASSUME NEW l, Saved(l), NEW v
    PROVE  /\ IsFiniteSet(l.monsters) /\ IsFiniteSet(Ids(v, l.monsters))
           /\ Cardinality(Ids(v, l.monsters)) = Cardinality(l.monsters)
<1>1. IsFiniteSet(l.monsters)
  <2>1. IsFiniteSet(0 .. GridRows - 1) /\ IsFiniteSet(0 .. GridCols - 1)
    BY FS_Interval, ConstantsOK
  <2>2. IsFiniteSet(Cells)
    BY <2>1, FS_Product DEF Cells
  <2>3. l.monsters \subseteq Cells
    BY SavedMap
  <2> QED
    BY <2>2, <2>3, FS_Subset
<1> DEFINE M == l.monsters
           I == Ids(v, M)
           f == [cell \in M |-> MonsterId(v, cell)]
<1>2. f \in Bijection(M, I)
  <2>1. f \in [M -> I]
    BY DEF Ids
  <2>2. \A a, b \in M : f[a] = f[b] => a = b
    BY DEF MonsterId
  <2>3. \A i \in I : \E a \in M : f[a] = i
    BY DEF Ids
  <2> HIDE DEF f, M, I
  <2> QED
    BY <2>1, <2>2, <2>3 DEF Bijection, Injection, IsInjective, Surjection
<1> HIDE DEF f, I
<1>3. IsFiniteSet(I) /\ Cardinality(M) = Cardinality(I)
  BY <1>1, <1>2, FS_Bijection DEF ExistsBijection
<1> QED
  BY <1>1, <1>3 DEF I

\* The count of the transactions and the monsters that are shown agree: if only
\* monsters of this map are counted, as many as there are means all of them.
LEMMA AllCounted ==
    ASSUME NEW l, Saved(l), NEW v, NEW D, D \subseteq Ids(v, l.monsters)
    PROVE  ~(Cardinality(D) < Cardinality(l.monsters)) <=> Ids(v, l.monsters) \subseteq D
<1> DEFINE I == Ids(v, l.monsters)
<1>1. IsFiniteSet(I) /\ Cardinality(I) = Cardinality(l.monsters) /\ Cardinality(I) \in Nat
  BY MonstersCounted, FS_CardinalityType
<1> HIDE DEF I
<1>2. IsFiniteSet(D) /\ Cardinality(D) <= Cardinality(I) /\ Cardinality(D) \in Nat
      /\ (Cardinality(D) = Cardinality(I) => D = I)
  BY <1>1, FS_Subset, FS_CardinalityType DEF I
<1>3. I \subseteq D => D = I
  BY DEF I
<1> QED
  BY <1>1, <1>2, <1>3 DEF I

LEMMA FreshRow ==
    ASSUME Typed, NEW u \in Users, Fresh(u)
    PROVE  /\ progress[u] \in Progress /\ map # NoMap /\ Saved(map)
           /\ version \in 1 .. MaxVersion
  BY ConstantsOK DEF Fresh, Typed, TypeOK

\* A handler writes a fresh row only on the map there is, over a fresh row.
LEMMA WriterIsFresh ==
    ASSUME RoadInv, NEW r \in Requests, pc[r] \in {"move", "defeat", "complete"},
           map # NoMap, job[r].version = version
    PROVE  /\ job[r].map = map
           /\ pc[r] = "move" => job[r].target \in RoadOf(map)
           /\ pc[r] = "defeat" => job[r].target \in map.monsters
  BY DEF RoadInv, HasRead

LEMMA MoveOnRoad ==
    ASSUME RoadInv, NEW r \in Requests, MoveDungeon(r),
           NEW u \in Users, u = job[r].user, Fresh(u)'
    PROVE  OnRoad(map', version', progress'[u], treasure'[u])
<1> DEFINE j == job[r]
           p == From(j)
           new == Walked(p, j)
<1>1. /\ pc[r] = "move" /\ j \in Job /\ p \in Progress /\ ~p.completed
      /\ manhattan(p.pos, j.target) = 1 /\ map # NoMap /\ Saved(map)
      /\ Writes(u, new)
  BY MoveWrites DEF RoadInv, Typed
<1>2. UNCHANGED <<version, map, treasure>>
  BY DEF MoveDungeon
<1>3. /\ new \in Progress /\ new.prev = p.pos /\ new.pos = j.target
      /\ new.visited = p.visited \cup {j.target} /\ new.defeated = p.defeated
      /\ ~new.completed /\ new.maps = p.maps \cup {j.version}
  BY <1>1, WalkedRow
<1>4. progress'[u] = new
  BY <1>1 DEF Writes
<1>5. p.maps \cup {j.version} \subseteq {version}
  BY <1>2, <1>3, <1>4 DEF Fresh
<1>6. j.version = version
  BY <1>5
<1>7. j.map = map /\ j.target \in RoadOf(map)
  BY <1>1, <1>6, WriterIsFresh
<1>8. OnRoad(map, version, p, treasure[u])
  <2>1. CASE progress[u] # NoProgress
    <3>1. p = progress[u] /\ Fresh(u)
      BY <1>5, <2>1 DEF From, Fresh
    <3> QED
      BY <3>1 DEF RoadInv, RowInv
  <2>2. CASE progress[u] = NoProgress
    <3>1. /\ p.pos = map.start /\ p.prev = NoCell /\ p.defeated = {}
          /\ p.visited = {map.start}
      BY <1>7, <2>2 DEF From
    <3>2. map.start \in RoadOf(map)
      BY <1>1, SavedMap
    <3> HIDE DEF p
    <3> QED
      BY <1>1, <3>1, <3>2, OneCellConnected DEF OnRoad
  <2> QED
    BY <2>1, <2>2
<1>9. p.visited \in SUBSET Cells /\ j.target \in Cells /\ p.pos \in p.visited
  BY <1>1, <1>8, JobOf DEF Progress, OnRoad
<1> DEFINE V == p.visited
           W == new.visited
<1>10. Connected(W) /\ V \subseteq W /\ j.target \in W /\ W \subseteq RoadOf(map)
  <2> HIDE DEF p, j, new
  <2> QED
    BY <1>1, <1>3, <1>7, <1>8, <1>9, NextCellConnected DEF OnRoad
<1>11. Ids(version, V \cap map.monsters) \subseteq Ids(version, W \cap map.monsters)
  BY <1>10 DEF Ids
<1> HIDE DEF p, j, new
<1>12. OnRoad(map, version, new, treasure[u])
  BY <1>1, <1>3, <1>8, <1>9, <1>10, <1>11 DEF OnRoad
<1> QED
  BY <1>2, <1>4, <1>12

LEMMA FightOnRoad ==
    ASSUME RoadInv, NEW r \in Requests, CompleteDungeonMonster(r),
           NEW u \in Users, u = job[r].user, Fresh(u)'
    PROVE  OnRoad(map', version', progress'[u], treasure'[u])
<1> DEFINE j == job[r]
           p == progress[u]
           new == Fought(p, j)
           id == MonsterId(j.version, j.target)
<1>1. /\ pc[r] = "defeat" /\ j \in Job /\ p \in Progress /\ p.pos = j.target
      /\ Writes(u, new)
  BY FightWrites DEF RoadInv
<1>2. UNCHANGED <<version, map, treasure>>
  BY DEF CompleteDungeonMonster
<1>3. /\ new.prev = p.prev /\ new.pos = p.pos /\ new.visited = p.visited
      /\ new.defeated = p.defeated \cup {id} /\ new.completed = p.completed
      /\ new.maps = p.maps \cup {j.version}
  BY <1>1, FoughtRow
<1>4. progress'[u] = new
  BY <1>1 DEF Writes
<1>5. p.maps \cup {j.version} \subseteq {version}
  BY <1>2, <1>3, <1>4 DEF Fresh
<1>6. j.version = version /\ Fresh(u)
  BY <1>1, <1>5, MapsOK DEF Fresh
<1>7. map # NoMap /\ OnRoad(map, version, p, treasure[u])
  BY <1>6, FreshRow DEF RoadInv, RowInv
<1>8. j.target \in map.monsters /\ p.pos \in p.visited
  BY <1>1, <1>6, <1>7, WriterIsFresh DEF OnRoad
<1>9. id \in Ids(version, p.visited \cap map.monsters)
  BY <1>1, <1>6, <1>8 DEF Ids
<1> HIDE DEF p, j, new, id
<1>10. OnRoad(map, version, new, treasure[u])
  BY <1>3, <1>7, <1>9 DEF OnRoad
<1> QED
  BY <1>2, <1>4, <1>10

LEMMA CompleteOnRoad ==
    ASSUME RoadInv, NEW r \in Requests, CompleteDungeon(r),
           NEW u \in Users, u = job[r].user, Fresh(u)'
    PROVE  OnRoad(map', version', progress'[u], treasure'[u])
<1> DEFINE j == job[r]
           p == progress[u]
           new == Ended(p, j)
<1>1. /\ pc[r] = "complete" /\ j \in Job /\ p \in Progress /\ p.pos = j.map.treasure
      /\ ~MonstersRemain(p, map) /\ Writes(u, new)
  BY CompleteWrites DEF RoadInv
<1>2. version' = version /\ map' = map
  BY DEF CompleteDungeon
<1>3. /\ new.prev = p.prev /\ new.pos = p.pos /\ new.visited = p.visited
      /\ new.defeated = p.defeated /\ new.maps = p.maps \cup {j.version}
  BY <1>1, EndedRow
<1>4. progress'[u] = new
  BY <1>1 DEF Writes
<1>5. p.maps \cup {j.version} \subseteq {version}
  BY <1>2, <1>3, <1>4 DEF Fresh
<1>6. j.version = version /\ Fresh(u)
  BY <1>1, <1>5, MapsOK DEF Fresh
<1>7. map # NoMap /\ Saved(map) /\ OnRoad(map, version, p, treasure[u])
  BY <1>6, FreshRow DEF RoadInv, RowInv
<1>8. j.map = map
  BY <1>1, <1>6, <1>7, WriterIsFresh
<1>9. map.treasure \in p.visited
  BY <1>1, <1>7, <1>8 DEF OnRoad
<1>10. Ids(version, map.monsters) \subseteq p.defeated
  <2>1. p.defeated \subseteq Ids(version, map.monsters)
    BY <1>7 DEF OnRoad, Ids
  <2> QED
    BY <1>1, <1>7, <2>1, AllCounted DEF MonstersRemain
<1>11. map.image # NoImage => treasure'[u] # NoImage
  <2>1. treasure' = [treasure EXCEPT ![u] = Unlocked(@, j.map.image)]
    BY DEF CompleteDungeon
  <2>2. treasure'[u] = Unlocked(treasure[u], map.image)
    BY <1>8, <2>1 DEF RoadInv, Typed, TypeOK
  <2> QED
    BY <2>2 DEF Unlocked
<1> HIDE DEF p, j, new
<1>12. OnRoad(map, version, new, treasure'[u])
  BY <1>3, <1>7, <1>9, <1>10, <1>11 DEF OnRoad
<1> QED
  BY <1>2, <1>4, <1>12

\* A step that writes no row: whoever is fresh after it was, on the same map.
WritesNoRow ==
    \A u \in Users : Fresh(u)' =>
        Fresh(u) /\ UNCHANGED <<version, map, progress[u], treasure[u]>>

LEMMA SaveWritesNoRow ==
    ASSUME Typed, Dated, NewMap \/ Saving
    PROVE  WritesNoRow
<1>1. CASE \E l \in Layouts : CreateDungeon(l)
  BY <1>1 DEF CreateDungeon, WritesNoRow, Fresh, Typed, TypeOK
<1>2. CASE \E l \in Layouts : CommitUpdate(l)
  BY <1>2, OldRowIsStale DEF WritesNoRow
<1>3. CASE DeleteDungeon
  BY <1>3 DEF DeleteDungeon, WritesNoRow, Fresh
<1>4. CASE Saving
  BY <1>4 DEF Saving, UpdateDungeon, RollBackUpdate, WritesNoRow, Fresh
<1> QED
  BY <1>1, <1>2, <1>3, <1>4 DEF NewMap

LEMMA TablesKept ==
    ASSUME UNCHANGED tables PROVE WritesNoRow
  BY DEF tables, WritesNoRow, Fresh

\* Rows of the others when a handler or a retreat writes the row of w.
LEMMA OthersOnRoad ==
    ASSUME RoadInv, NEW w \in Users, NEW new, Writes(w, new),
           UNCHANGED <<version, map>>,
           \A u \in Users : u # w => treasure'[u] = treasure[u],
           Fresh(w)' => OnRoad(map', version', progress'[w], treasure'[w])
    PROVE  \A u \in Users : RowInv(u)'
<1>1. ASSUME NEW u \in Users, u # w
      PROVE  RowInv(u)'
  BY <1>1 DEF RoadInv, RowInv, Fresh, Writes
<1> QED
  BY <1>1 DEF RowInv

LEMMA RetreatOnRoad ==
    ASSUME RoadInv, NEW u \in Users, RetreatDungeon(u), Fresh(u)'
    PROVE  OnRoad(map', version', progress'[u], treasure'[u])
<1> DEFINE p == progress[u]
           new == Back(p)
<1>1. p \in Progress /\ p.prev # NoCell /\ Writes(u, new)
  BY RetreatWrites DEF RoadInv
<1>2. UNCHANGED <<version, map, treasure>>
  BY DEF RetreatDungeon
<1>3. /\ new.prev = NoCell /\ new.pos = p.prev /\ new.visited = p.visited
      /\ new.defeated = p.defeated /\ new.completed = p.completed /\ new.maps = p.maps
  BY <1>1, BackRow
<1>4. progress'[u] = new
  BY <1>1 DEF Writes
<1>5. Fresh(u)
  BY <1>1, <1>2, <1>3, <1>4, MapsOK DEF Fresh
<1>6. OnRoad(map, version, p, treasure[u])
  BY <1>5 DEF RoadInv, RowInv
<1> HIDE DEF p, new
<1>7. OnRoad(map, version, new, treasure[u])
  BY <1>1, <1>3, <1>6 DEF OnRoad
<1> QED
  BY <1>2, <1>4, <1>7

LEMMA RowStep ==
    ASSUME RoadInv, [Next]_vars
    PROVE  \A u \in Users : RowInv(u)'
<1>1. CASE WritesNoRow
  BY <1>1 DEF WritesNoRow, RoadInv, RowInv
<1>2. ASSUME NEW r \in Requests, MoveDungeon(r)
      PROVE  \A u \in Users : RowInv(u)'
  <2>w. PICK w \in Users : w = job[r].user
    BY <1>2, MoveWrites DEF RoadInv
  <2>1. \E new : Writes(w, new)
    BY <1>2, <2>w, MoveWrites DEF RoadInv
  <2>2. UNCHANGED <<version, map, treasure>>
    BY <1>2 DEF MoveDungeon
  <2> QED
    BY <1>2, <2>w, <2>1, <2>2, MoveOnRoad, OthersOnRoad
<1>3. ASSUME NEW r \in Requests, CompleteDungeonMonster(r)
      PROVE  \A u \in Users : RowInv(u)'
  <2>w. PICK w \in Users : w = job[r].user
    BY <1>3, FightWrites DEF RoadInv
  <2>1. \E new : Writes(w, new)
    BY <1>3, <2>w, FightWrites DEF RoadInv
  <2>2. UNCHANGED <<version, map, treasure>>
    BY <1>3 DEF CompleteDungeonMonster
  <2> QED
    BY <1>3, <2>w, <2>1, <2>2, FightOnRoad, OthersOnRoad
<1>4. ASSUME NEW r \in Requests, CompleteDungeon(r)
      PROVE  \A u \in Users : RowInv(u)'
  <2>w. PICK w \in Users : w = job[r].user
    BY <1>4, CompleteWrites DEF RoadInv
  <2>1. \E new : Writes(w, new)
    BY <1>4, <2>w, CompleteWrites DEF RoadInv
  <2>2. /\ UNCHANGED <<version, map>>
        /\ \A u \in Users : u # w => treasure'[u] = treasure[u]
    BY <1>4, <2>w DEF CompleteDungeon, RoadInv, Typed, TypeOK
  <2> QED
    BY <1>4, <2>w, <2>1, <2>2, CompleteOnRoad, OthersOnRoad
<1>5. ASSUME NEW u \in Users, RetreatDungeon(u)
      PROVE  \A w \in Users : RowInv(w)'
  <2>1. \E new : Writes(u, new)
    BY <1>5, RetreatWrites DEF RoadInv
  <2>2. UNCHANGED <<version, map, treasure>>
    BY <1>5 DEF RetreatDungeon
  <2> QED
    BY <1>5, <2>1, <2>2, RetreatOnRoad, OthersOnRoad
<1>6. CASE UNCHANGED tables
  BY <1>1, <1>6, TablesKept
<1>7. CASE NewMap \/ Saving
  BY <1>1, <1>7, SaveWritesNoRow DEF RoadInv
<1> QED
  BY <1>2, <1>3, <1>4, <1>5, <1>6, <1>7
     DEF Next, NewMap, Saving, vars, ReadForMove, ReadMonster, ReadForComplete, Read,
         AddXP, Refuse, Die

LEMMA ReaderStep ==
    ASSUME RoadInv, [Next]_vars, NEW q \in Requests
    PROVE  HasRead(q)'
<1>1. Typed /\ HasRead(q)
  BY DEF RoadInv
<1>2. pc[q] \in {"move", "defeat", "complete"} => job[q].version \in 1 .. MaxVersion
  BY <1>1, JobOf DEF Typed, Working
<1>v. version \in Nat /\ (version = 0 => map = NoMap)
  BY <1>1, ConstantsOK DEF Typed, TypeOK
<1>3. CASE UNCHANGED <<version, map>> /\ pc'[q] = pc[q] /\ job'[q] = job[q]
  BY <1>1, <1>3 DEF HasRead
<1>4. CASE pc'[q] \in {"idle", "award"}
  BY <1>4 DEF HasRead
<1>5. ASSUME NEW l \in Layouts, CreateDungeon(l) \/ CommitUpdate(l)
      PROVE  HasRead(q)'
  <2>1. /\ UNCHANGED <<pc, job>> /\ version' > version
    BY <1>5, <1>v DEF CreateDungeon, CommitUpdate
  <2>2. pc[q] \in {"move", "defeat", "complete"} =>
            job[q].version <= version' /\ job[q].version # version'
    <3> SUFFICES ASSUME pc[q] \in {"move", "defeat", "complete"}
                 PROVE  job[q].version <= version' /\ job[q].version # version'
      OBVIOUS
    <3>1. job[q].version <= version /\ job[q].version \in 1 .. MaxVersion /\ version' \in Nat
      BY <1>1, <1>2, <1>v, <1>5 DEF HasRead, CreateDungeon, CommitUpdate
    <3> QED
      BY <1>v, <2>1, <3>1
  <2> QED
    BY <1>1, <2>1, <2>2 DEF HasRead
<1>6. CASE DeleteDungeon \/ UpdateDungeon \/ RollBackUpdate
  BY <1>1, <1>6 DEF DeleteDungeon, UpdateDungeon, RollBackUpdate, HasRead
<1>7. ASSUME NEW r \in Requests, NEW step, NEW u, NEW cell, Read(r, step, u, cell),
             \/ step = "move" /\ cell \in RoadOf(map)
             \/ step = "defeat" /\ cell \in map.monsters
             \/ step = "complete"
      PROVE  HasRead(q)'
  <2>1. UNCHANGED <<version, map>> /\ version <= version
    BY <1>7, <1>v DEF Read, tables
  <2>2. CASE q = r
    <3> DEFINE new == [user |-> u, version |-> version, map |-> map, target |-> cell]
    <3>1. pc'[q] = step /\ job'[q] = new
      BY <1>1, <1>7, <2>2 DEF Read, Goto, Typed, TypeOK
    <3>2. new.version = version /\ new.map = map /\ new.target = cell
      OBVIOUS
    <3> HIDE DEF new
    <3> QED
      BY <1>7, <2>1, <3>1, <3>2 DEF HasRead
  <2>3. CASE q # r
    BY <1>1, <1>3, <1>7, <2>1, <2>3 DEF Read, Goto, Typed, TypeOK
  <2> QED
    BY <2>2, <2>3
<1>8. ASSUME NEW r \in Requests, NEW u \in Users,
             ReadForMove(r, u) \/ ReadMonster(r, u) \/ ReadForComplete(r, u)
      PROVE  HasRead(q)'
  BY <1>7, <1>8 DEF ReadForMove, ReadMonster, ReadForComplete, OnPath
<1>9. ASSUME NEW r \in Requests, End(r), UNCHANGED <<version, map>>
      PROVE  HasRead(q)'
  <2>1. pc'[r] = "idle" /\ (q # r => pc'[q] = pc[q] /\ job'[q] = job[q])
    BY <1>1, <1>9, EndKeeps
  <2> QED
    BY <1>3, <1>4, <1>9, <2>1
<1>10. ASSUME NEW r \in Requests,
              \/ MoveDungeon(r) \/ CompleteDungeonMonster(r)
              \/ AddXP(r) \/ Refuse(r) \/ Die(r)
       PROVE  HasRead(q)'
  BY <1>9, <1>10 DEF MoveDungeon, CompleteDungeonMonster, AddXP, Refuse, Die, tables
<1>11. ASSUME NEW r \in Requests, CompleteDungeon(r)
       PROVE  HasRead(q)'
  <2>1. /\ UNCHANGED <<version, map>> /\ pc'[r] = "award"
        /\ q # r => pc'[q] = pc[q] /\ job'[q] = job[q]
    BY <1>1, <1>11 DEF CompleteDungeon, Goto, Typed, TypeOK
  <2> QED
    BY <1>3, <1>4, <2>1
<1>12. CASE (\E u \in Users : RetreatDungeon(u)) \/ UNCHANGED vars
  BY <1>3, <1>12 DEF RetreatDungeon, vars, tables
<1> QED
  BY <1>5, <1>6, <1>8, <1>10, <1>11, <1>12 DEF Next

LEMMA RoadInit == ASSUME Init PROVE RoadInv
<1>1. Typed
  BY InitTyped
<1> QED
  BY <1>1, DatedInit DEF Init, RoadInv, HasRead, RowInv, Fresh

LEMMA RoadStep == ASSUME RoadInv, [Next]_vars PROVE RoadInv'
<1>1. Typed' /\ Dated'
  BY TypeStep, DatedStep DEF RoadInv
<1> QED
  BY <1>1, ReaderStep, RowStep DEF RoadInv

LEMMA ListedCompleted ==
    ASSUME NEW u \in Users, NEW row \in ListDungeons(u), row.completed
    PROVE  progress[u] # NoProgress /\ progress[u].completed
<1> DEFINE done == progress[u] # NoProgress /\ progress[u].completed
           begun == progress[u] # NoProgress
           count == Cardinality(map.monsters)
<1>1. row = [monsterCount |-> count, started |-> begun, completed |-> done]
  BY Zenon DEF ListDungeons
<1> HIDE DEF done, begun, count
<1>2. row.completed = done
  BY <1>1
<1>3. done
  BY <1>2
<1> QED
  BY <1>3 DEF done

\* What is shown of a row that is on the road, or of none.
LEMMA RowIsShown ==
    ASSUME RoadInv, NEW u \in Users, map # NoMap, progress[u] = NoProgress \/ Fresh(u)
    PROVE  LET shown == GetDungeon(u)
           IN  /\ progress[u] # NoProgress =>
                      (shown.left # {} <=> MonstersRemain(progress[u], map))
               /\ shown.pos \in shown.visited /\ shown.visited \subseteq RoadOf(map)
               /\ \A row \in ListDungeons(u) :
                      /\ row.completed => shown.left = {}
                      /\ row.completed /\ map.image # NoImage =>
                             ListUnlockedTreasures(u) # {}
<1> DEFINE shown == GetDungeon(u)
<1>1. Saved(map) /\ map.start \in RoadOf(map)
  BY SavedMap DEF RoadInv, Typed
<1>2. CASE progress[u] = NoProgress
  <2>1. shown.pos = map.start /\ shown.visited = {map.start}
    BY <1>2 DEF GetDungeon
  <2>2. \A row \in ListDungeons(u) : ~row.completed
    BY <1>2, ListedCompleted
  <2> HIDE DEF shown
  <2> QED
    BY <1>1, <1>2, <2>1, <2>2 DEF shown
<1>3. CASE progress[u] # NoProgress
  <2> DEFINE p == progress[u]
             I == Ids(version, map.monsters)
  <2>1. OnRoad(map, version, p, treasure[u])
    BY <1>3 DEF RoadInv, RowInv
  <2>2. /\ shown.pos = p.pos /\ shown.visited = p.visited
        /\ shown.left = {cell \in map.monsters : MonsterId(version, cell) \notin p.defeated}
    BY <1>3 DEF GetDungeon
  <2>3. p.defeated \subseteq I
    BY <2>1 DEF OnRoad, Ids
  <2>4. I \subseteq p.defeated <=> ~MonstersRemain(p, map)
    BY <1>1, <2>3, AllCounted DEF MonstersRemain
  <2>5. \A row \in ListDungeons(u) : row.completed => p.completed
    BY ListedCompleted
  <2> HIDE DEF shown, p
  <2>6. shown.left = {} <=> I \subseteq p.defeated
    BY <2>2 DEF Ids
  <2>7. /\ shown.left # {} <=> MonstersRemain(p, map)
        /\ shown.pos \in shown.visited /\ shown.visited \subseteq RoadOf(map)
    BY <2>1, <2>2, <2>4, <2>6 DEF OnRoad
  <2>8. ASSUME NEW row \in ListDungeons(u), row.completed
        PROVE  /\ shown.left = {}
               /\ map.image # NoImage => ListUnlockedTreasures(u) # {}
    BY <2>1, <2>5, <2>6, <2>8 DEF OnRoad, ListUnlockedTreasures
  <2> QED
    BY <2>7, <2>8 DEF shown, p
<1> QED
  BY <1>2, <1>3

\* Whatever is moved, fought, retreated from and replaced at once, a row written
\* from the map there is only has cells of its road, gap-free from the start,
\* and monsters met there; who completed it defeated all of them.
THEOREM NobodySkipsMonsters == Spec => []NoMonsterSkipped
<1>1. Init => RoadInv
  BY RoadInit
<1>2. RoadInv /\ [Next]_vars => RoadInv'
  BY RoadStep
<1>3. RoadInv => NoMonsterSkipped
  <2> SUFFICES ASSUME RoadInv PROVE NoMonsterSkipped
    OBVIOUS
  <2>1. \A u \in Users : Fresh(u) => OnRoad(map, version, progress[u], treasure[u])
    BY DEF RoadInv, RowInv
  <2>2. OnTheRoad
    BY <2>1 DEF OnRoad, OnTheRoad, Ids
  <2>3. ShownAsWalked
    BY RowIsShown DEF ShownAsWalked
  <2>4. ASSUME NEW u \in Users, Fresh(u) /\ progress[u].completed
        PROVE  /\ map.treasure \in progress[u].visited
               /\ AllDefeated(u)
               /\ map.image # NoImage => treasure[u] # NoImage
    BY <2>1, <2>4 DEF OnRoad, AllDefeated, Ids
  <2> QED
    BY <2>2, <2>3, <2>4 DEF NoMonsterSkipped
<1> QED
  BY <1>1, <1>2, <1>3, PTL DEF Spec
=============================================================================
