-------------------------- MODULE HiddenSecretProofs --------------------------
(***************************************************************************)
(* Proofs about a hidden secret, for any number of players, requests,      *)
(* shutters and pictures: types, the gallery, the shutters, the rewards.   *)
(***************************************************************************)
EXTENDS HiddenSecret, FiniteSetTheorems, TLAPS

Counts == [Kinds -> [Users -> [Boards -> Nat]]]

\* A reward is for the picture the secret has, so there must be one.
Boarded ==
    /\ secret # NoSecret => board \in Boards
    /\ \A r \in Requests : pc[r] # "idle" => board \in Boards

TypeInv == TypeOK /\ Boarded

LEMMA JobOf ==
    ASSUME TypeOK, NEW r \in Requests, pc[r] # "idle"
    PROVE  /\ job[r] \in Job /\ job[r].user \in Users /\ job[r].tile \in Tiles
           /\ job[r].image \in Images /\ job[r].board \in Boards
           /\ job[r].revealed \in SUBSET Tiles
  BY DEF TypeOK, Job

LEMMA RowOf ==
    ASSUME TypeOK, NEW u \in Users, progress[u] # NoProgress
    PROVE  /\ progress[u] \in Progress
           /\ progress[u].revealed \in SUBSET Tiles /\ progress[u].completed \in BOOLEAN
  BY DEF TypeOK, Progress

LEMMA CountsAre == ASSUME TypeOK PROVE paid \in Counts /\ lost \in Counts
  BY DEF TypeOK, Counts

LEMMA AwardCounts ==
    ASSUME NEW c \in Counts, NEW kinds, NEW r \in Requests, job[r] \in Job
    PROVE  Award(c, kinds, r) \in Counts
<1>1. job[r].user \in Users /\ job[r].board \in Boards
  BY DEF Job
<1>2. ASSUME NEW k \in Kinds
      PROVE  [c[k] EXCEPT ![job[r].user][job[r].board] = @ + 1]
                 \in [Users -> [Boards -> Nat]]
  BY <1>1 DEF Counts
<1>. QED
  BY <1>2 DEF Award, Counts

\* Whole tells by a number what the set says.
LEMMA WholeIsAll ==
    ASSUME NEW revealed \in SUBSET Tiles
    PROVE  Whole(revealed) <=> revealed = Tiles
<1>1. IsFiniteSet(Tiles) /\ Cardinality(Tiles) \in Nat
  BY ConstantsOK, FS_CardinalityType
<1>2. /\ Cardinality(revealed) \in Nat /\ Cardinality(revealed) <= Cardinality(Tiles)
      /\ Cardinality(revealed) = Cardinality(Tiles) => revealed = Tiles
  BY <1>1, FS_Subset, FS_CardinalityType
<1>. QED
  BY <1>1, <1>2 DEF Whole

LEMMA OneIsNotWhole == ASSUME NEW t \in Tiles PROVE ~Whole({t})
<1>1. Cardinality({t}) = 1 /\ Cardinality(Tiles) \in Nat
  BY ConstantsOK, FS_Singleton, FS_CardinalityType
<1>. QED
  BY <1>1, ConstantsOK DEF Whole

LEMMA EndKeeps ==
    ASSUME TypeOK, NEW r \in Requests, End(r)
    PROVE  /\ pc' \in [Requests -> PCs]
           /\ job' \in [Requests -> Job \cup {NoJob}] /\ pc'[r] = "idle"
           /\ \A s \in Requests : s # r => pc'[s] = pc[s] /\ job'[s] = job[s]
  BY DEF TypeOK, End, Goto, PCs

LEMMA GotoKeeps ==
    ASSUME TypeOK, NEW r \in Requests, NEW step \in PCs, Goto(r, step)
    PROVE  /\ pc' \in [Requests -> PCs] /\ pc'[r] = step
           /\ \A s \in Requests : s # r => pc'[s] = pc[s]
  BY DEF TypeOK, Goto

-----------------------------------------------------------------------------
(* Types *)

LEMMA InitTyped == ASSUME Init PROVE TypeInv
<1>1. /\ progress \in [Users -> Progress \cup {NoProgress}]
      /\ unlocks \in [Users -> Images \cup {NoImage}]
      /\ pc \in [Requests -> PCs] /\ job \in [Requests -> Job \cup {NoJob}]
      /\ secret = NoSecret /\ \A r \in Requests : pc[r] = "idle"
  BY DEF Init, PCs
<1>2. board \in 0 .. MaxBoards
  BY ConstantsOK DEF Init
<1>3. \A c \in {paid, lost} : c \in [Kinds -> [Users -> [Boards -> Nat]]]
  BY DEF Init, Nothing
<1>. QED
  BY <1>1, <1>2, <1>3 DEF TypeInv, TypeOK, Boarded

\* What stands between a handler's step and the whole of TypeInv.
LEMMA StepTyped ==
    ASSUME TypeInv, NEW r \in Requests,
           UNCHANGED <<secret, board>>, pc[r] # "idle" \/ secret # NoSecret,
           progress' \in [Users -> Progress \cup {NoProgress}],
           unlocks' \in [Users -> Images \cup {NoImage}],
           paid' \in Counts, lost' \in Counts,
           pc' \in [Requests -> PCs], job' \in [Requests -> Job \cup {NoJob}],
           \A s \in Requests : s # r => pc'[s] = pc[s] /\ job'[s] = job[s],
           pc'[r] # "idle" => job'[r] \in Job,
           pc'[r] = "write" => job'[r].tile \notin job'[r].revealed
    PROVE  TypeInv'
<1>1. \A s \in Requests : pc'[s] # "idle" =>
          job'[s] \in Job /\ (pc'[s] = "write" => job'[s].tile \notin job'[s].revealed)
  BY DEF TypeInv, TypeOK
<1>2. Boarded'
  BY DEF TypeInv, Boarded
<1>3. \A c \in {paid', lost'} : c \in [Kinds -> [Users -> [Boards -> Nat]]]
  BY DEF Counts
<1>. QED
  BY <1>1, <1>2, <1>3 DEF TypeInv, TypeOK

LEMMA AdminTyped ==
    ASSUME TypeInv, CreateHiddenSecret \/ UpdateHiddenSecret \/ DeleteHiddenSecret
    PROVE  TypeInv'
<1>1. CASE CreateHiddenSecret
  <2>1. board' \in Boards /\ board' \in 0 .. MaxBoards
    BY <1>1, ConstantsOK DEF CreateHiddenSecret, Boards
  <2>. QED
    BY <1>1, <2>1 DEF CreateHiddenSecret, TypeInv, TypeOK, Boarded
<1>2. CASE UpdateHiddenSecret
  <2>1. board' \in Boards /\ board' \in 0 .. MaxBoards
    BY <1>2, ConstantsOK DEF UpdateHiddenSecret, TypeInv, TypeOK, Boarded, Boards
  <2>2. progress' \in [Users -> Progress \cup {NoProgress}] /\ secret' \in Secret
    BY <1>2 DEF UpdateHiddenSecret, TypeInv, TypeOK
  <2>. QED
    BY <1>2, <2>1, <2>2 DEF UpdateHiddenSecret, TypeInv, TypeOK, Boarded
<1>3. CASE DeleteHiddenSecret
  BY <1>3 DEF DeleteHiddenSecret, TypeInv, TypeOK, Boarded, history
<1>. QED
  BY <1>1, <1>2, <1>3

LEMMA OpenTyped ==
    ASSUME TypeInv, NEW r \in Requests,
           \/ \E u \in Users, t \in Tiles : ReadSecret(r, u, t)
           \/ FirstReveal(r) \/ RowExists(r) \/ LockProgress(r)
           \/ Refuse(r) \/ RowIsGone(r)
    PROVE  TypeInv'
<1>. USE CountsAre DEF TypeInv
<1>1. ASSUME NEW u \in Users, NEW t \in Tiles, ReadSecret(r, u, t)
      PROVE  TypeInv'
  <2>1. job'[r] \in Job /\ job' \in [Requests -> Job \cup {NoJob}]
    BY <1>1 DEF ReadSecret, TypeOK, Job, Secret, Boarded
  <2>2. \A s \in Requests : s # r => job'[s] = job[s]
    BY <1>1 DEF ReadSecret, TypeOK
  <2>3. /\ pc' \in [Requests -> PCs] /\ pc'[r] = "ensure"
        /\ \A s \in Requests : s # r => pc'[s] = pc[s]
    BY <1>1, GotoKeeps DEF ReadSecret, PCs
  <2>4. UNCHANGED <<secret, progress, unlocks, board, paid, lost>> /\ secret # NoSecret
    BY <1>1 DEF ReadSecret, tables, history
  <2>. QED
    BY <2>1, <2>2, <2>3, <2>4, StepTyped DEF TypeOK
<1>2. CASE FirstReveal(r)
  <2>1. job[r].user \in Users /\ job[r].tile \in Tiles
    BY <1>2, JobOf DEF FirstReveal
  <2>2. [revealed |-> {job[r].tile}, completed |-> Whole({job[r].tile})] \in Progress
    BY <2>1 DEF Progress, Whole
  <2>3. progress' \in [Users -> Progress \cup {NoProgress}]
    BY <1>2, <2>1, <2>2 DEF FirstReveal, TypeOK
  <2>. QED
    BY <1>2, <2>3, EndKeeps, StepTyped DEF FirstReveal, TypeOK, history
<1>3. CASE RowExists(r)
  BY <1>3, JobOf, GotoKeeps, StepTyped DEF RowExists, TypeOK, PCs, tables, history
<1>4. CASE LockProgress(r)
  <2>1. job[r] \in Job /\ progress[job[r].user].revealed \in SUBSET Tiles
    BY <1>4, JobOf, RowOf DEF LockProgress
  <2>2. job'[r] \in Job /\ job'[r].tile \notin job'[r].revealed
    BY <1>4, <2>1 DEF LockProgress, Opened, TypeOK, Job
  <2>3. /\ job' \in [Requests -> Job \cup {NoJob}]
        /\ \A s \in Requests : s # r => job'[s] = job[s]
    BY <1>4, <2>1, <2>2 DEF LockProgress, TypeOK
  <2>. QED
    BY <1>4, <2>2, <2>3, GotoKeeps, StepTyped
       DEF LockProgress, TypeOK, PCs, tables, history
<1>5. CASE Refuse(r) \/ RowIsGone(r)
  BY <1>5, EndKeeps, StepTyped DEF Refuse, RowIsGone, TypeOK, tables, history
<1>. QED
  BY <1>1, <1>2, <1>3, <1>4, <1>5

LEMMA RevealTyped ==
    ASSUME TypeInv, NEW r \in Requests, RevealHiddenSecretTile(r)
    PROVE  TypeInv'
<1>. USE CountsAre DEF TypeInv
<1>. DEFINE j == job[r]
            revealed == j.revealed \cup {j.tile}
<1>1. /\ j \in Job /\ j.user \in Users /\ j.image \in Images
      /\ revealed \in SUBSET Tiles /\ board \in Boards
  BY JobOf DEF RevealHiddenSecretTile, Boarded
<1>2. progress' \in [Users -> Progress \cup {NoProgress}]
  <2>1. [revealed |-> revealed, completed |-> Whole(revealed)] \in Progress
    BY <1>1 DEF Progress, Whole
  <2>. QED
    BY <1>1, <2>1 DEF RevealHiddenSecretTile, TypeOK
<1>3. CASE Whole(revealed)
  <2>1. unlocks' \in [Users -> Images \cup {NoImage}]
    BY <1>1, <1>3 DEF RevealHiddenSecretTile, TypeOK
  <2>2. [j EXCEPT !.board = board] \in Job
    BY <1>1 DEF Job
  <2>3. job' = [job EXCEPT ![r] = [j EXCEPT !.board = board]]
    BY <1>3 DEF RevealHiddenSecretTile
  <2>4. /\ job' \in [Requests -> Job \cup {NoJob}] /\ job'[r] \in Job
        /\ \A s \in Requests : s # r => job'[s] = job[s]
    BY <2>2, <2>3 DEF TypeOK
  <2>5. /\ pc' \in [Requests -> PCs] /\ pc'[r] = "awardXP"
        /\ \A s \in Requests : s # r => pc'[s] = pc[s]
    BY <1>3, GotoKeeps DEF RevealHiddenSecretTile, PCs
  <2>6. UNCHANGED <<secret, board, paid, lost>> /\ pc[r] # "idle"
    BY DEF RevealHiddenSecretTile, history
  <2>. QED
    BY <1>2, <2>1, <2>4, <2>5, <2>6, StepTyped
<1>4. CASE ~Whole(revealed)
  BY <1>2, <1>4, EndKeeps, StepTyped DEF RevealHiddenSecretTile, TypeOK, history
<1>. QED
  BY <1>3, <1>4

LEMMA RewardTyped ==
    ASSUME TypeInv, NEW r \in Requests, AddXP(r) \/ AddUnlockPoints(r) \/ Die(r)
    PROVE  TypeInv'
<1>. USE DEF TypeInv
<1>1. pc[r] # "idle" /\ job[r] \in Job
  BY JobOf DEF AddXP, AddUnlockPoints, Die
<1>2. paid' \in Counts /\ lost' \in Counts
  BY <1>1, CountsAre, AwardCounts DEF AddXP, AddUnlockPoints, Die
<1>3. CASE AddXP(r)
  BY <1>1, <1>2, <1>3, GotoKeeps, StepTyped DEF AddXP, TypeOK, PCs, tables
<1>4. CASE AddUnlockPoints(r) \/ Die(r)
  BY <1>1, <1>2, <1>4, EndKeeps, StepTyped DEF AddUnlockPoints, Die, TypeOK, tables
<1>. QED
  BY <1>3, <1>4

LEMMA TypeStep == ASSUME TypeInv, [Next]_vars PROVE TypeInv'
<1>1. CASE UNCHANGED vars
  BY <1>1 DEF TypeInv, TypeOK, Boarded, vars, tables, history
<1>2. CASE Next
  BY <1>2, AdminTyped, OpenTyped, RevealTyped, RewardTyped DEF Next
<1>. QED
  BY <1>1, <1>2

\* The tables, the handlers and the rewards keep their types, and a handler
\* about to open a shutter found it closed.
THEOREM TypeCorrect == Spec => []TypeOK
<1>1. TypeInv /\ [Next]_vars => TypeInv'
  BY TypeStep
<1>2. Init => TypeInv
  BY InitTyped
<1>. QED
  BY <1>1, <1>2, PTL DEF Spec, TypeInv

-----------------------------------------------------------------------------
(* The gallery *)

GalleryInv == TypeInv /\ GalleryKept

LEMMA GalleryStep ==
    ASSUME GalleryInv, [Next]_vars
    PROVE  GalleryKept'
<1>. USE DEF GalleryInv, TypeInv
<1>1. SUFFICES ASSUME NEW u \in Users, progress'[u] # NoProgress
               PROVE  /\ progress'[u].completed <=> progress'[u].revealed = Tiles
                      /\ progress'[u].completed => unlocks'[u] # NoImage
  BY DEF GalleryKept
<1>2. CASE progress'[u] = progress[u] /\ unlocks'[u] = unlocks[u]
  BY <1>1, <1>2 DEF GalleryKept
<1>3. CASE CreateHiddenSecret \/ UpdateHiddenSecret \/ DeleteHiddenSecret
  BY <1>1, <1>2, <1>3 DEF CreateHiddenSecret, UpdateHiddenSecret, DeleteHiddenSecret
<1>4. ASSUME NEW r \in Requests, FirstReveal(r)
      PROVE  /\ progress'[u].completed <=> progress'[u].revealed = Tiles
             /\ progress'[u].completed => unlocks'[u] # NoImage
  <2>1. job[r].tile \in Tiles /\ job[r].user \in Users
    BY <1>4, JobOf DEF FirstReveal
  <2>2. ~Whole({job[r].tile}) /\ {job[r].tile} # Tiles
    BY <2>1, OneIsNotWhole, WholeIsAll
  <2>. QED
    BY <1>2, <1>4, <2>1, <2>2 DEF FirstReveal, TypeOK
<1>5. ASSUME NEW r \in Requests, RevealHiddenSecretTile(r)
      PROVE  /\ progress'[u].completed <=> progress'[u].revealed = Tiles
             /\ progress'[u].completed => unlocks'[u] # NoImage
  <2>. DEFINE j == job[r]
              revealed == j.revealed \cup {j.tile}
  <2>1. j.user \in Users /\ j.image \in Images /\ revealed \in SUBSET Tiles
    BY <1>5, JobOf DEF RevealHiddenSecretTile
  <2>2. Whole(revealed) <=> revealed = Tiles
    BY <2>1, WholeIsAll
  <2>3. CASE j.user = u
    <3>1. progress'[u] = [revealed |-> revealed, completed |-> Whole(revealed)]
      BY <1>5, <2>1, <2>3 DEF RevealHiddenSecretTile, TypeOK
    <3>2. Whole(revealed) => unlocks'[u] # NoImage
      BY <1>5, <2>1, <2>3, ConstantsOK DEF RevealHiddenSecretTile, TypeOK
    <3>. QED
      BY <2>2, <3>1, <3>2
  <2>4. CASE j.user # u
    BY <1>2, <1>5, <2>1, <2>4 DEF RevealHiddenSecretTile, TypeOK
  <2>. QED
    BY <2>3, <2>4
<1>6. CASE UNCHANGED tables
  BY <1>2, <1>6 DEF tables
<1>. QED
  BY <1>3, <1>4, <1>5, <1>6 DEF Next, vars, ReadSecret, RowExists, LockProgress,
     Refuse, RowIsGone, AddXP, AddUnlockPoints, Die, tables

LEMMA ListIsEarned == ASSUME GalleryInv PROVE ListedAsEarned
<1>. USE DEF GalleryInv, TypeInv
<1>1. SUFFICES ASSUME NEW u \in Users, NEW row \in ListHiddenSecrets(u)
               PROVE  /\ row.image # NoImage =>
                             /\ row.image = GetHiddenSecret(u).image
                             /\ GetHiddenSecret(u).revealed = Tiles
                             /\ ListUnlockedHiddenSecrets(u) # {}
                      /\ row.count = Cardinality(Tiles) =>
                             row.completed /\ row.image # NoImage
  BY DEF ListedAsEarned
<1>2. /\ secret \in Secret /\ secret.image \in Images
      /\ row.image = IF Completed(u) THEN secret.image ELSE NoImage
      /\ row.count = Cardinality(RevealedBy(u))
      /\ row.completed = Completed(u)
  BY <1>1 DEF ListHiddenSecrets, TypeOK, Secret
<1>3. RevealedBy(u) \in SUBSET Tiles
  BY RowOf DEF RevealedBy
<1>4. Cardinality(RevealedBy(u)) = Cardinality(Tiles) => RevealedBy(u) = Tiles
  BY <1>3, ConstantsOK, FS_Subset
<1>5. Tiles # {}
  BY ConstantsOK, FS_EmptySet
<1>6. RevealedBy(u) = Tiles <=> Completed(u)
  BY <1>3, <1>5 DEF RevealedBy, Completed, GalleryKept
<1>7. Completed(u) => unlocks[u] # NoImage
  BY DEF Completed, GalleryKept
<1>. QED
  BY <1>2, <1>4, <1>6, <1>7, ConstantsOK
     DEF GetHiddenSecret, ListUnlockedHiddenSecrets

\* A wall without a shutter left has a picture in the gallery, wherever a handler
\* dies, and the list names the picture of such a wall and of no other.  (The
\* board carries it from the start, and is not spoken of.)
THEOREM GalleryIsComplete == Spec => []WholeInGallery
<1>1. Init => GalleryInv
  BY InitTyped DEF GalleryInv, Init, GalleryKept
<1>2. GalleryInv /\ [Next]_vars => GalleryInv'
  BY GalleryStep, TypeStep DEF GalleryInv
<1>3. GalleryInv => WholeInGallery
  BY ListIsEarned DEF GalleryInv, WholeInGallery
<1>. QED
  BY <1>1, <1>2, <1>3, PTL DEF Spec

-----------------------------------------------------------------------------
(* The lock.  A reveal writes what it read under the lock, so nothing may    *)
(* touch the row while one holds it, and only one does.                      *)

NoOrphans == secret = NoSecret => \A u \in Users : progress[u] = NoProgress

OneWriter ==
    \A r, s \in Requests :
        pc[r] = "write" /\ pc[s] = "write" /\ job[r].user = job[s].user => r = s

Holds(r) ==
    LET p == progress[job[r].user]
    IN  /\ secret # NoSecret /\ p # NoProgress
        /\ p.revealed = job[r].revealed /\ ~p.completed

LockInv ==
    /\ TypeInv /\ NoOrphans /\ OneWriter
    /\ \A r \in Requests : pc[r] = "write" => Holds(r)

LEMMA OrphanStep ==
    ASSUME LockInv, [Next]_vars
    PROVE  NoOrphans'
<1>. USE DEF LockInv, NoOrphans
<1>1. CASE CreateHiddenSecret \/ UpdateHiddenSecret \/ DeleteHiddenSecret
  BY <1>1, NothingIsSomething
     DEF CreateHiddenSecret, UpdateHiddenSecret, DeleteHiddenSecret
<1>2. ASSUME NEW r \in Requests, FirstReveal(r) \/ RevealHiddenSecretTile(r)
      PROVE  secret' # NoSecret
  BY <1>2 DEF FirstReveal, RevealHiddenSecretTile, Holds
<1>3. CASE UNCHANGED tables
  BY <1>3 DEF tables
<1>. QED
  BY <1>1, <1>2, <1>3 DEF Next, vars, ReadSecret, RowExists, LockProgress,
     Refuse, RowIsGone, AddXP, AddUnlockPoints, Die

\* Who writes after a step locked in it or wrote before.
LEMMA Writers ==
    ASSUME LockInv, [Next]_vars, NEW r \in Requests, pc'[r] = "write"
    PROVE  \/ LockProgress(r)
           \/ pc[r] = "write" /\ job'[r] = job[r]
<1>. USE DEF LockInv, TypeInv, TypeOK
<1>1. CASE UNCHANGED <<pc, job>>
  BY <1>1
<1>2. ASSUME NEW s \in Requests,
             \/ \E u \in Users, t \in Tiles : ReadSecret(s, u, t)
             \/ RowExists(s) \/ RevealHiddenSecretTile(s) \/ AddXP(s)
             \/ FirstReveal(s) \/ Refuse(s) \/ RowIsGone(s)
             \/ AddUnlockPoints(s) \/ Die(s)
             \/ s # r /\ LockProgress(s)
      PROVE  s # r /\ pc'[r] = pc[r] /\ job'[r] = job[r]
  BY <1>2 DEF ReadSecret, RowExists, RevealHiddenSecretTile, AddXP, FirstReveal,
     Refuse, RowIsGone, AddUnlockPoints, Die, LockProgress, End, Goto
<1>. QED
  BY <1>1, <1>2 DEF Next, vars, CreateHiddenSecret, UpdateHiddenSecret,
     DeleteHiddenSecret

LEMMA WriterStep ==
    ASSUME LockInv, [Next]_vars
    PROVE  OneWriter'
<1>1. SUFFICES ASSUME NEW r \in Requests, NEW s \in Requests,
                      pc'[r] = "write", pc'[s] = "write",
                      job'[r].user = job'[s].user, r # s
               PROVE  FALSE
  BY DEF OneWriter
<1>2. ASSUME NEW q \in Requests, LockProgress(q)
      PROVE  /\ \A p \in Requests : job'[p].user = job[p].user
             /\ \A p \in Requests \ {q} : pc'[p] = pc[p]
             /\ \A p \in Requests : pc[p] = "write" => job[p].user # job[q].user
  <2>1. pc[q] # "idle" /\ job[q] \in Job
    BY <1>2, JobOf DEF LockProgress, LockInv, TypeInv
  <2>. QED
    BY <1>2, <2>1 DEF LockProgress, Locked, Goto, LockInv, TypeInv, TypeOK, Job
<1>3. CASE LockProgress(r)
  BY <1>1, <1>2, <1>3
<1>4. CASE LockProgress(s)
  BY <1>1, <1>2, <1>4
<1>5. CASE pc[r] = "write" /\ job'[r] = job[r] /\ pc[s] = "write" /\ job'[s] = job[s]
  BY <1>1, <1>5 DEF LockInv, OneWriter
<1>. QED
  BY <1>1, <1>3, <1>4, <1>5, Writers

LEMMA HoldStep ==
    ASSUME LockInv, [Next]_vars, NEW r \in Requests, pc'[r] = "write"
    PROVE  Holds(r)'
<1>. USE DEF LockInv, TypeInv
<1>1. CASE LockProgress(r)
  <2>1. pc[r] # "idle" /\ job[r] \in Job /\ job[r].user \in Users
    BY <1>1, JobOf DEF LockProgress
  <2>2. /\ job'[r].user = job[r].user
        /\ job'[r].revealed = progress[job[r].user].revealed
        /\ UNCHANGED <<secret, progress>>
    BY <1>1, <2>1 DEF LockProgress, tables, TypeOK, Job
  <2>3. secret # NoSecret
    BY <1>1, <2>1 DEF LockProgress, NoOrphans
  <2>. QED
    BY <1>1, <2>2, <2>3 DEF LockProgress, Opened, Holds
<1>2. CASE pc[r] = "write" /\ job'[r] = job[r]
  <2>1. Holds(r) /\ job[r].user \in Users
    BY <1>2, JobOf
  <2>2. CASE progress'[job[r].user] = progress[job[r].user] /\ secret' # NoSecret
    BY <1>2, <2>1, <2>2 DEF Holds
  <2>3. CASE CreateHiddenSecret \/ UpdateHiddenSecret \/ DeleteHiddenSecret
    <3>1. Locked(job[r].user)
      BY <1>2 DEF Locked
    <3>. QED
      BY <2>1, <2>2, <2>3, <3>1, NothingIsSomething DEF Holds, CreateHiddenSecret,
         UpdateHiddenSecret, DeleteHiddenSecret
  <2>4. ASSUME NEW s \in Requests, FirstReveal(s) \/ RevealHiddenSecretTile(s)
        PROVE  progress'[job[r].user] = progress[job[r].user] /\ secret' # NoSecret
    <3>1. job[s].user # job[r].user
      <4>1. CASE FirstReveal(s)
        BY <2>1, <4>1 DEF FirstReveal, Holds
      <4>2. CASE RevealHiddenSecretTile(s)
        <5>1. s # r
          BY <4>2 DEF RevealHiddenSecretTile, End, Goto, TypeOK
        <5>. QED
          BY <1>2, <4>2, <5>1 DEF RevealHiddenSecretTile, OneWriter
      <4>. QED
        BY <2>4, <4>1, <4>2
    <3>. QED
      BY <2>1, <2>4, <3>1 DEF FirstReveal, RevealHiddenSecretTile, Holds, TypeOK
  <2>5. CASE UNCHANGED tables
    BY <2>1, <2>2, <2>5 DEF tables, Holds
  <2>. QED
    BY <2>2, <2>3, <2>4, <2>5 DEF Next, vars, ReadSecret, RowExists, LockProgress,
       Refuse, RowIsGone, AddXP, AddUnlockPoints, Die
<1>. QED
  BY <1>1, <1>2, Writers

LEMMA LockStep == ASSUME LockInv, [Next]_vars PROVE LockInv'
  BY TypeStep, OrphanStep, WriterStep, HoldStep DEF LockInv

LEMMA LockInit == ASSUME Init PROVE LockInv
  BY InitTyped DEF Init, LockInv, NoOrphans, OneWriter

KeepsTiles ==
    \A u \in Users :
        \/ secret' = NoSecret
        \/ /\ unlocks[u] # NoImage => unlocks'[u] = unlocks[u]
           /\ progress[u] # NoProgress /\ secret'.image = secret.image =>
                  /\ progress'[u] # NoProgress
                  /\ progress[u].revealed \subseteq progress'[u].revealed

LEMMA TilesStep ==
    ASSUME LockInv, [Next]_vars
    PROVE  KeepsTiles
<1>. USE DEF LockInv, TypeInv, KeepsTiles
<1>1. CASE CreateHiddenSecret \/ UpdateHiddenSecret \/ DeleteHiddenSecret
  BY <1>1 DEF CreateHiddenSecret, UpdateHiddenSecret, DeleteHiddenSecret, Replaces
<1>2. ASSUME NEW r \in Requests, FirstReveal(r)
      PROVE  KeepsTiles
  BY <1>2 DEF FirstReveal, TypeOK
<1>3. ASSUME NEW r \in Requests, RevealHiddenSecretTile(r)
      PROVE  KeepsTiles
  <2>1. job[r].user \in Users /\ Holds(r)
    BY <1>3, JobOf DEF RevealHiddenSecretTile
  <2>2. \A u \in Users : unlocks[u] # NoImage => unlocks'[u] = unlocks[u]
    BY <1>3, <2>1 DEF RevealHiddenSecretTile, TypeOK
  <2>3. \A u \in Users : progress[u] # NoProgress =>
            progress'[u] # NoProgress /\ progress[u].revealed \subseteq progress'[u].revealed
    <3>1. progress'[job[r].user] \in Progress
          /\ progress'[job[r].user].revealed = job[r].revealed \cup {job[r].tile}
      BY <1>3, <2>1, JobOf, SMTT(30) DEF RevealHiddenSecretTile, TypeOK, Progress, Whole
    <3>. QED
      BY <1>3, <2>1, <3>1, NothingIsSomething DEF RevealHiddenSecretTile, Holds, TypeOK
  <2>. QED
    BY <2>2, <2>3
<1>4. CASE UNCHANGED tables
  BY <1>4 DEF tables
<1>. QED
  BY <1>1, <1>2, <1>3, <1>4 DEF Next, vars, ReadSecret, RowExists, LockProgress,
     Refuse, RowIsGone, AddXP, AddUnlockPoints, Die

\* No reveal, administrator's edit or failure closes a shutter of the picture
\* that is up, nor takes a picture out of a gallery, short of a deletion.
THEOREM RevealsAreKept == Spec => TilesAreKept
<1>1. LockInv /\ [Next]_vars => LockInv'
  BY LockStep
<1>2. LockInv /\ [Next]_vars => [KeepsTiles]_vars
  BY TilesStep
<1>3. [KeepsTiles]_vars <=>
      [\A u \in Users :
         \/ secret' = NoSecret
         \/ /\ unlocks[u] # NoImage => unlocks'[u] = unlocks[u]
            /\ progress[u] # NoProgress /\ secret'.image = secret.image =>
                   /\ progress'[u] # NoProgress
                   /\ progress[u].revealed \subseteq progress'[u].revealed]_vars
  BY DEF KeepsTiles
<1>4. Init => LockInv
  BY LockInit
<1>. QED
  BY <1>1, <1>2, <1>3, <1>4, PTL DEF Spec, TilesAreKept

-----------------------------------------------------------------------------
(* The rewards, without counting: none is due yet, or it is given, which     *)
(* means settled, or owed by exactly one handler.                            *)

Owes(r, k, u, b) == pc[r] \in Owing(k) /\ job[r].user = u /\ job[r].board = b

Settled(k, u, b) == paid[k][u][b] + lost[k][u][b]

NoneYet(k, u, b) ==
    Settled(k, u, b) = 0 /\ \A r \in Requests : ~Owes(r, k, u, b)

Given(k, u, b) ==
    \/ Settled(k, u, b) = 1 /\ \A r \in Requests : ~Owes(r, k, u, b)
    \/ /\ Settled(k, u, b) = 0
       /\ \E r \in Requests : \A s \in Requests : Owes(s, k, u, b) <=> s = r

Awards(k, u, b) ==
    /\ NoneYet(k, u, b) \/ Given(k, u, b)
    /\ b > board => NoneYet(k, u, b)
    /\ b = board /\ secret # NoSecret => (Given(k, u, b) <=> Completed(u))

AwardInv ==
    LockInv /\ \A k \in Kinds, u \in Users, b \in Boards : Awards(k, u, b)

LEMMA CountAwards == ASSUME AwardInv PROVE AwardedOnce
<1>1. SUFFICES ASSUME NEW u \in Users, NEW b \in Boards, NEW k \in Kinds
               PROVE  LET awards == paid[k][u][b] + lost[k][u][b]
                              + Cardinality({r \in Requests : Owes(r, k, u, b)})
                      IN  /\ awards <= 1
                          /\ b = board /\ secret # NoSecret =>
                                 (awards = 1 <=> Completed(u))
  BY DEF AwardedOnce, Owes, Completed
<1>. DEFINE owing == {r \in Requests : Owes(r, k, u, b)}
<1>2. Awards(k, u, b)
  BY DEF AwardInv
<1>3. ASSUME \A r \in Requests : ~Owes(r, k, u, b)
      PROVE  Cardinality(owing) = 0
  <2>1. owing = {}
    BY <1>3
  <2>. QED
    BY <2>1, FS_EmptySet
<1>4. ASSUME NEW r \in Requests, \A s \in Requests : Owes(s, k, u, b) <=> s = r
      PROVE  Cardinality(owing) = 1
  <2>1. owing = {r}
    BY <1>4
  <2>. QED
    BY <2>1, FS_Singleton
<1>5. NoneYet(k, u, b) => Settled(k, u, b) + Cardinality(owing) = 0
  BY <1>3 DEF NoneYet
<1>6. Given(k, u, b) => Settled(k, u, b) + Cardinality(owing) = 1
  BY <1>3, <1>4 DEF Given
<1>. QED
  BY <1>2, <1>5, <1>6 DEF Awards, Settled

LEMMA AwardsInit == ASSUME Init PROVE AwardInv
<1>1. ASSUME NEW k \in Kinds, NEW u \in Users, NEW b \in Boards
      PROVE  Awards(k, u, b)
  <2>1. NoneYet(k, u, b)
    BY DEF Init, Nothing, NoneYet, Settled, Owes, Owing
  <2>2. secret = NoSecret
    BY DEF Init
  <2>. QED
    BY <2>1, <2>2 DEF Awards
<1>. QED
  BY <1>1, LockInit DEF AwardInv

\* A step that moves no debt and no balance, and changes neither the board nor
\* who has completed it.
LEMMA Unaffected ==
    ASSUME NEW k, NEW u, NEW b, Awards(k, u, b),
           \A r \in Requests : Owes(r, k, u, b)' <=> Owes(r, k, u, b),
           Settled(k, u, b)' = Settled(k, u, b),
           UNCHANGED board, secret' # NoSecret => secret # NoSecret,
           secret' # NoSecret => (Completed(u)' <=> Completed(u))
    PROVE  Awards(k, u, b)'
<1>1. (NoneYet(k, u, b)' <=> NoneYet(k, u, b)) /\ (Given(k, u, b)' <=> Given(k, u, b))
  BY DEF NoneYet, Given
<1>. QED
  BY <1>1 DEF Awards

LEMMA AdminAwards ==
    ASSUME AwardInv, NEW k \in Kinds, NEW u \in Users, NEW b \in Boards,
           CreateHiddenSecret \/ UpdateHiddenSecret \/ DeleteHiddenSecret
    PROVE  Awards(k, u, b)'
<1>1. Awards(k, u, b) /\ UNCHANGED <<pc, job, paid, lost>>
  BY DEF AwardInv, CreateHiddenSecret, UpdateHiddenSecret, DeleteHiddenSecret, history
<1>2. /\ \A r \in Requests : Owes(r, k, u, b)' <=> Owes(r, k, u, b)
      /\ Settled(k, u, b)' = Settled(k, u, b)
  BY <1>1 DEF Owes, Settled
<1>3. (NoneYet(k, u, b)' <=> NoneYet(k, u, b)) /\ (Given(k, u, b)' <=> Given(k, u, b))
  BY <1>2 DEF NoneYet, Given
<1>4. NoneYet(k, u, b) => ~Given(k, u, b)
  BY DEF NoneYet, Given
<1>5. CASE board' = board + 1 /\ progress'[u] = NoProgress
  <2>1. board \in Nat /\ b \in Nat
    BY DEF AwardInv, LockInv, TypeInv, TypeOK, Boards
  <2>. QED
    BY <1>1, <1>3, <1>4, <1>5, <2>1 DEF Awards, Completed
<1>6. CASE /\ UNCHANGED board
           /\ secret' # NoSecret => secret # NoSecret
           /\ secret' # NoSecret => progress'[u] = progress[u]
  <2>1. secret' # NoSecret => (Completed(u)' <=> Completed(u))
    BY <1>6 DEF Completed
  <2>. QED
    BY <1>1, <1>2, <1>6, <2>1, Unaffected
<1>7. CASE CreateHiddenSecret
  <2>1. secret = NoSecret
    BY <1>7 DEF CreateHiddenSecret, AwardInv, LockInv, TypeInv, Boarded, Boards
  <2>. QED
    BY <1>5, <1>7, <2>1 DEF CreateHiddenSecret, AwardInv, LockInv, NoOrphans
<1>8. CASE UpdateHiddenSecret
  BY <1>5, <1>6, <1>8 DEF UpdateHiddenSecret
<1>9. CASE DeleteHiddenSecret
  BY <1>6, <1>9 DEF DeleteHiddenSecret, history
<1>. QED
  BY <1>7, <1>8, <1>9

LEMMA OpenAwards ==
    ASSUME AwardInv, NEW k \in Kinds, NEW u \in Users, NEW b \in Boards,
           NEW r \in Requests,
           \/ \E v \in Users, t \in Tiles : ReadSecret(r, v, t)
           \/ FirstReveal(r) \/ RowExists(r) \/ LockProgress(r)
           \/ Refuse(r) \/ RowIsGone(r)
    PROVE  Awards(k, u, b)'
<1>. USE DEF AwardInv, LockInv, TypeInv
<1>1. \A s \in Requests : Owes(s, k, u, b)' <=> Owes(s, k, u, b)
  BY DEF ReadSecret, FirstReveal, RowExists, LockProgress, Refuse, RowIsGone,
     End, Goto, Owes, Owing, TypeOK
<1>2. UNCHANGED <<secret, board, paid, lost>>
  BY DEF ReadSecret, FirstReveal, RowExists, LockProgress, Refuse, RowIsGone,
     tables, history
<1>3. Completed(u)' <=> Completed(u)
  <2>1. CASE FirstReveal(r)
    <3>1. job[r].user \in Users /\ job[r].tile \in Tiles
      BY <2>1, JobOf DEF FirstReveal
    <3>2. ~Whole({job[r].tile})
      BY <3>1, OneIsNotWhole
    <3>. QED
      BY <2>1, <3>1, <3>2 DEF FirstReveal, Completed, TypeOK
  <2>2. CASE UNCHANGED progress
    BY <2>2 DEF Completed
  <2>. QED
    BY <2>1, <2>2 DEF ReadSecret, RowExists, LockProgress, Refuse, RowIsGone, tables
<1>. QED
  BY <1>1, <1>2, <1>3, Unaffected DEF Settled

LEMMA RevealAwards ==
    ASSUME AwardInv, NEW k \in Kinds, NEW u \in Users, NEW b \in Boards,
           NEW r \in Requests, RevealHiddenSecretTile(r)
    PROVE  Awards(k, u, b)'
<1>. USE DEF AwardInv, LockInv, TypeInv
<1>. DEFINE j == job[r]
            revealed == j.revealed \cup {j.tile}
<1>1. /\ j \in Job /\ j.user \in Users /\ ~Completed(j.user) /\ secret # NoSecret
      /\ Awards(k, u, b)
  BY JobOf DEF RevealHiddenSecretTile, Holds, Completed
<1>2. UNCHANGED <<secret, board, paid, lost>>
  BY DEF RevealHiddenSecretTile, history
<1>3. /\ ~Owes(r, k, u, b)
      /\ \A s \in Requests : s # r => (Owes(s, k, u, b)' <=> Owes(s, k, u, b))
  BY DEF RevealHiddenSecretTile, End, Goto, Owes, Owing, TypeOK
<1>4. Completed(u)' <=> Completed(u) \/ (u = j.user /\ Whole(revealed))
  <2>1. CASE u = j.user
    <3>1. progress'[u] = [revealed |-> revealed, completed |-> Whole(revealed)]
      BY <1>1, <2>1 DEF RevealHiddenSecretTile, TypeOK
    <3>2. progress'[u] # NoProgress
      <4>1. revealed \in SUBSET Tiles
        BY <1>1, JobOf DEF RevealHiddenSecretTile
      <4>2. progress'[u] \in Progress
        BY <3>1, <4>1 DEF Progress, Whole
      <4>. QED
        BY <4>2, NothingIsSomething
    <3>. QED
      BY <1>1, <2>1, <3>1, <3>2 DEF Completed
  <2>2. CASE u # j.user
    BY <1>1, <2>2 DEF RevealHiddenSecretTile, Completed, TypeOK
  <2>. QED
    BY <2>1, <2>2
<1>5. Owes(r, k, u, b)' <=> u = j.user /\ b = board /\ Whole(revealed)
  <2>1. CASE Whole(revealed)
    <3>1. job' = [job EXCEPT ![r] = [j EXCEPT !.board = board]]
      BY <2>1 DEF RevealHiddenSecretTile
    <3>2. job'[r].user = j.user /\ job'[r].board = board
      BY <1>1, <3>1 DEF TypeOK, Job
    <3>3. pc'[r] = "awardXP"
      BY <2>1 DEF RevealHiddenSecretTile, Goto, TypeOK
    <3>. QED
      BY <2>1, <3>2, <3>3 DEF Owes, Owing
  <2>2. CASE ~Whole(revealed)
    BY <2>2 DEF RevealHiddenSecretTile, End, Goto, Owes, Owing, TypeOK
  <2>. QED
    BY <2>1, <2>2
<1>6. Settled(k, u, b)' = Settled(k, u, b)
  BY <1>2 DEF Settled
<1>7. CASE u = j.user /\ b = board /\ Whole(revealed)
  <2>1. NoneYet(k, u, b)
    BY <1>1, <1>7 DEF Awards
  <2>2. Given(k, u, b)'
    BY <1>3, <1>5, <1>6, <1>7, <2>1 DEF NoneYet, Given
  <2>3. board \in Nat
    BY DEF TypeOK
  <2>. QED
    BY <1>2, <1>4, <1>7, <2>2, <2>3 DEF Awards
<1>8. CASE ~(u = j.user /\ b = board /\ Whole(revealed))
  <2>1. /\ \A s \in Requests : Owes(s, k, u, b)' <=> Owes(s, k, u, b)
        /\ (NoneYet(k, u, b)' <=> NoneYet(k, u, b))
        /\ (Given(k, u, b)' <=> Given(k, u, b))
    BY <1>3, <1>5, <1>6, <1>8 DEF NoneYet, Given
  <2>. QED
    BY <1>1, <1>2, <1>4, <1>8, <2>1 DEF Awards
<1>. QED
  BY <1>7, <1>8

LEMMA AwardValue ==
    ASSUME NEW c \in Counts, NEW kinds, NEW r \in Requests, job[r] \in Job,
           NEW k \in Kinds, NEW u \in Users, NEW b \in Boards
    PROVE  Award(c, kinds, r)[k][u][b] =
               IF k \in kinds /\ u = job[r].user /\ b = job[r].board
               THEN c[k][u][b] + 1 ELSE c[k][u][b]
<1>1. job[r].user \in Users /\ job[r].board \in Boards /\ c[k] \in [Users -> [Boards -> Nat]]
  BY DEF Job, Counts
<1>2. Award(c, kinds, r)[k] =
          IF k \in kinds THEN [c[k] EXCEPT ![job[r].user][job[r].board] = @ + 1] ELSE c[k]
  BY DEF Award
<1>. QED
  BY <1>1, <1>2

\* A handler that settles a reward owed it, alone, and owes it no more.
LEMMA SettleAwards ==
    ASSUME AwardInv, NEW k \in Kinds, NEW u \in Users, NEW b \in Boards,
           NEW r \in Requests, AddXP(r) \/ AddUnlockPoints(r) \/ Die(r)
    PROVE  Awards(k, u, b)'
<1>. USE DEF AwardInv, LockInv, TypeInv
<1>1. pc[r] # "idle" /\ job[r] \in Job /\ Awards(k, u, b)
  BY JobOf DEF AddXP, AddUnlockPoints, Die
<1>2. UNCHANGED <<secret, progress, board>>
  BY DEF AddXP, AddUnlockPoints, Die, tables
<1>3. \A s \in Requests : s # r => (Owes(s, k, u, b)' <=> Owes(s, k, u, b))
  BY DEF AddXP, AddUnlockPoints, Die, End, Goto, Owes, TypeOK
<1>4. /\ paid \in Counts /\ lost \in Counts
      /\ paid[k][u][b] \in Nat /\ lost[k][u][b] \in Nat
  BY CountsAre DEF Counts
<1>5. \/ /\ Owes(r, k, u, b) /\ ~Owes(r, k, u, b)'
         /\ Settled(k, u, b)' = Settled(k, u, b) + 1
      \/ /\ Owes(r, k, u, b)' <=> Owes(r, k, u, b)
         /\ Settled(k, u, b)' = Settled(k, u, b)
  <2>1. CASE AddXP(r)
    <3>1. pc'[r] = "awardPoints" /\ job' = job
      BY <2>1 DEF AddXP, Goto, TypeOK
    <3>2. \/ paid' = Award(paid, {"xp"}, r) /\ lost' = lost
          \/ lost' = Award(lost, {"xp"}, r) /\ paid' = paid
      BY <2>1 DEF AddXP
    <3>3. Settled(k, u, b)' = IF k = "xp" /\ u = job[r].user /\ b = job[r].board
                              THEN Settled(k, u, b) + 1 ELSE Settled(k, u, b)
      BY <1>1, <1>4, <3>2, AwardValue DEF Settled
    <3>. QED
      BY <2>1, <3>1, <3>3 DEF AddXP, Owes, Owing
  <2>2. CASE AddUnlockPoints(r)
    <3>1. pc'[r] = "idle" /\ pc[r] = "awardPoints"
      BY <2>2 DEF AddUnlockPoints, End, Goto, TypeOK
    <3>2. paid' = Award(paid, {"points"}, r) /\ lost' = lost
      BY <2>2 DEF AddUnlockPoints
    <3>3. Settled(k, u, b)' = IF k = "points" /\ u = job[r].user /\ b = job[r].board
                              THEN Settled(k, u, b) + 1 ELSE Settled(k, u, b)
      BY <1>1, <1>4, <3>2, AwardValue DEF Settled
    <3>. QED
      BY <3>1, <3>3 DEF Owes, Owing, Kinds
  <2>3. CASE Die(r)
    <3>1. pc'[r] = "idle"
      BY <2>3 DEF Die, End, Goto, TypeOK
    <3>2. lost' = Award(lost, {q \in Kinds : pc[r] \in Owing(q)}, r) /\ paid' = paid
      BY <2>3 DEF Die
    <3>3. Settled(k, u, b)' = IF Owes(r, k, u, b)
                              THEN Settled(k, u, b) + 1 ELSE Settled(k, u, b)
      BY <1>1, <1>4, <3>2, AwardValue DEF Settled, Owes
    <3>. QED
      BY <3>1, <3>3 DEF Owes, Owing
  <2>. QED
    BY <2>1, <2>2, <2>3
<1>6. CASE /\ Owes(r, k, u, b)' <=> Owes(r, k, u, b)
           /\ Settled(k, u, b)' = Settled(k, u, b)
  BY <1>1, <1>2, <1>3, <1>6, Unaffected DEF Completed
<1>7. CASE /\ Owes(r, k, u, b) /\ ~Owes(r, k, u, b)'
           /\ Settled(k, u, b)' = Settled(k, u, b) + 1
  <2>1. /\ ~NoneYet(k, u, b) /\ Given(k, u, b) /\ Settled(k, u, b) = 0
        /\ \A s \in Requests : Owes(s, k, u, b) <=> s = r
    BY <1>1, <1>7 DEF Awards, NoneYet, Given
  <2>2. Given(k, u, b)'
    BY <1>3, <1>7, <2>1 DEF Given
  <2>. QED
    BY <1>1, <1>2, <2>1, <2>2 DEF Awards, Completed
<1>. QED
  BY <1>5, <1>6, <1>7

LEMMA AwardStep == ASSUME AwardInv, [Next]_vars PROVE AwardInv'
<1>1. SUFFICES ASSUME NEW k \in Kinds, NEW u \in Users, NEW b \in Boards
               PROVE  Awards(k, u, b)'
  BY LockStep DEF AwardInv
<1>2. CASE UNCHANGED vars
  <2>1. UNCHANGED <<secret, progress, board, pc, job, paid, lost>>
    BY <1>2 DEF vars, tables, history
  <2>. QED
    BY <2>1, Unaffected DEF AwardInv, Owes, Settled, Completed
<1>3. CASE Next
  BY <1>3, AdminAwards, OpenAwards, RevealAwards, SettleAwards DEF Next
<1>. QED
  BY <1>2, <1>3

\* However many reveals finish a picture at once, and wherever they fail, each
\* of its two rewards is credited, lost or owed once; a picture not uncovered
\* pays none.
THEOREM AwardsComeOnce == Spec => []AwardedOnce
<1>1. Init => AwardInv
  BY AwardsInit
<1>2. AwardInv /\ [Next]_vars => AwardInv'
  BY AwardStep
<1>3. AwardInv => AwardedOnce
  BY CountAwards
<1>. QED
  BY <1>1, <1>2, <1>3, PTL DEF Spec
=============================================================================
