----------------------------- MODULE HiddenSecret -----------------------------
(***************************************************************************)
(* A hidden secret: a picture behind shutters, which a player opens one by *)
(* one; the last one pays XP and points and puts the picture into the      *)
(* player's gallery.                                                       *)
(*                                                                         *)
(* A reveal reads the secret, then opens a transaction that makes sure     *)
(* there is a progress row, locks it, and writes it.  Where it inserts the *)
(* row itself, or the administrator's transaction holds the secret's row,  *)
(* all it can do to others is make them wait, so those are one step; the   *)
(* steps on a row that was there before are apart, with their lock.        *)
(***************************************************************************)
EXTENDS Integers, FiniteSets

CONSTANTS
    Users, Requests,
    Tiles,          \* the shutters: 0 .. 8
    Images,         \* pictures of the library
    MaxBoards,      \* bound on the pictures the secret is given
    NoSecret, NoProgress, NoImage, NoJob

ASSUME ConstantsOK ==
    /\ IsFiniteSet(Tiles) /\ Cardinality(Tiles) > 1
    /\ MaxBoards \in Nat \ {0}
    /\ NoImage \notin Images

Boards   == 1 .. MaxBoards
Secret   == [image : Images, active : BOOLEAN]
Progress == [revealed : SUBSET Tiles, completed : BOOLEAN]
Kinds    == {"xp", "points"}
PCs      == {"idle", "ensure", "lock", "write", "awardXP", "awardPoints"}
Job      == [user : Users, tile : Tiles, image : Images, board : Boards,
             revealed : SUBSET Tiles]

ASSUME NothingIsSomething ==
    /\ NoSecret \notin Secret /\ NoProgress \notin Progress /\ NoJob \notin Job

VARIABLES
    secret,     \* hidden_secrets
    progress,   \* hidden_secret_progress, by user
    unlocks,    \* hidden_secret_unlocks, by user: the picture in the gallery
    pc, job,    \* each handler's next step and what it has read
    board,      \* history: the pictures the secret has had so far
    paid,       \* users.xp and unlock_points, in rewards and by board ...
    lost        \* ... and history: the rewards a failure took

tables  == <<secret, progress, unlocks>>
history == <<board, paid, lost>>
vars    == <<tables, pc, job, history>>

-----------------------------------------------------------------------------
(* What the code decides ("a slip": a mistake it could make, PROJECT.json) *)

OneLeft(revealed) == Cardinality(revealed) >= Cardinality(Tiles) - 1  \* a slip

Whole(revealed) == Cardinality(revealed) >= Cardinality(Tiles)

NeverLocked(u) == u \notin Users                                 \* a slip

\* SELECT ... FOR UPDATE, until the transaction ends.
Locked(u) == \E r \in Requests : pc[r] = "write" /\ job[r].user = u

ReplacesAlways(image) == image \in Images                        \* a slip

Replaces(image) == secret.image # image

-----------------------------------------------------------------------------
Nothing == [k \in Kinds |-> [u \in Users |-> [b \in Boards |-> 0]]]

Init ==
    /\ secret = NoSecret
    /\ progress = [u \in Users |-> NoProgress]
    /\ unlocks = [u \in Users |-> NoImage]
    /\ pc = [r \in Requests |-> "idle"]
    /\ job = [r \in Requests |-> NoJob]
    /\ board = 0
    /\ paid = Nothing /\ lost = Nothing

(* Administrators *)

CreateHiddenSecret ==
    /\ board = 0
    /\ secret' \in Secret
    /\ board' = 1
    /\ UNCHANGED <<progress, unlocks, pc, job, paid, lost>>

\* One transaction: progress belongs to the picture and goes with it, as soon
\* as no reveal holds a row of it.
UpdateHiddenSecret ==
    /\ secret # NoSecret
    /\ \E new \in Secret :
           /\ secret' = new
           /\ IF Replaces(new.image)
              THEN /\ board < MaxBoards /\ \A u \in Users : ~Locked(u)
                   /\ board' = board + 1
                   /\ progress' = [u \in Users |-> NoProgress]
              ELSE UNCHANGED <<progress, board>>
    /\ UNCHANGED <<unlocks, pc, job, paid, lost>>

\* Progress and gallery entries cascade.
DeleteHiddenSecret ==
    /\ secret # NoSecret
    /\ \A u \in Users : ~Locked(u)
    /\ secret' = NoSecret
    /\ progress' = [u \in Users |-> NoProgress]
    /\ unlocks' = [u \in Users |-> NoImage]
    /\ UNCHANGED <<pc, job, history>>

-----------------------------------------------------------------------------
(* A reveal *)

Goto(r, step) == pc' = [pc EXCEPT ![r] = step]

End(r) ==
    /\ Goto(r, "idle")
    /\ job' = [job EXCEPT ![r] = NoJob]

\* getHiddenSecretRow, outside the transaction: the picture that is unlocked in
\* the end is the one read here.
ReadSecret(r, u, t) ==
    /\ pc[r] = "idle"
    /\ secret # NoSecret /\ secret.active
    /\ job' = [job EXCEPT ![r] = [user |-> u, tile |-> t, image |-> secret.image,
                                  board |-> board, revealed |-> {}]]
    /\ Goto(r, "ensure")
    /\ UNCHANGED <<tables, history>>

\* The insert makes the row and the transaction goes on in peace: the first
\* tile of a board, of which there are several.
FirstReveal(r) ==
    /\ pc[r] = "ensure"
    /\ secret # NoSecret /\ progress[job[r].user] = NoProgress
    /\ progress' = [progress EXCEPT ![job[r].user] =
                        [revealed |-> {job[r].tile}, completed |-> Whole({job[r].tile})]]
    /\ End(r)
    /\ UNCHANGED <<secret, unlocks, history>>

\* ON CONFLICT DO NOTHING: the row that is there is not locked yet.
RowExists(r) ==
    /\ pc[r] = "ensure"
    /\ progress[job[r].user] # NoProgress
    /\ Goto(r, "lock")
    /\ UNCHANGED <<tables, job, history>>

OpenedAll(p, t) == p.completed /\ t \in p.revealed              \* a slip

Opened(p, t) == p.completed \/ t \in p.revealed

LockProgress(r) ==
    LET p == progress[job[r].user]
    IN  /\ pc[r] = "lock"
        /\ p # NoProgress /\ ~Locked(job[r].user) /\ ~Opened(p, job[r].tile)
        /\ job' = [job EXCEPT ![r].revealed = p.revealed]
        /\ Goto(r, "write")
        /\ UNCHANGED <<tables, history>>

\* The player has opened this shutter, or all of them, already.
Refuse(r) ==
    LET p == progress[job[r].user]
    IN  /\ pc[r] = "lock"
        /\ p # NoProgress /\ ~Locked(job[r].user) /\ Opened(p, job[r].tile)
        /\ End(r)
        /\ UNCHANGED <<tables, history>>

\* The secret was deleted before the insert, or the row before it was locked.
RowIsGone(r) ==
    /\ pc[r] = "lock" \/ (pc[r] = "ensure" /\ secret = NoSecret)
    /\ progress[job[r].user] = NoProgress
    /\ End(r)
    /\ UNCHANGED <<tables, history>>

\* The rest of the transaction, and its commit.
RevealHiddenSecretTile(r) ==
    LET j == job[r]
        revealed == j.revealed \cup {j.tile}
    IN  /\ pc[r] = "write"
        /\ progress' = [progress EXCEPT ![j.user] =
                            [revealed |-> revealed, completed |-> Whole(revealed)]]
        /\ IF Whole(revealed)
           THEN /\ unlocks' = [unlocks EXCEPT ![j.user] =
                                   IF @ = NoImage THEN j.image ELSE @]
                /\ job' = [job EXCEPT ![r].board = board]  \* history
                /\ Goto(r, "awardXP")
           ELSE End(r) /\ UNCHANGED unlocks
        /\ UNCHANGED <<secret, history>>

\* The steps from which a handler still has a reward to pay.
Owing(k) == IF k = "xp" THEN {"awardXP"} ELSE {"awardXP", "awardPoints"}

Award(count, kinds, r) ==
    [k \in Kinds |-> IF k \in kinds
                     THEN [count[k] EXCEPT ![job[r].user][job[r].board] = @ + 1]
                     ELSE count[k]]

\* Each reward is a statement of its own; when the first one fails, the handler
\* goes on to the second.
AddXP(r) ==
    /\ pc[r] = "awardXP"
    /\ \/ paid' = Award(paid, {"xp"}, r) /\ UNCHANGED lost
       \/ lost' = Award(lost, {"xp"}, r) /\ UNCHANGED paid
    /\ Goto(r, "awardPoints")
    /\ UNCHANGED <<tables, job, board>>

AddUnlockPoints(r) ==
    /\ pc[r] = "awardPoints"
    /\ paid' = Award(paid, {"points"}, r)
    /\ End(r)
    /\ UNCHANGED <<tables, board, lost>>

\* A handler stops anywhere: its transaction is rolled back, what it owes lost.
Die(r) ==
    /\ pc[r] # "idle"
    /\ lost' = Award(lost, {k \in Kinds : pc[r] \in Owing(k)}, r)
    /\ End(r)
    /\ UNCHANGED <<tables, board, paid>>

-----------------------------------------------------------------------------
Next ==
    \/ CreateHiddenSecret \/ UpdateHiddenSecret \/ DeleteHiddenSecret
    \/ \E r \in Requests :
           \/ \E u \in Users, t \in Tiles : ReadSecret(r, u, t)
           \/ FirstReveal(r) \/ RowExists(r) \/ LockProgress(r)
           \/ Refuse(r) \/ RowIsGone(r)
           \/ RevealHiddenSecretTile(r) \/ AddXP(r) \/ AddUnlockPoints(r) \/ Die(r)

Spec == Init /\ [][Next]_vars

-----------------------------------------------------------------------------
(* What a player is shown; inactive secrets are left out of the list only *)

RevealedBy(u) == IF progress[u] = NoProgress THEN {} ELSE progress[u].revealed

Completed(u) == progress[u] # NoProgress /\ progress[u].completed

\* A row of the list withholds the picture "until the caller has revealed all
\* nine tiles" ...
ListHiddenSecrets(u) ==
    IF secret = NoSecret \/ ~secret.active THEN {}
    ELSE {[image     |-> IF Completed(u) THEN secret.image ELSE NoImage,
           count     |-> Cardinality(RevealedBy(u)),
           completed |-> Completed(u)]}

\* ... and the board, whose shutters are the client's to draw, has it from the
\* start; as long as there is a secret.
GetHiddenSecret(u) ==
    [image |-> secret.image, revealed |-> RevealedBy(u), completed |-> Completed(u)]

ListUnlockedHiddenSecrets(u) == {unlocks[u]} \ {NoImage}

-----------------------------------------------------------------------------
(* Properties *)

\* The tables, the handlers and the history hold values of their types, and a
\* handler that is about to open a shutter found it closed.
TypeOK ==
    /\ secret \in Secret \cup {NoSecret}
    /\ progress \in [Users -> Progress \cup {NoProgress}]
    /\ unlocks \in [Users -> Images \cup {NoImage}]
    /\ pc \in [Requests -> PCs]
    /\ job \in [Requests -> Job \cup {NoJob}]
    /\ \A r \in Requests : pc[r] # "idle" =>
           job[r] \in Job /\ (pc[r] = "write" => job[r].tile \notin job[r].revealed)
    /\ board \in 0 .. MaxBoards
    /\ \A c \in {paid, lost} : c \in [Kinds -> [Users -> [Boards -> Nat]]]

\* "a crash can never leave a fully revealed secret without its gallery entry"
\* (RevealHiddenSecretTile), nor complete a wall with a shutter left ...
GalleryKept ==
    \A u \in Users : progress[u] # NoProgress =>
        /\ progress[u].completed <=> progress[u].revealed = Tiles
        /\ progress[u].completed => unlocks[u] # NoImage

\* ... so the list has the picture for those whose board has no shutter left and
\* whose gallery has a picture, and counts the last shutter for no other.  (Of
\* the list only: who opens the board is sent the picture behind it.)
ListedAsEarned ==
    \A u \in Users : \A row \in ListHiddenSecrets(u) :
        LET wall == GetHiddenSecret(u)
        IN  /\ row.image # NoImage =>
                   /\ row.image = wall.image /\ wall.revealed = Tiles
                   /\ ListUnlockedHiddenSecrets(u) # {}
            /\ row.count = Cardinality(Tiles) => row.completed /\ row.image # NoImage

\* The list, the board and the gallery agree on who has uncovered the picture.
WholeInGallery == GalleryKept /\ ListedAsEarned

\* "that flag is what keeps this grant from being farmable" (hidden_secrets.go):
\* a picture uncovered pays each of its rewards once, credited, lost or owed by
\* one handler, however many reveals finish it at once; any other pays none.
AwardedOnce ==
    \A u \in Users, b \in Boards, k \in Kinds :
        LET awards == paid[k][u][b] + lost[k][u][b]
                + Cardinality({r \in Requests : /\ pc[r] \in Owing(k)
                                                /\ job[r].user = u
                                                /\ job[r].board = b})
        IN  /\ awards <= 1
            /\ b = board /\ secret # NoSecret =>
                   (awards = 1 <=> progress[u] # NoProgress /\ progress[u].completed)

\* An open shutter stays open, and a picture in the gallery is kept, until the
\* picture is changed or the secret deleted: two reveals at once lose none.
TilesAreKept ==
    [][\A u \in Users :
         \/ secret' = NoSecret
         \/ /\ unlocks[u] # NoImage => unlocks'[u] = unlocks[u]
            /\ progress[u] # NoProgress /\ secret'.image = secret.image =>
                   /\ progress'[u] # NoProgress
                   /\ progress[u].revealed \subseteq progress'[u].revealed]_vars
=============================================================================
