------------------------------ MODULE StoryProofs ------------------------------
(***************************************************************************)
(* Proofs about a story, for any number of players, requests, pages and    *)
(* levels: its types, that what a player has done of it has no gap, that a *)
(* page pays once, and that nobody has read on without the XP for it; the  *)
(* level is what the loop over the XP makes of it, and grows with it.      *)
(***************************************************************************)
EXTENDS Story, Counting

\* What TypeOK says of the variables a handler at work depends on.
LEMMA JobOf ==
    ASSUME TypeOK, NEW r \in Requests, pc[r] # "idle"
    PROVE  /\ job[r] \in Job /\ job[r].user \in Users /\ job[r].page \in Pages
           /\ job[r].reward \in Rewards /\ job[r].page \in 1 .. Len(pages)
  BY DEF TypeOK, Job, Pages

\* A handler that goes on or ends leaves the jobs well typed.
LEMMA GotoKeepsPCs ==
    ASSUME TypeOK, NEW r \in Requests, NEW step \in PCs, Goto(r, step)
    PROVE  pc' \in [Requests -> PCs]
  BY DEF TypeOK, Goto

LEMMA EndKeepsJobs ==
    ASSUME TypeOK, NEW r \in Requests, End(r)
    PROVE  /\ pc' \in [Requests -> PCs]
           /\ job' \in [Requests -> Job \cup {NoJob}]
           /\ \A s \in Requests : pc'[s] # "idle" =>
                  s # r /\ pc'[s] = pc[s] /\ job'[s] = job[s]
  BY DEF TypeOK, End, Goto, PCs

-----------------------------------------------------------------------------
LEMMA InitTyped == ASSUME Init PROVE TypeOK
<1>1. pages \in Seq(Rewards) /\ Len(pages) = 0 /\ Len(pages) <= MaxPages
  BY ConstantsOK DEF Init
<1>2. gate \in Levels /\ lowest \in 1 .. gate
  BY ConstantsOK DEF Init, Levels
<1>3. /\ done \in [Users -> SUBSET (1 .. Len(pages))] /\ xp \in [Users -> Nat]
      /\ pc \in [Requests -> PCs] /\ job \in [Requests -> Job \cup {NoJob}]
  BY DEF Init, PCs
<1>4. \A r \in Requests : pc[r] = "idle"
  BY DEF Init
<1>5. credited \in [Users -> [Pages -> Nat]] /\ lost \in [Users -> [Pages -> Nat]]
  BY DEF Init, None
<1>. QED
  BY <1>1, <1>2, <1>3, <1>4, <1>5 DEF TypeOK

LEMMA AdminTyped ==
    ASSUME TypeOK, AddStoryPage \/ UpdateStoryLevelRequired
    PROVE  TypeOK'
<1>1. CASE AddStoryPage
  <2>1. PICK reward \in Rewards : pages' = Append(pages, reward)
    BY <1>1 DEF AddStoryPage
  <2>2. /\ pages' \in Seq(Rewards) /\ Len(pages') = Len(pages) + 1
        /\ Len(pages') <= MaxPages /\ Len(pages) \in Nat
    BY <1>1, <2>1, ConstantsOK DEF AddStoryPage, TypeOK
  <2>3. 1 .. Len(pages) \subseteq 1 .. Len(pages')
    BY <2>2
  <2>4. done' \in [Users -> SUBSET (1 .. Len(pages'))]
    BY <1>1, <2>3 DEF AddStoryPage, TypeOK
  <2>5. \A r \in Requests :
            /\ pc'[r] # "idle" => job'[r] \in Job /\ job'[r].page <= Len(pages')
            /\ pc'[r] = "award" => job'[r].reward > 0
    BY <1>1, <2>2 DEF AddStoryPage, TypeOK, Job, Pages
  <2>. QED
    BY <1>1, <2>2, <2>4, <2>5 DEF AddStoryPage, TypeOK, history
<1>2. CASE UpdateStoryLevelRequired
  <2>1. gate' \in Levels /\ lowest' \in 1 .. gate'
    BY <1>2, ConstantsOK DEF UpdateStoryLevelRequired, TypeOK, Levels
  <2>. QED
    BY <1>2, <2>1 DEF UpdateStoryLevelRequired, TypeOK
<1>. QED
  BY <1>1, <1>2

LEMMA EarnTyped ==
    ASSUME TypeOK, NEW u \in Users, EarnXP(u)
    PROVE  TypeOK'
<1>1. PICK n \in Earned : xp' = [xp EXCEPT ![u] = @ + n]
  BY DEF EarnXP
<1>2. n \in Nat /\ xp[u] \in Nat
  BY ConstantsOK DEF TypeOK
<1>3. xp' \in [Users -> Nat]
  BY <1>1, <1>2 DEF TypeOK
<1>. QED
  BY <1>3 DEF EarnXP, TypeOK, history

LEMMA CheckTyped ==
    ASSUME TypeOK, NEW r \in Requests,
           \/ \E u \in Users, page \in Pages : ReadPage(r, u, page)
           \/ CheckLevel(r) \/ CheckPrevious(r)
    PROVE  TypeOK'
<1>1. ASSUME NEW u \in Users, NEW page \in Pages, ReadPage(r, u, page)
      PROVE  TypeOK'
  <2>1. page \in 1 .. Len(pages) /\ pages[page] \in Rewards
    BY <1>1, ConstantsOK DEF ReadPage, TypeOK, Pages
  <2>2. job'[r] \in Job /\ job'[r].page <= Len(pages)
    BY <1>1, <2>1 DEF ReadPage, TypeOK, Job
  <2>3. pc' \in [Requests -> PCs] /\ pc'[r] = "level"
    BY <1>1 DEF ReadPage, Goto, TypeOK, PCs
  <2>4. job' \in [Requests -> Job \cup {NoJob}]
    BY <1>1, <2>2 DEF ReadPage, TypeOK
  <2>5. \A s \in Requests : s # r => pc'[s] = pc[s] /\ job'[s] = job[s]
    BY <1>1 DEF ReadPage, Goto, TypeOK
  <2>. QED
    BY <1>1, <2>2, <2>3, <2>4, <2>5 DEF ReadPage, TypeOK, tables, history
<1>2. ASSUME End(r), UNCHANGED <<tables, history>>
      PROVE  TypeOK'
  BY <1>2, EndKeepsJobs DEF TypeOK, tables, history
<1>3. ASSUME NEW step \in PCs \ {"award"}, Goto(r, step), pc[r] # "idle",
             UNCHANGED <<job, tables, history>>
      PROVE  TypeOK'
  <2>1. \A s \in Requests : /\ pc'[s] # "idle" => pc[s] # "idle"
                            /\ pc'[s] = "award" => pc[s] = "award"
    BY <1>3 DEF Goto, TypeOK
  <2>2. pc' \in [Requests -> PCs]
    BY <1>3, GotoKeepsPCs
  <2>. QED
    BY <1>3, <2>1, <2>2 DEF TypeOK, tables, history
<1>4. CASE CheckLevel(r)
  BY <1>2, <1>3, <1>4 DEF CheckLevel, PCs
<1>5. CASE CheckPrevious(r)
  BY <1>2, <1>3, <1>5 DEF CheckPrevious, PCs
<1>. QED
  BY <1>1, <1>4, <1>5

LEMMA CompleteTyped ==
    ASSUME TypeOK, NEW r \in Requests, CompleteStoryPage(r)
    PROVE  TypeOK'
<1>1. /\ job[r] \in Job /\ job[r].user \in Users
      /\ job[r].page \in 1 .. Len(pages) /\ job[r].reward \in Int
  BY JobOf, ConstantsOK DEF CompleteStoryPage
<1>2. done' \in [Users -> SUBSET (1 .. Len(pages))]
  BY <1>1 DEF CompleteStoryPage, TypeOK
<1>3. CASE End(r)
  BY <1>2, <1>3, EndKeepsJobs DEF CompleteStoryPage, TypeOK, history
<1>4. CASE Goto(r, "award") /\ UNCHANGED job /\ job[r].reward > 0
  <2>1. \A s \in Requests : s # r => pc'[s] = pc[s]
    BY <1>4 DEF Goto, TypeOK
  <2>2. pc[r] # "idle" /\ pc' \in [Requests -> PCs]
    BY <1>4, GotoKeepsPCs DEF CompleteStoryPage, PCs
  <2>. QED
    BY <1>2, <1>4, <2>1, <2>2 DEF CompleteStoryPage, TypeOK, history
<1>. QED
  BY <1>3, <1>4 DEF CompleteStoryPage, AwardsXP

LEMMA AwardTyped ==
    ASSUME TypeOK, NEW r \in Requests, AddXP(r) \/ Die(r)
    PROVE  TypeOK'
<1>1. /\ job[r] \in Job /\ job[r].user \in Users /\ job[r].page \in Pages
      /\ job[r].reward \in Int
  <2>1. pc[r] # "idle"
    BY DEF AddXP, Die
  <2>. QED
    BY <2>1, JobOf, ConstantsOK
<1>2. End(r)
  BY DEF AddXP, Die
<1>3. CASE AddXP(r)
  <2>1. xp[job[r].user] + job[r].reward \in Nat
    BY <1>1, <1>3 DEF AddXP, TypeOK
  <2>2. xp' \in [Users -> Nat] /\ credited' \in [Users -> [Pages -> Nat]]
    BY <1>1, <1>3, <2>1, SMTT(30) DEF AddXP, TypeOK
  <2>. QED
    BY <1>2, <1>3, <2>2, EndKeepsJobs DEF AddXP, TypeOK
<1>4. CASE Die(r)
  <2>1. lost' \in [Users -> [Pages -> Nat]]
    BY <1>1, <1>4, SMTT(30) DEF Die, TypeOK
  <2>. QED
    BY <1>2, <1>4, <2>1, EndKeepsJobs DEF Die, TypeOK, tables
<1>. QED
  BY <1>3, <1>4

LEMMA TypeStep == ASSUME TypeOK, [Next]_vars PROVE TypeOK'
<1>1. CASE UNCHANGED vars
  BY <1>1 DEF TypeOK, vars, tables, history
<1>2. CASE Next
  BY <1>2, AdminTyped, EarnTyped, CheckTyped, CompleteTyped, AwardTyped DEF Next
<1>. QED
  BY <1>1, <1>2

\* The tables and the handlers keep their types, and no handler ever adds a
\* reward that is not positive, whatever rewards an administrator sends.
THEOREM TypeCorrect == Spec => []TypeOK
<1>1. Init => TypeOK
  BY InitTyped
<1>2. TypeOK /\ [Next]_vars => TypeOK'
  BY TypeStep
<1>. QED
  BY <1>1, <1>2, PTL DEF Spec

-----------------------------------------------------------------------------
\* DoneInOrder is not inductive: a handler records a page on what it read of
\* the page before.  What it read stays true, since nothing is ever undone.
SawPrevious ==
    \A r \in Requests : pc[r] = "insert" => PreviousDone(job[r].user, job[r].page)

OrderInv == TypeOK /\ DoneInOrder /\ SawPrevious

LEMMA DoneGrows ==
    ASSUME TypeOK, [Next]_vars
    PROVE  \A u \in Users : done[u] \subseteq done'[u]
<1>1. CASE UNCHANGED done
  BY <1>1
<1>2. ASSUME NEW r \in Requests, CompleteStoryPage(r)
      PROVE  \A u \in Users : done[u] \subseteq done'[u]
  BY <1>2 DEF CompleteStoryPage, TypeOK
<1>. QED
  BY <1>1, <1>2 DEF Next, vars, tables, AddStoryPage, UpdateStoryLevelRequired,
     EarnXP, ReadPage, CheckLevel, CheckPrevious, AddXP, Die

LEMMA SawStep ==
    ASSUME OrderInv, [Next]_vars
    PROVE  SawPrevious'
<1>1. SUFFICES ASSUME NEW r \in Requests, pc'[r] = "insert"
               PROVE  PreviousDone(job[r].user, job[r].page) /\ job'[r] = job[r]
                      /\ job[r].user \in Users
  BY DoneGrows DEF OrderInv, SawPrevious, PreviousDone
<1>2. CASE pc[r] = "insert" /\ job'[r] = job[r]
  BY <1>2, JobOf DEF OrderInv, SawPrevious
<1>3. CASE CheckPrevious(r)
  <2>1. job' = job /\ PreviousDone(job[r].user, job[r].page)
    BY <1>1, <1>3 DEF CheckPrevious, End, Goto, OrderInv, TypeOK
  <2>2. pc[r] # "idle"
    BY <1>3 DEF CheckPrevious
  <2>. QED
    BY <2>1, <2>2, JobOf DEF OrderInv
<1>4. ASSUME NEW s \in Requests,
             \/ \E u \in Users, page \in Pages : ReadPage(s, u, page)
             \/ CheckLevel(s) \/ CompleteStoryPage(s) \/ AddXP(s) \/ Die(s)
             \/ CheckPrevious(s) /\ s # r
      PROVE  pc[r] = "insert" /\ job'[r] = job[r]
  BY <1>1, <1>4 DEF ReadPage, CheckLevel, CompleteStoryPage, AddXP, Die,
     CheckPrevious, End, Goto, OrderInv, TypeOK
<1>5. CASE UNCHANGED <<pc, job>>
  BY <1>1, <1>2, <1>5
<1>. QED
  BY <1>2, <1>3, <1>4, <1>5 DEF Next, vars, AddStoryPage,
     UpdateStoryLevelRequired, EarnXP

LEMMA OrderStep ==
    ASSUME OrderInv, [Next]_vars
    PROVE  DoneInOrder'
<1>1. SUFFICES ASSUME NEW u \in Users
               PROVE  \E m \in 0 .. Len(pages') : done'[u] = 1 .. m
  BY DEF DoneInOrder
<1>2. PICK n \in 0 .. Len(pages) : done[u] = 1 .. n
  BY DEF OrderInv, DoneInOrder
<1>3. Len(pages) \in Nat /\ n \in Nat
  BY <1>2 DEF OrderInv, TypeOK
<1>4. CASE AddStoryPage
  <2>1. Len(pages') = Len(pages) + 1 /\ done' = done
    BY <1>4 DEF AddStoryPage, OrderInv, TypeOK
  <2>. QED
    BY <1>2, <1>3, <2>1
<1>5. CASE UNCHANGED <<pages, done>>
  BY <1>2, <1>5
<1>6. ASSUME NEW r \in Requests, CompleteStoryPage(r)
      PROVE  \E m \in 0 .. Len(pages') : done'[u] = 1 .. m
  <2>1. /\ job[r].user \in Users /\ job[r].page \in 1 .. Len(pages)
        /\ pages' = pages
    BY <1>6, JobOf DEF CompleteStoryPage, OrderInv
  <2>2. CASE job[r].user = u
    <3>1. done'[u] = (1 .. n) \cup {job[r].page}
      BY <1>2, <1>6, <2>1, <2>2 DEF CompleteStoryPage, OrderInv, TypeOK
    <3>2. job[r].page = 1 \/ job[r].page - 1 \in 1 .. n
      BY <1>2, <1>6, <2>2 DEF CompleteStoryPage, OrderInv, SawPrevious, PreviousDone
    <3>3. CASE job[r].page <= n
      BY <1>2, <1>3, <2>1, <3>1, <3>3
    <3>4. CASE job[r].page = n + 1
      <4>1. done'[u] = 1 .. (n + 1)
        BY <1>3, <3>1, <3>4
      <4>. QED
        BY <1>3, <2>1, <3>4, <4>1
    <3>. QED
      BY <1>3, <2>1, <3>2, <3>3, <3>4
  <2>3. CASE job[r].user # u
    <3>1. done'[u] = done[u]
      BY <1>6, <2>1, <2>3 DEF CompleteStoryPage, OrderInv, TypeOK
    <3>. QED
      BY <1>2, <2>1, <3>1
  <2>. QED
    BY <2>2, <2>3
<1>. QED
  BY <1>4, <1>5, <1>6 DEF Next, vars, tables, UpdateStoryLevelRequired,
     EarnXP, ReadPage, CheckLevel, CheckPrevious, AddXP, Die

\* The next page is open to whoever has done the one before.
LEMMA ShownFollows == ASSUME OrderInv PROVE ShownInOrder
<1>1. SUFFICES ASSUME NEW u \in Users, NEW admin \in BOOLEAN,
                      NEW page \in DOMAIN GetStory(u, admin).pages
               PROVE  LET shown == GetStory(u, admin).pages
                      IN  /\ shown[page].unlocked => StoryUnlocked(u)
                          /\ shown[page].completed /\ StoryUnlocked(u) =>
                                 \A before \in 1 .. page : shown[before].unlocked
  <2>1. \A v \in Users, a \in BOOLEAN : GetStory(v, a).unlocked = StoryUnlocked(v)
    BY DEF GetStory
  <2>. QED
    BY <2>1 DEF ShownInOrder
<1>2. CASE StoryUnlocked(u) \/ admin
  <2>1. /\ Len(pages) \in Nat /\ page \in 1 .. Len(pages)
        /\ DOMAIN GetStory(u, admin).pages = 1 .. Len(pages)
    BY <1>1, <1>2 DEF GetStory, OrderInv, TypeOK
  <2>. DEFINE shown == GetStory(u, admin).pages
              Opens(before) == before = 1 \/ before - 1 \in done[u]
  <2>2. ASSUME NEW before \in 1 .. page
        PROVE  /\ shown[before].completed = (before \in done[u])
               /\ shown[before].unlocked = (StoryUnlocked(u) /\ Opens(before))
    <3>1. before \in 1 .. Len(pages) /\ (before # 1 => before - 1 \in 1 .. Len(pages))
      BY <2>1
    <3>. QED
      BY <1>2, <3>1 DEF GetStory
  <2>3. PICK n \in 0 .. Len(pages) : done[u] = 1 .. n
    BY DEF OrderInv, DoneInOrder
  <2>4. page \in done[u] =>
            \A before \in 1 .. page : Opens(before)
    BY <2>1, <2>3
  <2>5. page \in 1 .. page
    BY <2>1
  <2>. HIDE DEF shown, Opens
  <2>6. shown[page].unlocked => StoryUnlocked(u)
    BY <2>2, <2>5
  <2>7. shown[page].completed => page \in done[u]
    BY <2>2, <2>5
  <2>8. ASSUME page \in done[u], StoryUnlocked(u), NEW before \in 1 .. page
        PROVE  shown[before].unlocked
    BY <2>2, <2>4, <2>8
  <2>. QED
    BY <2>6, <2>7, <2>8 DEF shown
<1>3. CASE ~StoryUnlocked(u) /\ ~admin
  BY <1>1, <1>3 DEF GetStory
<1>. QED
  BY <1>2, <1>3

\* What a player has done of a story has no gap, although the page before is
\* read by a statement of its own: it is done for good when a handler sees it;
\* and what is shown of it has none either.
THEOREM PagesStayInOrder == Spec => []PagesInOrder
<1>1. Init => OrderInv
  <2>1. ASSUME Init PROVE DoneInOrder /\ SawPrevious
    <3>1. Len(pages) = 0 /\ \A u \in Users : done[u] = 1 .. 0
      BY <2>1 DEF Init
    <3>. QED
      BY <2>1, <3>1 DEF Init, DoneInOrder, SawPrevious
  <2>. QED
    BY <2>1, InitTyped DEF OrderInv
<1>2. OrderInv /\ [Next]_vars => OrderInv'
  BY TypeStep, SawStep, OrderStep DEF OrderInv
<1>3. OrderInv => PagesInOrder
  BY ShownFollows DEF OrderInv, PagesInOrder
<1>. QED
  BY <1>1, <1>2, <1>3, PTL DEF Spec

-----------------------------------------------------------------------------
(* AwardedOnce, without counting: nobody owes a page's reward and it is      *)
(* settled, or one handler owes it and it is not.                            *)

Owes(r, u, page) == pc[r] = "award" /\ job[r].user = u /\ job[r].page = page

Settled(u, page) == credited[u][page] + lost[u][page]

Worth(u, page) == page \in done[u] /\ pages[page] > 0

Awards(u, page) ==
    \/ /\ Settled(u, page) = IF Worth(u, page) THEN 1 ELSE 0
       /\ \A r \in Requests : ~Owes(r, u, page)
    \/ /\ Settled(u, page) = 0 /\ Worth(u, page)
       /\ \E r \in Requests : \A s \in Requests : Owes(s, u, page) <=> s = r

\* The reward a handler has read is the page's: rewards are never edited.
RewardRead == \A r \in Requests : pc[r] # "idle" => job[r].reward = pages[job[r].page]

AwardInv ==
    TypeOK /\ RewardRead /\ \A u \in Users, page \in Pages : Awards(u, page)

LEMMA CountAwards == ASSUME AwardInv PROVE AwardedOnce
<1>1. SUFFICES ASSUME NEW u \in Users, NEW page \in Pages
               PROVE  Settled(u, page) + Cardinality({r \in Requests : Owes(r, u, page)})
                          = IF Worth(u, page) THEN 1 ELSE 0
  BY DEF AwardedOnce, Settled, Owes, Worth
<1>2. CASE \A r \in Requests : ~Owes(r, u, page)
  <2>1. {r \in Requests : Owes(r, u, page)} = {}
    BY <1>2
  <2>2. Cardinality({r \in Requests : Owes(r, u, page)}) = 0
    BY <2>1, FS_EmptySet
  <2>3. Settled(u, page) = IF Worth(u, page) THEN 1 ELSE 0
    BY <1>2 DEF AwardInv, Awards
  <2>. QED
    BY <2>2, <2>3
<1>3. ASSUME NEW r \in Requests, \A s \in Requests : Owes(s, u, page) <=> s = r
      PROVE  Settled(u, page) + Cardinality({s \in Requests : Owes(s, u, page)})
                 = IF Worth(u, page) THEN 1 ELSE 0
  <2>1. {s \in Requests : Owes(s, u, page)} = {r}
    BY <1>3
  <2>2. Cardinality({s \in Requests : Owes(s, u, page)}) = 1
    BY <2>1, FS_Singleton
  <2>3. Settled(u, page) = 0 /\ Worth(u, page)
    BY <1>3 DEF AwardInv, Awards
  <2>. QED
    BY <2>2, <2>3
<1>. QED
  BY <1>2, <1>3 DEF AwardInv, Awards

LEMMA AwardsInit == ASSUME Init PROVE AwardInv
<1>1. RewardRead
  BY DEF Init, RewardRead
<1>2. ASSUME NEW u \in Users, NEW page \in Pages
      PROVE  Awards(u, page)
  BY <1>2 DEF Init, None, Awards, Settled, Worth, Owes
<1>. QED
  BY <1>1, <1>2, InitTyped DEF AwardInv

LEMMA RewardStep ==
    ASSUME AwardInv, [Next]_vars
    PROVE  RewardRead'
<1>1. SUFFICES ASSUME NEW r \in Requests, pc'[r] # "idle"
               PROVE  job'[r].reward = pages'[job'[r].page]
  BY DEF RewardRead
<1>2. \A page \in 1 .. Len(pages) : pages'[page] = pages[page]
  <2>1. CASE AddStoryPage
    BY <2>1 DEF AddStoryPage, AwardInv, TypeOK
  <2>2. CASE UNCHANGED pages
    BY <2>2
  <2>. QED
    BY <2>1, <2>2 DEF Next, vars, tables, UpdateStoryLevelRequired, EarnXP, ReadPage,
       CheckLevel, CheckPrevious, CompleteStoryPage, AddXP, Die
<1>3. CASE pc[r] # "idle" /\ job'[r] = job[r]
  BY <1>2, <1>3, JobOf DEF AwardInv, RewardRead
<1>4. ASSUME NEW u \in Users, NEW page \in Pages, ReadPage(r, u, page)
      PROVE  job'[r].reward = pages'[job'[r].page]
  BY <1>4 DEF ReadPage, AwardInv, TypeOK, tables
<1>5. ASSUME NEW s \in Requests,
             \/ s # r /\ \E u \in Users, page \in Pages : ReadPage(s, u, page)
             \/ CheckLevel(s) \/ CheckPrevious(s) \/ CompleteStoryPage(s)
             \/ AddXP(s) \/ Die(s)
      PROVE  pc[r] # "idle" /\ job'[r] = job[r]
  BY <1>1, <1>5 DEF ReadPage, CheckLevel, CheckPrevious, CompleteStoryPage,
     AddXP, Die, End, Goto, AwardInv, TypeOK
<1>6. CASE UNCHANGED <<pc, job>>
  BY <1>1, <1>3, <1>6
<1>. QED
  BY <1>3, <1>4, <1>5, <1>6 DEF Next, vars, AddStoryPage,
     UpdateStoryLevelRequired, EarnXP

\* A step that touches neither the debts nor the page leaves the award alone.
LEMMA Unaffected ==
    ASSUME NEW u, NEW page, Awards(u, page),
           \A r \in Requests : Owes(r, u, page)' <=> Owes(r, u, page),
           Settled(u, page)' = Settled(u, page),
           Worth(u, page)' <=> Worth(u, page)
    PROVE  Awards(u, page)'
  BY DEF Awards

LEMMA CompleteAwards ==
    ASSUME AwardInv, NEW r \in Requests, CompleteStoryPage(r),
           NEW u \in Users, NEW page \in Pages
    PROVE  Awards(u, page)'
<1>. DEFINE j == job[r]
<1>1. /\ j.user \in Users /\ j.page \in 1 .. Len(pages) /\ j.reward = pages[j.page]
      /\ j.reward \in Int /\ Awards(u, page)
  BY JobOf, ConstantsOK DEF CompleteStoryPage, AwardInv, RewardRead
<1>2. Settled(u, page)' = Settled(u, page) /\ pages' = pages
  BY DEF CompleteStoryPage, Settled, history
<1>3. \A s \in Requests : s # r => (Owes(s, u, page)' <=> Owes(s, u, page))
  BY DEF CompleteStoryPage, End, Goto, Owes, AwardInv, TypeOK
<1>4. ~Owes(r, u, page)
  BY DEF CompleteStoryPage, Owes
<1>5. CASE j.user = u /\ j.page = page /\ Newly(u, page)
  <2>1. ~Worth(u, page) /\ page \in done'[u]
    BY <1>1, <1>5 DEF Worth, Newly, CompleteStoryPage, AwardInv, TypeOK
  <2>2. Settled(u, page) = 0 /\ \A s \in Requests : ~Owes(s, u, page)
    BY <1>1, <2>1 DEF Awards
  <2>3. Owes(r, u, page)' <=> j.reward > 0
    BY <1>5 DEF CompleteStoryPage, AwardsXP, End, Goto, Owes, AwardInv, TypeOK
  <2>4. Worth(u, page)' <=> j.reward > 0
    BY <1>1, <1>2, <1>5, <2>1 DEF Worth
  <2>. QED
    BY <1>2, <1>3, <2>2, <2>3, <2>4 DEF Awards
<1>6. CASE ~(j.user = u /\ j.page = page /\ Newly(u, page))
  <2>1. page \in done'[u] <=> page \in done[u]
    BY <1>1, <1>6 DEF CompleteStoryPage, Newly, AwardInv, TypeOK
  <2>2. ~Owes(r, u, page)'
    BY <1>6 DEF CompleteStoryPage, End, Goto, Owes, AwardInv, TypeOK
  <2>3. Worth(u, page)' <=> Worth(u, page)
    BY <1>2, <2>1 DEF Worth
  <2>. QED
    BY <1>1, <1>2, <1>3, <1>4, <2>2, <2>3, Unaffected
<1>. QED
  BY <1>5, <1>6

\* An award is credited or lost by the one handler that owes it.
LEMMA SettleAwards ==
    ASSUME AwardInv, NEW r \in Requests, AddXP(r) \/ Die(r),
           NEW u \in Users, NEW page \in Pages
    PROVE  Awards(u, page)'
<1>1. Awards(u, page) /\ (Worth(u, page)' <=> Worth(u, page))
  BY DEF AwardInv, AddXP, Die, tables, Worth
<1>2. /\ ~Owes(r, u, page)'
      /\ \A s \in Requests : s # r => (Owes(s, u, page)' <=> Owes(s, u, page))
  BY DEF AddXP, Die, End, Goto, Owes, AwardInv, TypeOK
<1>3. credited[u][page] \in Nat /\ lost[u][page] \in Nat
  BY DEF AwardInv, TypeOK
<1>4. CASE Owes(r, u, page)
  <2>1. Settled(u, page) = 0 /\ Worth(u, page)
        /\ \A s \in Requests : Owes(s, u, page) <=> s = r
    BY <1>1, <1>4 DEF Awards
  <2>2. Settled(u, page)' = Settled(u, page) + 1
    <3>1. CASE AddXP(r)
      BY <1>3, <1>4, <3>1 DEF AddXP, Owes, Settled, AwardInv, TypeOK
    <3>2. CASE Die(r)
      BY <1>3, <1>4, <3>2 DEF Die, Owes, Settled, AwardInv, TypeOK
    <3>. QED
      BY <3>1, <3>2
  <2>. QED
    BY <1>1, <1>2, <2>1, <2>2 DEF Awards
<1>5. CASE ~Owes(r, u, page)
  <2>1. Settled(u, page)' = Settled(u, page)
    <3>1. pc[r] # "idle"
      BY DEF AddXP, Die
    <3>2. job[r].user \in Users /\ job[r].page \in Pages
      BY <3>1, JobOf DEF AwardInv
    <3>3. CASE AddXP(r)
      BY <1>5, <3>2, <3>3 DEF AddXP, Owes, Settled, AwardInv, TypeOK
    <3>4. CASE Die(r)
      BY <1>5, <3>2, <3>4 DEF Die, Owes, Settled, AwardInv, TypeOK
    <3>. QED
      BY <3>3, <3>4
  <2>. QED
    BY <1>1, <1>2, <1>5, <2>1, Unaffected
<1>. QED
  BY <1>4, <1>5

LEMMA AwardStep ==
    ASSUME AwardInv, [Next]_vars
    PROVE  AwardInv'
<1>1. SUFFICES ASSUME NEW u \in Users, NEW page \in Pages
               PROVE  Awards(u, page)'
  BY TypeStep, RewardStep DEF AwardInv
<1>2. Awards(u, page)
  BY DEF AwardInv
<1>3. CASE UNCHANGED vars \/ AddStoryPage \/ UpdateStoryLevelRequired
           \/ \E v \in Users : EarnXP(v)
  <2>1. UNCHANGED <<done, pc, job, credited, lost>>
    BY <1>3 DEF vars, tables, history, AddStoryPage, UpdateStoryLevelRequired, EarnXP
  <2>2. Worth(u, page)' <=> Worth(u, page)
    <3>1. CASE AddStoryPage
      BY <2>1, <3>1 DEF AddStoryPage, Worth, AwardInv, TypeOK
    <3>2. CASE UNCHANGED pages
      BY <2>1, <3>2 DEF Worth
    <3>. QED
      BY <1>3, <3>1, <3>2 DEF vars, tables, UpdateStoryLevelRequired, EarnXP
  <2>. QED
    BY <1>2, <2>1, <2>2, Unaffected DEF Owes, Settled
<1>4. ASSUME NEW r \in Requests,
             \/ \E v \in Users, q \in Pages : ReadPage(r, v, q)
             \/ CheckLevel(r) \/ CheckPrevious(r)
      PROVE  Awards(u, page)'
  <2>1. \A s \in Requests : Owes(s, u, page)' <=> Owes(s, u, page)
    BY <1>4 DEF ReadPage, CheckLevel, CheckPrevious, End, Goto, Owes, AwardInv, TypeOK
  <2>2. UNCHANGED <<pages, done, credited, lost>>
    BY <1>4 DEF ReadPage, CheckLevel, CheckPrevious, tables, history
  <2>. QED
    BY <1>2, <2>1, <2>2, Unaffected DEF Settled, Worth
<1>. QED
  BY <1>3, <1>4, CompleteAwards, SettleAwards DEF Next

\* However many requests complete a page at once, its XP is credited, lost or
\* owed once, and never when it carries none.
THEOREM AwardsComeOnce == Spec => []AwardedOnce
<1>1. Init => AwardInv
  BY AwardsInit
<1>2. AwardInv /\ [Next]_vars => AwardInv'
  BY AwardStep
<1>3. AwardInv => AwardedOnce
  BY CountAwards
<1>. QED
  BY <1>1, <1>2, <1>3, PTL DEF Spec
-----------------------------------------------------------------------------
(* The loop of LevelFromXP: that it ends with a level, and what reaching it  *)
(* has taken (the recursion runs upwards to MaxLevel: the inductions are on  *)
(* how far a level is from it)                                               *)

\* One turn of the loop at a level, g being what the levels above end with.
Turn(g, level) ==
    [remaining \in Nat |->
        IF level < MaxLevel /\ remaining >= XPForLevelUp(level)
        THEN g[level + 1][remaining - XPForLevelUp(level)]
        ELSE level]

IsClimb(g) == g = [level \in Levels |-> Turn(g, level)]

LEMMA TurnLooksUp ==
    ASSUME NEW g, NEW h, NEW level, level < MaxLevel => g[level + 1] = h[level + 1]
    PROVE  Turn(g, level) = Turn(h, level)
  BY DEF Turn

LEMMA ClimbExists == \E g : IsClimb(g)
<1>1. MaxLevel \in Nat \ {0}
  BY ConstantsOK
<1> DEFINE Top(n) == {level \in Levels : level >= MaxLevel - n}
           Part(g, n) == \A level \in Top(n) : g[level] = Turn(g, level)
           bad == {n \in 0 .. MaxLevel : ~ \E g : Part(g, n)}
<1>2. ASSUME bad # {} PROVE FALSE
  <2>1. PICK n \in bad : \A m \in bad : n <= m
    <3>1. bad \in SUBSET Nat
      BY <1>1
    <3> HIDE DEF bad
    <3> QED
      BY <1>2, <3>1, LeastNumber
  <2>2. n \in 0 .. MaxLevel /\ ~ \E g : Part(g, n)
    BY <2>1
  <2>3. CASE n = 0
    <3> DEFINE g == [level \in Levels |-> [remaining \in Nat |-> level]]
    <3>1. Top(n) = {MaxLevel} /\ MaxLevel \in Levels
      BY <1>1, <2>3 DEF Levels
    <3>2. g[MaxLevel] = Turn(g, MaxLevel)
      BY <1>1, <3>1 DEF Turn
    <3> QED
      BY <2>2, <3>1, <3>2
  <2>4. CASE n # 0
    <3>1. n - 1 \in 0 .. MaxLevel /\ n - 1 \notin bad
      BY <1>1, <2>1, <2>2, <2>4
    <3>2. PICK g : Part(g, n - 1)
      BY <3>1
    <3> DEFINE h == [level \in Levels |-> Turn(g, level)]
    <3>3. \A level \in Top(n - 1) : h[level] = g[level]
      BY <3>2
    <3>4. \A level \in Top(n) : level < MaxLevel => level + 1 \in Top(n - 1)
      BY <1>1, <2>2 DEF Levels
    <3>5. ASSUME NEW level \in Top(n)
          PROVE  h[level] = Turn(h, level)
      <4>1. h[level] = Turn(g, level)
        OBVIOUS
      <4>2. level < MaxLevel => g[level + 1] = h[level + 1]
        BY <3>3, <3>4, <3>5
      <4> HIDE DEF h
      <4> QED
        BY <4>1, <4>2, TurnLooksUp
    <3> HIDE DEF h
    <3> QED
      BY <2>2, <3>5
  <2> QED
    BY <2>3, <2>4
<1>3. PICK g : Part(g, MaxLevel)
  <2>1. MaxLevel \notin bad
    BY <1>2
  <2> QED
    BY <1>1, <2>1
<1>4. \A level \in Levels : g[level] = Turn(g, level)
  <2>1. Levels \subseteq Top(MaxLevel)
    BY <1>1 DEF Levels
  <2> QED
    BY <1>3, <2>1
<1> DEFINE h == [level \in Levels |-> Turn(g, level)]
<1>5. \A level \in Levels : h[level] = g[level]
  BY <1>4
<1>6. ASSUME NEW level \in Levels
      PROVE  Turn(g, level) = Turn(h, level)
  <2>1. level < MaxLevel => level + 1 \in Levels
    BY <1>1 DEF Levels
  <2>2. level < MaxLevel => g[level + 1] = h[level + 1]
    BY <1>5, <2>1
  <2> HIDE DEF h
  <2> QED
    BY <2>2, TurnLooksUp
<1>7. h = [level \in Levels |-> Turn(h, level)]
  BY <1>6
<1> HIDE DEF h
<1> QED
  BY <1>7 DEF IsClimb

LEMMA ClimbTurns ==
    ASSUME NEW level \in Levels, NEW remaining \in Nat
    PROVE  Climb[level][remaining] =
               IF level < MaxLevel /\ remaining >= XPForLevelUp(level)
               THEN Climb[level + 1][remaining - XPForLevelUp(level)]
               ELSE level
<1>1. Climb = CHOOSE g : IsClimb(g)
  BY DEF Climb, IsClimb, Turn
<1>2. IsClimb(CHOOSE g : IsClimb(g))
  BY ClimbExists, Zenon
<1>3. Climb = [k \in Levels |-> Turn(Climb, k)]
  BY <1>1, <1>2 DEF IsClimb
<1>4. Climb[level] = Turn(Climb, level)
  BY <1>3
<1> QED
  BY <1>4 DEF Turn

\* What a level takes beyond the one before, in the closed form.
LEMMA SquaresStep ==
    ASSUME NEW n \in Nat \ {0}
    PROVE  /\ XPToReach(1) = 0 /\ XPToReach(n) \in Int /\ XPForLevelUp(n) \in Nat
           /\ XPToReach(n + 1) = XPToReach(n) + XPForLevelUp(n)
<1>1. xpBase \in Nat
  BY ConstantsOK
<1> DEFINE a == (n - 1) * n * (2 * n - 1)
           q == a \div 6
           s == n * n
<1>2. n * (n - 1) \in Int /\ a \in Int /\ s \in Nat /\ q \in Int
  OBVIOUS
<1>3. (n + 1 - 1) * (n + 1) * (2 * (n + 1) - 1) = a + 6 * s
  OBVIOUS
<1>4. (a + 6 * s) \div 6 = q + s
  <2> HIDE DEF a, s
  <2> QED
    BY <1>2
<1>5. xpBase * (q + s) = xpBase * q + xpBase * s /\ xpBase * s \in Nat
  <2> HIDE DEF q, s
  <2> QED
    BY <1>1, <1>2
<1>6. XPForLevelUp(n) = xpBase * s
  BY <1>1 DEF XPForLevelUp
<1>7. XPToReach(n) = xpBase * q /\ xpBase * q \in Int
  BY <1>1, <1>2 DEF XPToReach
<1>8. XPToReach(n + 1) = xpBase * (q + s)
  BY <1>3, <1>4 DEF XPToReach
<1>9. XPToReach(1) = 0
  BY <1>1 DEF XPToReach
<1> HIDE DEF a, q, s
<1> QED
  BY <1>5, <1>6, <1>7, <1>8, <1>9

\* The more levels, the more XP.
LEMMA ReachGrows ==
    ASSUME NEW low \in Nat \ {0}, NEW high \in Nat \ {0}, low <= high
    PROVE  XPToReach(low) <= XPToReach(high)
<1> DEFINE bad == {n \in Nat : ~(XPToReach(low) <= XPToReach(low + n))}
<1>1. ASSUME bad # {} PROVE FALSE
  <2>1. PICK n \in bad : \A m \in bad : n <= m
    <3>1. bad \in SUBSET Nat
      OBVIOUS
    <3> HIDE DEF bad
    <3> QED
      BY <1>1, <3>1, LeastNumber
  <2>2. n \in Nat /\ ~(XPToReach(low) <= XPToReach(low + n))
    BY <2>1
  <2>3. n # 0
    <3>1. low + 0 = low /\ XPToReach(low) \in Int
      BY SquaresStep
    <3> QED
      BY <2>2, <3>1
  <2>4. n - 1 \in Nat /\ n - 1 \notin bad
    BY <2>1, <2>2, <2>3
  <2>5. XPToReach(low) <= XPToReach(low + (n - 1))
    BY <2>4
  <2> DEFINE k == low + (n - 1)
  <2>6. k \in Nat \ {0} /\ low + n = k + 1
    BY <2>2, <2>4
  <2>7. XPToReach(low) <= XPToReach(k)
    BY <2>5
  <2> HIDE DEF k
  <2>8. XPToReach(k + 1) = XPToReach(k) + XPForLevelUp(k)
        /\ XPForLevelUp(k) \in Nat /\ XPToReach(k) \in Int /\ XPToReach(low) \in Int
    BY <2>6, SquaresStep
  <2> QED
    BY <2>2, <2>6, <2>7, <2>8
<1>2. high - low \in Nat /\ low + (high - low) = high
  OBVIOUS
<1>3. high - low \notin bad
  BY <1>1
<1>4. XPToReach(low) <= XPToReach(low + (high - low))
  BY <1>2, <1>3
<1> QED
  BY <1>2, <1>4

LEMMA ClimbReaches ==
    ASSUME NEW level \in Levels, NEW remaining \in Nat
    PROVE  /\ Climb[level][remaining] \in Levels
           /\ XPToReach(Climb[level][remaining]) <= XPToReach(level) + remaining
<1>0. MaxLevel \in Nat \ {0}
  BY ConstantsOK
<1> DEFINE Ends(k, left) == /\ Climb[k][left] \in Levels
                            /\ XPToReach(Climb[k][left]) <= XPToReach(k) + left
           bad == {n \in Nat : \E k \in Levels, left \in Nat :
                                   k = MaxLevel - n /\ ~Ends(k, left)}
<1>1. ASSUME bad # {} PROVE FALSE
  <2>1. PICK n \in bad : \A m \in bad : n <= m
    <3>1. bad \in SUBSET Nat
      OBVIOUS
    <3> HIDE DEF bad
    <3> QED
      BY <1>1, <3>1, LeastNumber
  <2>2. n \in Nat
    BY <2>1
  <2>3. PICK k \in Levels, left \in Nat : k = MaxLevel - n /\ ~Ends(k, left)
    BY <2>1
  <2>4. k \in Nat \ {0} /\ k <= MaxLevel
    BY <1>0 DEF Levels
  <2>5. /\ XPToReach(k) \in Int /\ XPForLevelUp(k) \in Nat
        /\ XPToReach(k + 1) = XPToReach(k) + XPForLevelUp(k)
    BY <2>4, SquaresStep
  <2>6. CASE k < MaxLevel /\ left >= XPForLevelUp(k)
    <3> DEFINE rest == left - XPForLevelUp(k)
    <3>1. /\ n - 1 \in Nat /\ k + 1 \in Levels /\ rest \in Nat
          /\ k + 1 = MaxLevel - (n - 1) /\ n - 1 < n
      BY <1>0, <2>2, <2>3, <2>4, <2>5, <2>6 DEF Levels
    <3>2. n - 1 \notin bad
      BY <2>1, <2>2, <3>1
    <3>3. Ends(k + 1, rest)
      BY <3>1, <3>2
    <3>4. Climb[k][left] = Climb[k + 1][rest]
      BY <2>6, ClimbTurns
    <3>5. XPToReach(k + 1) + rest = XPToReach(k) + left
      BY <2>5
    <3>6. Ends(k, left)
      BY <3>3, <3>4, <3>5
    <3> QED
      BY <2>3, <3>6
  <2>7. CASE ~(k < MaxLevel /\ left >= XPForLevelUp(k))
    <3>1. Climb[k][left] = k
      BY <2>7, ClimbTurns
    <3>2. Ends(k, left)
      BY <2>5, <3>1
    <3> QED
      BY <2>3, <3>2
  <2> QED
    BY <2>6, <2>7
<1>2. MaxLevel - level \in Nat /\ level = MaxLevel - (MaxLevel - level)
  BY <1>0 DEF Levels
<1>3. Ends(level, remaining)
  BY <1>1, <1>2
<1> QED
  BY <1>3

\* Whoever has a level has the XP that reaching it takes.
LEMMA LevelIsEarned ==
    ASSUME NEW n \in Nat
    PROVE  LevelFromXP(n) \in Levels /\ XPToReach(LevelFromXP(n)) <= n
<1>1. 1 \in Levels
  BY ConstantsOK DEF Levels
<1>2. XPToReach(1) = 0
  BY SquaresStep
<1>3. 0 + n = n
  OBVIOUS
<1> QED
  BY <1>1, <1>2, <1>3, ClimbReaches DEF LevelFromXP

-----------------------------------------------------------------------------
(* NobodyReadsAhead.  A handler's gate, and the level it has found enough,    *)
(* may both be old: but XP only grows and lowest only falls.  What a page has *)
(* paid is in the balance that it was added to.                               *)

\* The pages whose reward the player has.
Paid(u) == {page \in done[u] : pages[page] > 0 /\ credited[u][page] # 0}

ReaderInv ==
    /\ AwardInv
    /\ \A r \in Requests :
           /\ pc[r] # "idle" => lowest <= job[r].required
           /\ pc[r] \in {"previous", "insert"} =>
                  XPToReach(job[r].required) <= xp[job[r].user]
    /\ \A u \in Users :
           /\ done[u] # {} => XPToReach(lowest) <= xp[u]
           /\ SumOf(pages, Paid(u)) <= xp[u]

LEMMA XPGrows ==
    ASSUME TypeOK, [Next]_vars
    PROVE  /\ lowest \in Levels /\ lowest' \in Levels /\ lowest' <= lowest
           /\ \A u \in Users : xp[u] \in Nat /\ xp'[u] \in Nat /\ xp[u] <= xp'[u]
<1>1. TypeOK' /\ MaxLevel \in Nat
  BY TypeStep, ConstantsOK
<1>2. lowest \in Levels /\ lowest' \in Levels
  BY <1>1 DEF TypeOK, Levels
<1>3. \A u \in Users : xp[u] \in Nat /\ xp'[u] \in Nat
  BY <1>1 DEF TypeOK
<1>4. lowest' <= lowest
  <2>1. CASE UNCHANGED lowest
    BY <1>1, <1>2, <2>1 DEF Levels
  <2>2. CASE UpdateStoryLevelRequired
    BY <1>1, <1>2, <2>2 DEF UpdateStoryLevelRequired, Levels
  <2> QED
    BY <2>1, <2>2 DEF Next, vars, history, AddStoryPage, EarnXP, ReadPage, CheckLevel,
       CheckPrevious, CompleteStoryPage, AddXP, Die
<1>5. ASSUME NEW u \in Users PROVE xp[u] <= xp'[u]
  <2>1. CASE UNCHANGED xp
    BY <1>3, <2>1
  <2>2. ASSUME NEW v \in Users, EarnXP(v) PROVE xp[u] <= xp'[u]
    <3>1. PICK n \in Earned : xp' = [xp EXCEPT ![v] = @ + n]
      BY <2>2 DEF EarnXP
    <3>2. n \in Nat
      BY ConstantsOK
    <3> QED
      BY <1>3, <3>1, <3>2 DEF TypeOK
  <2>3. ASSUME NEW r \in Requests, AddXP(r) PROVE xp[u] <= xp'[u]
    <3>1. xp' = [xp EXCEPT ![job[r].user] = @ + job[r].reward] /\ pc[r] = "award"
      BY <2>3 DEF AddXP
    <3>2. job[r].reward > 0 /\ job[r].reward \in Int
      BY <3>1, JobOf, ConstantsOK DEF TypeOK
    <3> QED
      BY <1>3, <3>1, <3>2 DEF TypeOK
  <2> QED
    BY <2>1, <2>2, <2>3 DEF Next, vars, tables, AddStoryPage, UpdateStoryLevelRequired,
       ReadPage, CheckLevel, CheckPrevious, CompleteStoryPage, Die
<1> QED
  BY <1>2, <1>3, <1>4, <1>5

\* Who could afford a level still can, and an easier one too.
LEMMA StillReaches ==
    ASSUME NEW low \in Levels, NEW high \in Levels, low <= high,
           NEW had \in Nat, NEW has \in Nat, had <= has, XPToReach(high) <= had
    PROVE  XPToReach(low) <= has
<1>1. low \in Nat \ {0} /\ high \in Nat \ {0}
  BY ConstantsOK DEF Levels
<1>2. XPToReach(low) <= XPToReach(high)
      /\ XPToReach(low) \in Int /\ XPToReach(high) \in Int
  BY <1>1, ReachGrows, SquaresStep
<1> QED
  BY <1>2

\* What a handler goes on with is what it had, but for the level it has checked.
LEMMA HandlerReads ==
    ASSUME TypeOK, [Next]_vars, NEW r \in Requests, pc'[r] # "idle"
    PROVE  \/ /\ pc[r] # "idle" /\ job'[r] = job[r]
              /\ pc'[r] \in {"previous", "insert"} =>
                     pc[r] \in {"previous", "insert"}
                     \/ LevelFromXP(xp[job[r].user]) >= job[r].required
           \/ pc'[r] = "level" /\ job'[r].required = gate /\ gate' = gate
<1>1. ASSUME NEW s \in Requests,
             \/ \E u \in Users, page \in Pages : ReadPage(s, u, page)
             \/ CheckLevel(s) \/ CheckPrevious(s) \/ CompleteStoryPage(s)
             \/ AddXP(s) \/ Die(s),
             s # r
      PROVE  pc'[r] = pc[r] /\ job'[r] = job[r]
  BY <1>1 DEF ReadPage, CheckLevel, CheckPrevious, CompleteStoryPage,
     AddXP, Die, End, Goto, TypeOK
<1>2. ASSUME NEW u \in Users, NEW page \in Pages, ReadPage(r, u, page)
      PROVE  pc'[r] = "level" /\ job'[r].required = gate /\ gate' = gate
  BY <1>2 DEF ReadPage, Goto, TypeOK, tables
<1>3. CASE CheckLevel(r)
  BY <1>3 DEF CheckLevel, End, Goto, TypeOK
<1>4. CASE CheckPrevious(r) \/ CompleteStoryPage(r) \/ AddXP(r) \/ Die(r)
  BY <1>4 DEF CheckPrevious, CompleteStoryPage, AddXP, Die, End, Goto, TypeOK
<1>5. CASE UNCHANGED <<pc, job>>
  BY <1>5
<1> QED
  BY <1>1, <1>2, <1>3, <1>4, <1>5 DEF Next, vars, AddStoryPage,
     UpdateStoryLevelRequired, EarnXP

\* Only the handler of a page adds it to what its player has done.
LEMMA DoneIsChecked ==
    ASSUME ReaderInv, [Next]_vars, NEW u \in Users, done'[u] # {}
    PROVE  \/ done[u] # {}
           \/ \E r \in Requests : pc[r] = "insert" /\ job[r].user = u
<1>1. CASE UNCHANGED done
  BY <1>1
<1>2. ASSUME NEW r \in Requests, CompleteStoryPage(r)
      PROVE  done[u] # {} \/ (pc[r] = "insert" /\ job[r].user = u)
  BY <1>2 DEF CompleteStoryPage, ReaderInv, AwardInv, TypeOK
<1> QED
  BY <1>1, <1>2 DEF Next, vars, tables, AddStoryPage, UpdateStoryLevelRequired,
     EarnXP, ReadPage, CheckLevel, CheckPrevious, AddXP, Die

LEMMA LevelsStep ==
    ASSUME ReaderInv, [Next]_vars
    PROVE  /\ \A r \in Requests :
                  /\ pc'[r] # "idle" => lowest' <= job'[r].required
                  /\ pc'[r] \in {"previous", "insert"} =>
                         XPToReach(job'[r].required) <= xp'[job'[r].user]
           /\ \A u \in Users : done'[u] # {} => XPToReach(lowest') <= xp'[u]
<1>0. TypeOK
  BY DEF ReaderInv, AwardInv
<1>1. /\ lowest \in Levels /\ lowest' \in Levels /\ lowest' <= lowest
      /\ \A u \in Users : xp[u] \in Nat /\ xp'[u] \in Nat /\ xp[u] <= xp'[u]
  BY <1>0, XPGrows
<1>2. ASSUME NEW r \in Requests, pc[r] # "idle"
      PROVE  job[r].user \in Users /\ job[r].required \in Levels
             /\ lowest <= job[r].required
  BY <1>0, <1>2, JobOf DEF Job, ReaderInv
<1>3. ASSUME NEW r \in Requests, pc'[r] # "idle"
      PROVE  lowest' <= job'[r].required
  <2>1. CASE pc[r] # "idle" /\ job'[r] = job[r]
    BY <1>1, <1>2, <2>1, ConstantsOK DEF Levels
  <2>2. CASE job'[r].required = gate
    BY <1>0, <1>1, <2>2, ConstantsOK DEF TypeOK, Levels
  <2> QED
    BY <1>0, <1>3, <2>1, <2>2, HandlerReads
<1>4. ASSUME NEW r \in Requests, pc'[r] \in {"previous", "insert"}
      PROVE  XPToReach(job'[r].required) <= xp'[job'[r].user]
  <2>1. /\ pc[r] # "idle" /\ job'[r] = job[r]
        /\ \/ pc[r] \in {"previous", "insert"}
           \/ LevelFromXP(xp[job[r].user]) >= job[r].required
    BY <1>0, <1>4, HandlerReads
  <2>2. job[r].user \in Users /\ job[r].required \in Levels
    BY <1>2, <2>1
  <2>w. PICK u \in Users, level \in Levels : u = job[r].user /\ level = job[r].required
    BY <2>2
  <2>3. xp[u] \in Nat /\ xp'[u] \in Nat /\ xp[u] <= xp'[u] /\ level <= level
    BY <1>1, ConstantsOK DEF Levels
  <2>4. CASE pc[r] \in {"previous", "insert"}
    <3>1. XPToReach(level) <= xp[u]
      BY <2>4, <2>w DEF ReaderInv
    <3>2. XPToReach(level) <= xp'[u]
      BY <2>3, <3>1, StillReaches
    <3> QED
      BY <2>1, <2>w, <3>2
  <2>5. CASE LevelFromXP(xp[job[r].user]) >= job[r].required
    <3>1. LevelFromXP(xp[u]) \in Levels /\ XPToReach(LevelFromXP(xp[u])) <= xp[u]
      BY <2>3, LevelIsEarned
    <3>2. level <= LevelFromXP(xp[u])
      BY <2>5, <2>w, <3>1, ConstantsOK DEF Levels
    <3>3. XPToReach(level) <= xp'[u]
      BY <2>3, <3>1, <3>2, StillReaches
    <3> QED
      BY <2>1, <2>w, <3>3
  <2> QED
    BY <2>1, <2>4, <2>5
<1>5. ASSUME NEW u \in Users, done'[u] # {}
      PROVE  XPToReach(lowest') <= xp'[u]
  <2>1. CASE done[u] # {}
    <3>1. XPToReach(lowest) <= xp[u]
      BY <2>1 DEF ReaderInv
    <3> QED
      BY <1>1, <3>1, StillReaches
  <2>2. ASSUME NEW r \in Requests, pc[r] = "insert", job[r].user = u
        PROVE  XPToReach(lowest') <= xp'[u]
    <3>1. XPToReach(job[r].required) <= xp[u]
      BY <2>2 DEF ReaderInv
    <3>2. job[r].required \in Levels /\ lowest <= job[r].required
      BY <1>2, <2>2
    <3>3. lowest' <= job[r].required
      BY <1>1, <3>2, ConstantsOK DEF Levels
    <3>w. PICK level \in Levels : level = job[r].required
      BY <3>2
    <3> QED
      BY <1>1, <3>1, <3>3, <3>w, StillReaches
  <2> QED
    BY <1>5, <2>1, <2>2, DoneIsChecked
<1> QED
  BY <1>3, <1>4, <1>5

-----------------------------------------------------------------------------
\* The pages are finitely many, and what they carry are numbers.
LEMMA PaidTyped ==
    ASSUME TypeOK, NEW u \in Users
    PROVE  /\ done[u] \subseteq 1 .. Len(pages) /\ Paid(u) \subseteq 1 .. Len(pages)
           /\ IsFiniteSet(done[u]) /\ IsFiniteSet(Paid(u))
           /\ \A page \in 1 .. Len(pages) : pages[page] \in Int
<1>1. Len(pages) \in Nat /\ done[u] \subseteq 1 .. Len(pages)
  BY DEF TypeOK
<1>2. IsFiniteSet(1 .. Len(pages))
  <2>1. PICK n \in Nat : n = Len(pages)
    BY <1>1
  <2>2. 1 \in Int /\ n \in Int
    BY <2>1
  <2>3. IsFiniteSet(1 .. n)
    BY <2>2, FS_Interval, ZenonT(30)
  <2> QED
    BY <2>1, <2>3
<1>3. Paid(u) \subseteq done[u]
  BY DEF Paid
<1>4. pages \in Seq(Rewards) /\ Rewards \subseteq Int
  BY ConstantsOK DEF TypeOK
<1>5. \A page \in 1 .. Len(pages) : pages[page] \in Rewards
  BY <1>1, <1>4
<1> QED
  BY <1>1, <1>2, <1>3, <1>4, <1>5, FS_Subset

\* A step that pays u nothing.
LEMMA PaidStays ==
    ASSUME ReaderInv, [Next]_vars, NEW u \in Users, Paid(u)' = Paid(u),
           \A page \in 1 .. Len(pages) : pages'[page] = pages[page]
    PROVE  SumOf(pages', Paid(u)') <= xp'[u]
<1>0. TypeOK
  BY DEF ReaderInv, AwardInv
<1>w. PICK S : S = Paid(u)
  OBVIOUS
<1>1. IsFiniteSet(S) /\ \A page \in S : pages'[page] = pages[page] /\ pages[page] \in Int
  BY <1>0, <1>w, PaidTyped
<1>2. SumOf(pages', S) = SumOf(pages, S) /\ SumOf(pages, S) \in Int
  BY <1>1, SumCong, SumTyped
<1>3. SumOf(pages, S) <= xp[u]
  BY <1>w DEF ReaderInv
<1>4. xp[u] \in Nat /\ xp'[u] \in Nat /\ xp[u] <= xp'[u]
  BY <1>0, XPGrows
<1>5. Paid(u)' = S
  BY <1>w
<1> QED
  BY <1>2, <1>3, <1>4, <1>5

LEMMA CompletePays ==
    ASSUME ReaderInv, NEW r \in Requests, CompleteStoryPage(r), NEW u \in Users
    PROVE  Paid(u)' = Paid(u)
<1>1. /\ job[r].user \in Users /\ job[r].page \in Pages
      /\ \A page \in Pages : Awards(u, page)
  BY JobOf DEF CompleteStoryPage, ReaderInv, AwardInv
<1>2. pages' = pages /\ credited' = credited
  BY DEF CompleteStoryPage, history
<1>3. ASSUME NEW page \in done'[u], page \notin done[u], credited[u][page] # 0
      PROVE  FALSE
  <2>1. page \in Pages
    BY <1>1, <1>3 DEF CompleteStoryPage, ReaderInv, AwardInv, TypeOK
  <2>2. ~Worth(u, page)
    BY <1>3 DEF Worth
  <2>3. Settled(u, page) = 0
    BY <1>1, <2>1, <2>2 DEF Awards
  <2>4. credited[u][page] \in Nat /\ lost[u][page] \in Nat
    BY <2>1 DEF ReaderInv, AwardInv, TypeOK
  <2> QED
    BY <1>3, <2>3, <2>4 DEF Settled
<1>4. done[u] \subseteq done'[u]
  BY <1>1 DEF CompleteStoryPage, ReaderInv, AwardInv, TypeOK
<1> QED
  BY <1>2, <1>3, <1>4 DEF Paid

LEMMA AwardPays ==
    ASSUME ReaderInv, NEW r \in Requests, AddXP(r), NEW u \in Users, job[r].user = u
    PROVE  SumOf(pages', Paid(u)') <= xp'[u]
<1>0. TypeOK
  BY DEF ReaderInv, AwardInv
<1>w. PICK page \in 1 .. Len(pages) : page = job[r].page
  BY <1>0, JobOf DEF AddXP
<1>1. Owes(r, u, page) /\ page \in Pages /\ job[r].reward = pages[page]
  BY <1>0, <1>w, JobOf DEF AddXP, Owes, ReaderInv, AwardInv, RewardRead
<1>2. Settled(u, page) = 0 /\ Worth(u, page)
  BY <1>1 DEF Awards, ReaderInv, AwardInv
<1>3. credited[u][page] = 0
  BY <1>1, <1>2 DEF Settled, ReaderInv, AwardInv, TypeOK
<1>4. /\ pages' = pages /\ done' = done
      /\ credited' = [credited EXCEPT ![u][page] = @ + 1]
      /\ xp' = [xp EXCEPT ![u] = @ + pages[page]]
  BY <1>1, <1>w DEF AddXP
<1>5. /\ credited'[u][page] = 1
      /\ \A other \in done[u] : other # page => credited'[u][other] = credited[u][other]
  BY <1>0, <1>1, <1>3, <1>4 DEF TypeOK
<1>6. Paid(u)' = Paid(u) \cup {page} /\ page \notin Paid(u)
  BY <1>2, <1>3, <1>4, <1>5 DEF Paid, Worth
<1>7. xp'[u] = xp[u] + pages[page] /\ xp[u] \in Nat /\ pages[page] \in Int
  BY <1>0, <1>4, PaidTyped DEF TypeOK
<1>v. PICK S : S = Paid(u)
  OBVIOUS
<1>8. IsFiniteSet(S) /\ page \notin S /\ \A x \in S \cup {page} : pages[x] \in Int
  BY <1>0, <1>6, <1>v, PaidTyped
<1>9. SumOf(pages, S \cup {page}) = SumOf(pages, S) + pages[page]
      /\ SumOf(pages, S) \in Int
  BY <1>8, SumAdd, SumTyped
<1>10. SumOf(pages, S) <= xp[u]
  BY <1>v DEF ReaderInv
<1>11. Paid(u)' = S \cup {page}
  BY <1>6, <1>v
<1> QED
  BY <1>4, <1>7, <1>9, <1>10, <1>11

LEMMA PaidStep ==
    ASSUME ReaderInv, [Next]_vars, NEW u \in Users
    PROVE  SumOf(pages', Paid(u)') <= xp'[u]
<1>0. TypeOK
  BY DEF ReaderInv, AwardInv
<1>1. CASE UNCHANGED <<pages, done, credited>>
  BY <1>1, PaidStays DEF Paid
<1>2. CASE AddStoryPage
  <2>1. done' = done /\ credited' = credited
        /\ \A page \in 1 .. Len(pages) : pages'[page] = pages[page]
    BY <1>0, <1>2 DEF AddStoryPage, TypeOK, history
  <2>2. Paid(u)' = Paid(u)
    BY <1>0, <2>1, PaidTyped DEF Paid
  <2> QED
    BY <2>1, <2>2, PaidStays
<1>3. ASSUME NEW r \in Requests, CompleteStoryPage(r)
      PROVE  SumOf(pages', Paid(u)') <= xp'[u]
  <2>1. pages' = pages
    BY <1>3 DEF CompleteStoryPage
  <2> QED
    BY <1>3, <2>1, CompletePays, PaidStays
<1>4. ASSUME NEW r \in Requests, AddXP(r)
      PROVE  SumOf(pages', Paid(u)') <= xp'[u]
  <2>1. CASE job[r].user # u
    <3>1. pages' = pages /\ done' = done /\ credited'[u] = credited[u]
      BY <1>0, <1>4, <2>1 DEF AddXP, TypeOK
    <3>2. Paid(u)' = Paid(u)
      BY <3>1 DEF Paid
    <3> QED
      BY <3>1, <3>2, PaidStays
  <2>2. CASE job[r].user = u
    BY <1>4, <2>2, AwardPays
  <2> QED
    BY <2>1, <2>2
<1> QED
  BY <1>1, <1>2, <1>3, <1>4 DEF Next, vars, tables, history, UpdateStoryLevelRequired,
     EarnXP, ReadPage, CheckLevel, CheckPrevious, Die

\* A part of a sum, and the rest, which adds nothing, or what T adds.
LEMMA SumParts ==
    ASSUME NEW S, IsFiniteSet(S), NEW f, \A x \in S : f[x] \in Int,
           NEW T \in SUBSET S, NEW R \in SUBSET S,
           \A x \in S : f[x] > 0 => x \in T \/ x \in R,
           \A x \in T \cup R : f[x] > 0
    PROVE  SumOf(f, S) <= SumOf(f, T) + SumOf(f, R)
<1> DEFINE Fits(s) == SumOf(f, s) <= SumOf(f, s \cap T) + SumOf(f, s \cap R)
           bad == {s \in SUBSET S : ~Fits(s)}
<1>0. ASSUME NEW s \in SUBSET S
      PROVE  /\ IsFiniteSet(s) /\ IsFiniteSet(s \cap T) /\ IsFiniteSet(s \cap R)
             /\ SumOf(f, s) \in Int /\ SumOf(f, s \cap T) \in Int /\ SumOf(f, s \cap R) \in Int
  <2>1. IsFiniteSet(s) /\ IsFiniteSet(s \cap T) /\ IsFiniteSet(s \cap R)
    BY FS_Subset
  <2>2. \A x \in s : f[x] \in Int
    OBVIOUS
  <2> QED
    BY <2>1, <2>2, SumTyped
<1>1. ASSUME bad # {} PROVE FALSE
  <2>1. PICK s \in bad : \A t \in bad : t \subseteq s => t = s
    <3>1. bad \subseteq SUBSET S
      OBVIOUS
    <3> HIDE DEF bad
    <3> QED
      BY <1>1, <3>1, SmallestSet
  <2>2. s \in SUBSET S /\ ~Fits(s)
    BY <2>1
  <2>3. s # {}
    <3>1. {} \cap T = {} /\ {} \cap R = {}
      OBVIOUS
    <3>2. SumOf(f, {}) = 0
      BY SumStep, FS_EmptySet
    <3>3. Fits({})
      BY <3>1, <3>2
    <3> QED
      BY <2>2, <3>3
  <2>4. PICK e \in s : TRUE
    BY <2>3
  <2> DEFINE t == s \ {e}
  <2>5. t \in SUBSET S /\ t \notin bad
    BY <2>1, <2>2, <2>4
  <2>6. Fits(t)
    BY <2>5
  <2>7. SumOf(f, s) = f[e] + SumOf(f, t)
    <3>1. IsFiniteSet(s) /\ \A x \in s : f[x] \in Int
      BY <1>0, <2>2
    <3> QED
      BY <2>4, <3>1, SumTakesAny
  <2> HIDE DEF t
  <2>8. ASSUME NEW X \in {T, R}
        PROVE  SumOf(f, s \cap X) = SumOf(f, t \cap X) + IF e \in X THEN f[e] ELSE 0
    <3>1. CASE e \in X
      <4> DEFINE k == s \cap X
      <4>1. IsFiniteSet(k) /\ e \in k /\ \A x \in k : f[x] \in Int
        BY <1>0, <2>2, <2>4, <3>1
      <4>2. k \ {e} = t \cap X
        BY DEF t
      <4> HIDE DEF k
      <4>3. SumOf(f, k) = f[e] + SumOf(f, k \ {e}) /\ f[e] \in Int
        BY <4>1, SumTakesAny
      <4>4. SumOf(f, t \cap X) \in Int
        BY <1>0, <2>5
      <4>5. SumOf(f, k \ {e}) = SumOf(f, t \cap X)
        BY <4>2, Zenon
      <4>6. SumOf(f, k) = SumOf(f, t \cap X) + f[e]
        BY <4>3, <4>4, <4>5
      <4>7. SumOf(f, s \cap X) = SumOf(f, t \cap X) + f[e]
        BY <4>6 DEF k
      <4>8. (IF e \in X THEN f[e] ELSE 0) = f[e]
        BY <3>1
      <4> QED
        BY <4>7, <4>8, Zenon
    <3>2. CASE e \notin X
      <4>1. s \cap X = t \cap X
        BY <3>2 DEF t
      <4>2. SumOf(f, s \cap X) = SumOf(f, t \cap X)
        BY <4>1, Zenon
      <4>3. SumOf(f, t \cap X) \in Int
        BY <1>0, <2>5
      <4>4. (IF e \in X THEN f[e] ELSE 0) = 0
        BY <3>2
      <4>5. SumOf(f, s \cap X) = SumOf(f, t \cap X) + 0
        BY <4>2, <4>3
      <4> QED
        BY <4>4, <4>5, Zenon
    <3> QED
      BY <3>1, <3>2
  <2>9. f[e] \in Int /\ (f[e] > 0 => e \in T \/ e \in R) /\ (e \in T \cup R => f[e] > 0)
    BY <2>2
  <2>10. /\ SumOf(f, t) \in Int /\ SumOf(f, t \cap T) \in Int /\ SumOf(f, t \cap R) \in Int
         /\ SumOf(f, t) <= SumOf(f, t \cap T) + SumOf(f, t \cap R)
    BY <1>0, <2>5, <2>6
  <2>11. /\ SumOf(f, s \cap T) = SumOf(f, t \cap T) + IF e \in T THEN f[e] ELSE 0
         /\ SumOf(f, s \cap R) = SumOf(f, t \cap R) + IF e \in R THEN f[e] ELSE 0
    BY <2>8
  <2>12. SumOf(f, s) <= SumOf(f, s \cap T) + SumOf(f, s \cap R)
    BY <2>7, <2>9, <2>10, <2>11
  <2> QED
    BY <2>2, <2>12
<1>2. Fits(S) /\ S \cap T = T /\ S \cap R = R
  BY <1>1
<1> QED
  BY <1>2

LEMMA EarnedIs ==
    ASSUME NEW S
    PROVE  MapThenSumSet(LAMBDA page : pages[page], S) = SumOf(pages, S)
<1>1. \A f : MapThenSumSet(LAMBDA page : f[page], S) = SumOf(f, S)
  BY SumOfFunction
<1> QED
  BY <1>1

LEMMA ReaderIsPaid == ASSUME ReaderInv PROVE NobodyReadsAhead
<1> DEFINE unpaid(u) == {page \in done[u] : pages[page] > 0 /\ credited[u][page] = 0}
<1>0. TypeOK
  BY DEF ReaderInv, AwardInv
<1>1. ASSUME NEW u \in Users, done[u] # {}
      PROVE  xp[u] >= XPToReach(lowest)
  <2>1. lowest \in Nat \ {0} /\ xp[u] \in Nat /\ XPToReach(lowest) <= xp[u]
    BY <1>0, <1>1 DEF ReaderInv, TypeOK, Levels
  <2>2. XPToReach(lowest) \in Int
    BY <2>1, SquaresStep
  <2> QED
    BY <2>1, <2>2
<1>2. ASSUME NEW u \in Users
      PROVE  SumOf(pages, done[u]) <= xp[u] + SumOf(pages, unpaid(u))
  <2>w. PICK S, T, R : S = done[u] /\ T = Paid(u) /\ R = unpaid(u)
    OBVIOUS
  <2>1. /\ IsFiniteSet(S) /\ \A x \in S : pages[x] \in Int
        /\ T \in SUBSET S /\ R \in SUBSET S
    BY <1>0, <2>w, PaidTyped DEF Paid
  <2>2. /\ \A x \in S : pages[x] > 0 => x \in T \/ x \in R
        /\ \A x \in T \cup R : pages[x] > 0
    BY <2>w DEF Paid
  <2>3. SumOf(pages, S) <= SumOf(pages, T) + SumOf(pages, R)
    BY <2>1, <2>2, SumParts
  <2>4. IsFiniteSet(T) /\ IsFiniteSet(R)
        /\ (\A x \in T : pages[x] \in Int) /\ (\A x \in R : pages[x] \in Int)
    BY <2>1, FS_Subset
  <2>5. SumOf(pages, S) \in Int /\ SumOf(pages, T) \in Int /\ SumOf(pages, R) \in Int
    BY <2>1, <2>4, SumTyped
  <2>6. SumOf(pages, T) <= xp[u] /\ xp[u] \in Nat
    BY <1>0, <2>w DEF ReaderInv, TypeOK
  <2>7. SumOf(pages, S) <= xp[u] + SumOf(pages, R)
    BY <2>3, <2>5, <2>6
  <2> QED
    BY <2>w, <2>7
<1>3. ASSUME NEW u \in Users
      PROVE  ListStories(u).earned = SumOf(pages, done[u])
  <2>1. EarnedXP(u) = SumOf(pages, done[u])
    BY EarnedIs DEF EarnedXP
  <2> QED
    BY <2>1 DEF ListStories
<1>4. ASSUME NEW u \in Users
      PROVE  MapThenSumSet(LAMBDA page : pages[page], unpaid(u)) = SumOf(pages, unpaid(u))
  BY EarnedIs
<1> QED
  BY <1>1, <1>2, <1>3, <1>4 DEF NobodyReadsAhead

\* Nobody has done a page without the XP that the gate at its lowest asks for,
\* although the gate, the level and the page before are read apart; and what the
\* list says a story has earned is in the balance, but for what is still unpaid.
THEOREM NobodyIsAhead == Spec => []NobodyReadsAhead
<1>1. Init => ReaderInv
  <2>1. ASSUME Init, NEW u \in Users
        PROVE  done[u] = {} /\ SumOf(pages, Paid(u)) <= xp[u]
    <3>1. done[u] = {} /\ xp[u] = 0
      BY <2>1 DEF Init
    <3>2. Paid(u) = {}
      BY <3>1 DEF Paid
    <3>3. SumOf(pages, {}) = 0
      BY SumStep, FS_EmptySet
    <3> QED
      BY <3>1, <3>2, <3>3
  <2>2. ASSUME Init, NEW r \in Requests
        PROVE  pc[r] = "idle"
    BY <2>2 DEF Init
  <2> QED
    BY <2>1, <2>2, AwardsInit DEF ReaderInv
<1>2. ReaderInv /\ [Next]_vars => ReaderInv'
  BY AwardStep, LevelsStep, PaidStep DEF ReaderInv
<1>3. ReaderInv => NobodyReadsAhead
  BY ReaderIsPaid
<1> QED
  BY <1>1, <1>2, <1>3, PTL DEF Spec
=============================================================================
