---------------------------- MODULE ExpeditionProofs ----------------------------
(***************************************************************************)
(* What holds of the expedition for any campaign, players, handlers and    *)
(* administrators.                                                         *)
(***************************************************************************)
EXTENDS Expedition, Counting

Top == MaxLevels

LEMMA TopIs == Top \in Nat /\ Indices = 1 .. Top /\ Cardinality(Admins) \in Nat /\ Cap <= Top
<1>1. Cardinality(Admins) \in Nat /\ Cardinality(Admins) # 0
  BY FS_CardinalityType, FS_EmptySet, ConstantsOK
<1> QED
  BY <1>1, ConstantsOK DEF Top, Indices

LEMMA IndicesFinite == IsFiniteSet(Indices) /\ Indices \subseteq Nat /\ 0 \notin Indices
  BY TopIs, FS_Interval

-----------------------------------------------------------------------------
(* The tiers of a table of levels l *)

LevelsOK(l) == DOMAIN l \subseteq Indices /\ l \in [DOMAIN l -> Row]

CountIn(l) == Max(DOMAIN l \cup {0})

TierIn(l, i) ==
    IF i > CountIn(l) THEN [star |-> 0, onMain |-> FALSE, xp |-> 0]
    ELSE IF i \notin DOMAIN l \/ l[i].config = NoConfig THEN TierForLevel(i)
    ELSE l[i].config

Stars(l) == [i \in Indices |-> TierIn(l, i).star]

MainBelow(l, i) == {k \in 1 .. i - 1 : TierIn(l, k).onMain}

Required(l, i) == SumOf(Stars(l), MainBelow(l, i))

LEMMA TiersAre ==
    /\ LevelCount = CountIn(levels)
    /\ \A i : EffectiveTier(i) = TierIn(levels, i)
    /\ \A S : SumOfStars(S) = SumOf(Stars(levels), S)
    /\ \A i : RequiredStars(i) = Required(levels, i)
<1>1. LevelCount = CountIn(levels)
  BY DEF LevelCount, CountIn
<1>2. ASSUME NEW i PROVE EffectiveTier(i) = TierIn(levels, i)
  BY <1>1 DEF EffectiveTier, TierIn
<1>3. ASSUME NEW S PROVE SumOfStars(S) = SumOf(Stars(levels), S)
  <2> DEFINE f == [i \in Indices |-> EffectiveTier(i).star]
  <2>1. f = Stars(levels)
    BY <1>2 DEF Stars
  <2>2. SumOfStars(S) = MapThenSumSet(LAMBDA i : f[i], S)
    BY DEF SumOfStars
  <2> HIDE DEF f
  <2>3. SumOfStars(S) = SumOf(f, S)
    BY <2>2, SumOfFunction
  <2> QED
    BY <2>1, <2>3
<1>4. ASSUME NEW i PROVE RequiredStars(i) = Required(levels, i)
  BY <1>2, <1>3 DEF RequiredStars, Required, MainBelow
<1> QED
  BY <1>1, <1>2, <1>3, <1>4

LEMMA CountIsLast ==
    ASSUME NEW l, DOMAIN l \subseteq Indices
    PROVE  /\ CountIn(l) \in 0 .. Top /\ CountIn(l) \in DOMAIN l \cup {0}
           /\ \A i \in DOMAIN l : i <= CountIn(l)
<1> DEFINE S == DOMAIN l \cup {0}
<1>1. S \in SUBSET Nat /\ S # {} /\ (\A i \in S : i <= Top) /\ Top \in Nat
  BY TopIs
<1>2. CountIn(l) = Max(S)
  BY DEF CountIn
<1>3. \A i \in DOMAIN l : i \in S
  OBVIOUS
<1>4. S \subseteq 0 .. Top
  BY <1>1
<1> HIDE DEF S
<1>5. Max(S) \in S /\ \A i \in S : i <= Max(S)
  BY <1>1, MaxOfBounded
<1> QED
  BY <1>2, <1>3, <1>4, <1>5 DEF S

LEMMA CountIsThat ==
    ASSUME NEW l, DOMAIN l \subseteq Indices, NEW n \in DOMAIN l,
           \A i \in DOMAIN l : i <= n
    PROVE  CountIn(l) = n
  BY CountIsLast, TopIs

LEMMA DefaultTier ==
    ASSUME NEW i \in Nat \ {0} PROVE TierForLevel(i) \in Tiers
<1> DEFINE band == Min({5, (i - 1) \div Band + 1})
<1>1. (i - 1) \div Band \in Nat
  BY ConstantsOK
<1>2. band \in 1 .. 5
  BY <1>1, MinOfPair
<1> HIDE DEF band
<1>3. <<100, 200, 300, 500, 1000>>[band] \in Nat
  BY <1>2
<1> QED
  BY <1>2, <1>3 DEF TierForLevel, Tiers, band

LEMMA TierTyped ==
    ASSUME NEW l, LevelsOK(l), NEW i \in Nat \ {0}
    PROVE  /\ TierIn(l, i).star \in Nat /\ TierIn(l, i).onMain \in BOOLEAN
           /\ TierIn(l, i).xp \in Nat
<1>1. i \in DOMAIN l /\ l[i].config # NoConfig => l[i].config \in Tiers
  BY ConstantsOK DEF LevelsOK, Row
<1>2. TierForLevel(i) \in Tiers
  BY DefaultTier
<1>3. [star |-> 0, onMain |-> FALSE, xp |-> 0] \in [star : Nat, onMain : BOOLEAN, xp : Nat]
  OBVIOUS
<1>4. \A t \in Tiers : t \in [star : Nat, onMain : BOOLEAN, xp : Nat]
  BY DEF Tiers
<1>5. TierIn(l, i) \in [star : Nat, onMain : BOOLEAN, xp : Nat]
  BY <1>1, <1>2, <1>3, <1>4 DEF TierIn
<1> QED
  BY <1>5

LEMMA StarsTyped ==
    ASSUME NEW l, LevelsOK(l)
    PROVE  /\ \A i \in Indices : Stars(l)[i] \in Nat /\ Stars(l)[i] = TierIn(l, i).star
           /\ \A S \in SUBSET Indices : SumOf(Stars(l), S) \in Nat
<1>1. \A i \in Indices : Stars(l)[i] \in Nat /\ Stars(l)[i] = TierIn(l, i).star
  BY TierTyped, IndicesFinite DEF Stars
<1>2. ASSUME NEW S \in SUBSET Indices
      PROVE  SumOf(Stars(l), S) \in Nat
  <2>1. IsFiniteSet(S) /\ \A i \in S : Stars(l)[i] \in Nat
    BY <1>1, IndicesFinite, FS_Subset
  <2> QED
    BY <2>1, SumTyped
<1> QED
  BY <1>1, <1>2

-----------------------------------------------------------------------------
(* Types *)

Removing == {a \in Admins : task[a] # NoTask /\ task[a].step \in {"played", "delete"}}

\* Types, with what makes them inductive: a handler at work has a request, an
\* administrator who will remove a level has counted it among the edits to come.
Typed ==
    /\ Shapes
    /\ edits + Cardinality(Removing) <= MaxEdits + Cardinality(Admins)
    /\ \A r \in Requests : pc[r] # "idle" => job[r] \in Job
    /\ \A a \in Admins : task[a] # NoTask => task[a] \in Task
    /\ \A a \in Admins : At(a, "played") \/ At(a, "delete") \/ At(a, "edit") =>
           task[a].level \in Indices

LEMMA TypedParts ==
    ASSUME Typed
    PROVE  /\ LevelsOK(levels)
           /\ progress \in [Users -> [Indices -> Statuses]]
           /\ bonus \in [Users -> 0 .. MaxBonus]
           /\ pc \in [Requests -> PCs] /\ job \in [Requests -> Job \cup {NoJob}]
           /\ task \in [Admins -> Task \cup {NoTask}] /\ edits \in Nat
           /\ credited \in [Users -> [Indices -> Nat]]
<1>1. 0 .. MaxEdits + Cardinality(Admins) \subseteq Nat
  OBVIOUS
<1> QED
  BY <1>1 DEF Typed, Shapes, LevelsOK

LEMMA JobOf ==
    ASSUME NEW j \in Job
    PROVE  j.user \in Users /\ j.level \in Indices /\ j.stars \in Nat /\ j.xp \in Nat
           /\ j.op \in Ops
  BY DEF Job

\* One value of a table of tables, replaced.
LEMMA PutTyped ==
    ASSUME NEW V, NEW D, NEW c \in [Users -> [D -> V]], NEW u \in Users, NEW i \in D, NEW v \in V
    PROVE  /\ [c EXCEPT ![u][i] = v] \in [Users -> [D -> V]]
           /\ \A w \in Users, k \in D :
                  [c EXCEPT ![u][i] = v][w][k] = IF w = u /\ k = i THEN v ELSE c[w][k]
  OBVIOUS

\* Handler r moves, the others wait.
Alone(r) == \A q \in Requests : q # r => pc'[q] = pc[q] /\ job'[q] = job[q]

LEMMA EndKeeps ==
    ASSUME Typed, NEW r \in Requests, End(r)
    PROVE  /\ pc' \in [Requests -> PCs] /\ job' \in [Requests -> Job \cup {NoJob}]
           /\ pc'[r] = "idle" /\ Alone(r)
  BY TypedParts DEF End, Goto, PCs, Alone

LEMMA InitTyped == ASSUME Init PROVE Typed
<1>1. LevelsOK(levels)
  <2>1. Len(Campaign) \in Nat /\ Len(Campaign) <= Top
    BY TopIs, ConstantsOK
  <2>2. DOMAIN Campaign = 1 .. Len(Campaign) /\ Campaign \in [1 .. Len(Campaign) -> Row]
    BY ConstantsOK
  <2> QED
    BY <2>1, <2>2, TopIs DEF Init, LevelsOK
<1>2. Removing = {}
  BY DEF Init, Removing
<1>3. Cardinality(Removing) = 0 /\ edits = 0
  BY <1>2, FS_EmptySet DEF Init
<1>4. MaxEdits + Cardinality(Admins) \in Nat
  BY TopIs, ConstantsOK
<1>5. Shapes
  BY <1>1, <1>4, ConstantsOK DEF Init, Shapes, LevelsOK, Statuses, PCs
<1> QED
  BY <1>3, <1>4, <1>5 DEF Init, Typed, At

\* What an administrator's step does to the levels, and to nobody else's task.
Sets(a, i, row) ==
    /\ DOMAIN levels' = DOMAIN levels \cup {i} /\ levels'[i] = row
    /\ \A k \in DOMAIN levels : k # i => levels'[k] = levels[k]

LEMMA SetRowSets ==
    ASSUME Typed, NEW a \in Admins, NEW i \in Indices, NEW row \in Row, SetRow(i, row)
    PROVE  Sets(a, i, row) /\ LevelsOK(levels')
  BY TypedParts DEF SetRow, Sets, LevelsOK

Others(a) == \A b \in Admins : b # a => task'[b] = task[b]

\* A task that begins or moves on (new), and one that ends (NoTask).
LEMMA TaskTyped ==
    ASSUME Typed, NEW a \in Admins, NEW new \in Task \cup {NoTask},
           task' = [task EXCEPT ![a] = new]
    PROVE  task' \in [Admins -> Task \cup {NoTask}] /\ task'[a] = new /\ Others(a)
  BY TypedParts DEF Others

LEMMA RemovingFinite ==
    /\ IsFiniteSet(Removing) /\ Cardinality(Removing) \in 0 .. Cardinality(Admins)
    /\ IsFiniteSet(Removing') /\ Cardinality(Removing') \in 0 .. Cardinality(Admins)
<1>1. Removing \subseteq Admins /\ Removing' \subseteq Admins
  BY DEF Removing
<1> QED
  BY <1>1, TopIs, ConstantsOK, FS_Subset, FS_CardinalityType

\* An administrator's step keeps the rest of the types, when it keeps these.
LEMMA AdminTyped ==
    ASSUME Typed, NEW a \in Admins, NEW new \in Task \cup {NoTask},
           task' = [task EXCEPT ![a] = new],
           new # NoTask /\ new.step # "create" => new.level \in Indices,
           LevelsOK(levels'), edits' \in {edits, edits + 1},
           edits' + Cardinality(Removing') <= MaxEdits + Cardinality(Admins),
           UNCHANGED <<progress, bonus, pc, job, credited>>
    PROVE  Typed'
<1>1. task' \in [Admins -> Task \cup {NoTask}] /\ task'[a] = new /\ Others(a)
  BY TaskTyped
<1>2. edits' \in 0 .. MaxEdits + Cardinality(Admins)
  BY TypedParts, RemovingFinite, TopIs, ConstantsOK
<1>3. Shapes'
  BY <1>1, <1>2 DEF Typed, Shapes, LevelsOK
<1>4. \A b \in Admins : At(b, "played")' \/ At(b, "delete")' \/ At(b, "edit")' =>
          task'[b].level \in Indices
  <2>1. ASSUME NEW b \in Admins, b # a,
               At(b, "played")' \/ At(b, "delete")' \/ At(b, "edit")'
        PROVE  task'[b].level \in Indices
    BY <1>1, <2>1 DEF Others, At, Typed
  <2>2. At(a, "played")' \/ At(a, "delete")' \/ At(a, "edit")' => task'[a].level \in Indices
    BY <1>1 DEF At
  <2> QED
    BY <2>1, <2>2
<1>5. \A b \in Admins : task'[b] # NoTask => task'[b] \in Task
  BY <1>1
<1> QED
  BY <1>3, <1>4, <1>5 DEF Typed

\* Who removes a level, after a step of a, which is (new) or is not then.
LEMMA RemovingMoves ==
    ASSUME Typed, NEW a \in Admins, NEW new \in Task \cup {NoTask},
           task' = [task EXCEPT ![a] = new]
    PROVE  /\ new # NoTask /\ new.step \in {"played", "delete"} =>
                  Removing' = Removing \cup {a}
           /\ ~(new # NoTask /\ new.step \in {"played", "delete"}) =>
                  Removing' = Removing \ {a}
<1>1. task'[a] = new /\ Others(a)
  BY TaskTyped
<1> QED
  BY <1>1 DEF Removing, Others

LEMMA TaskKinds ==
    /\ \A i \in Indices \cup {0}, step \in {"create", "played", "delete", "edit"} :
           LET t == [step |-> step, level |-> i]
           IN  t \in Task /\ t.step = step /\ t.level = i
  BY DEF Task

LEMMA AdminStepTyped ==
    ASSUME Typed, NEW a \in Admins,
           \/ BeginCreate(a) \/ CreateExpeditionLevel(a)
           \/ CountPlayed(a) \/ DeleteLevel(a) \/ SetLevelImage(a)
           \/ \E i \in Indices : BeginDelete(a, i) \/ BeginEdit(a, i)
           \/ \E config \in Configs : UpdateLevelConfig(a, config)
           \/ AdminDies(a)
    PROVE  Typed'
<1> DEFINE sum == MaxEdits + Cardinality(Admins)
<1>0. /\ Cardinality(Removing) \in Nat /\ Cardinality(Removing') \in Nat
      /\ IsFiniteSet(Removing) /\ Cardinality(Removing') <= Cardinality(Admins)
      /\ edits \in Nat /\ MaxEdits \in Nat /\ Cardinality(Admins) \in Nat
      /\ edits + Cardinality(Removing) <= sum
  BY RemovingFinite, TypedParts, TopIs, ConstantsOK DEF Typed
<1>l. LevelsOK(levels)
  BY TypedParts
\* Steps after which a removes nothing, and that count no edit.
<1>1. ASSUME NEW new \in Task \cup {NoTask}, task' = [task EXCEPT ![a] = new],
             new # NoTask => new.step \in {"create", "edit"},
             new # NoTask /\ new.step = "edit" => new.level \in Indices,
             LevelsOK(levels'), UNCHANGED <<progress, bonus, pc, job, edits, credited>>
      PROVE  Typed'
  <2>1. Removing' = Removing \ {a}
    BY <1>1, RemovingMoves
  <2>2. Cardinality(Removing') <= Cardinality(Removing)
    BY <1>0, <2>1, FS_Subset
  <2>3. edits' + Cardinality(Removing') <= sum
    BY <1>0, <1>1, <2>2
  <2> QED
    BY <1>1, <2>3, AdminTyped
<1>2. CASE BeginCreate(a)
  <2> DEFINE new == [step |-> "create", level |-> 0]
  <2>1. new \in Task /\ new.step = "create"
    BY TaskKinds
  <2>2. task' = [task EXCEPT ![a] = new] /\ LevelsOK(levels')
        /\ UNCHANGED <<progress, bonus, pc, job, edits, credited>>
    BY <1>2, <1>l DEF BeginCreate, Begin, tables
  <2> HIDE DEF new
  <2> QED
    BY <1>1, <2>1, <2>2
<1>3. CASE CreateExpeditionLevel(a)
  <2>1. LevelsOK(levels')
    BY <1>3, TiersAre, SetRowSets DEF CreateExpeditionLevel, Row
  <2> QED
    BY <1>1, <1>3, <2>1 DEF CreateExpeditionLevel, Finish
<1>4. CASE CountPlayed(a)
  <2> DEFINE new == [task[a] EXCEPT !.step = "delete"]
  <2>1. task[a] \in Task /\ task[a].level \in Indices /\ a \in Removing
    BY <1>4 DEF CountPlayed, At, Typed, Removing
  <2>2. new \in Task /\ new.step = "delete" /\ new.level = task[a].level
    BY <2>1 DEF Task
  <2>3. task' = [task EXCEPT ![a] = new] /\ LevelsOK(levels')
        /\ UNCHANGED <<progress, bonus, pc, job, edits, credited>>
    BY <1>4, <1>l DEF CountPlayed, tables
  <2> HIDE DEF new
  <2>4. edits' + Cardinality(Removing') <= sum
    <3>1. new # NoTask => Removing' = Removing \cup {a}
      BY <2>2, <2>3, RemovingMoves
    <3>2. new = NoTask => Removing' = Removing \ {a}
      BY <2>2, <2>3, RemovingMoves
    <3>3. Cardinality(Removing') <= Cardinality(Removing)
      <4>1. Removing' \subseteq Removing
        BY <2>1, <3>1, <3>2
      <4> QED
        BY <1>0, <4>1, FS_Subset
    <3> QED
      BY <1>0, <2>3, <3>3
  <2> QED
    BY <2>1, <2>2, <2>3, <2>4, AdminTyped
<1>5. CASE DeleteLevel(a)
  <2>1. a \in Removing /\ task[a].level \in Indices
    BY <1>5 DEF DeleteLevel, At, Typed, Removing
  <2>2. /\ task' = [task EXCEPT ![a] = NoTask] /\ edits' = edits + 1
        /\ UNCHANGED <<progress, bonus, pc, job, credited>>
        /\ levels' = [i \in DOMAIN levels \ {task[a].level} |-> levels[i]]
    BY <1>5 DEF DeleteLevel, Finish
  <2>3. LevelsOK(levels')
    BY <1>l, <2>2 DEF LevelsOK
  <2>4. Removing' = Removing \ {a}
    BY <2>2, RemovingMoves
  <2>5. Cardinality(Removing') = Cardinality(Removing) - 1
    BY <1>0, <2>1, <2>4, FS_RemoveElement
  <2>6. edits' + Cardinality(Removing') <= sum
    BY <1>0, <2>2, <2>5
  <2> QED
    BY <2>2, <2>3, <2>6, AdminTyped
<1>6. CASE SetLevelImage(a)
  <2> DEFINE i == task[a].level
             row == [config |-> IF i \in DOMAIN levels THEN levels[i].config ELSE NoConfig,
                     image |-> TRUE]
  <2>1. i \in Indices /\ SetRow(i, row)
    BY <1>6 DEF SetLevelImage, Typed
  <2>2. row \in Row
    BY <1>l DEF LevelsOK, Row
  <2> HIDE DEF row, i
  <2>3. LevelsOK(levels')
    BY <2>1, <2>2, SetRowSets
  <2> QED
    BY <1>1, <1>6, <2>3 DEF SetLevelImage, Finish
<1>7. ASSUME NEW i \in Indices, BeginDelete(a, i)
      PROVE  Typed'
  <2> DEFINE new == [step |-> "played", level |-> i]
  <2>1. new \in Task /\ new.step = "played" /\ new.level = i
    BY TaskKinds
  <2>2. /\ task' = [task EXCEPT ![a] = new] /\ LevelsOK(levels') /\ edits < MaxEdits
        /\ UNCHANGED <<progress, bonus, pc, job, edits, credited>>
    BY <1>7, <1>l DEF BeginDelete, Begin, tables
  <2> HIDE DEF new
  <2>3. edits' + Cardinality(Removing') <= sum
    BY <1>0, <2>2
  <2> QED
    BY <1>7, <2>1, <2>2, <2>3, AdminTyped
<1>8. ASSUME NEW i \in Indices, BeginEdit(a, i)
      PROVE  Typed'
  <2> DEFINE new == [step |-> "edit", level |-> i]
  <2>1. new \in Task /\ new.step = "edit" /\ new.level = i
    BY TaskKinds
  <2>2. /\ task' = [task EXCEPT ![a] = new] /\ LevelsOK(levels')
        /\ UNCHANGED <<progress, bonus, pc, job, edits, credited>>
    BY <1>8, <1>l DEF BeginEdit, Begin, tables
  <2> HIDE DEF new
  <2> QED
    BY <1>1, <1>8, <2>1, <2>2
<1>9. ASSUME NEW config \in Configs, UpdateLevelConfig(a, config)
      PROVE  Typed'
  <2> DEFINE i == task[a].level
             seen == i \in DOMAIN levels /\ levels[i].image
             row == [config |-> config, image |-> seen]
  <2>1. i \in Indices /\ SetRow(i, row)
    BY <1>9 DEF UpdateLevelConfig, Typed
  <2>2. seen \in BOOLEAN
    BY Zenon DEF Typed
  <2> HIDE DEF seen, i
  <2>3. row \in Row
    BY <2>2 DEF Row
  <2> HIDE DEF row
  <2>4. LevelsOK(levels')
    BY <2>1, <2>3, SetRowSets
  <2>5. /\ task' = [task EXCEPT ![a] = NoTask] /\ edits' = edits + 1 /\ edits < MaxEdits
        /\ UNCHANGED <<progress, bonus, pc, job, credited>>
    BY <1>9 DEF UpdateLevelConfig, Finish
  <2>6. edits' + Cardinality(Removing') <= sum
    BY <1>0, <2>5
  <2> QED
    BY <2>4, <2>5, <2>6, AdminTyped
<1>10. CASE AdminDies(a)
  BY <1>1, <1>10, <1>l DEF AdminDies, Finish, tables
<1> QED
  BY <1>2, <1>3, <1>4, <1>5, <1>6, <1>7, <1>8, <1>9, <1>10

\* A handler's step keeps the types, when it keeps these.
LEMMA HandlerTyped ==
    ASSUME Typed, NEW r \in Requests,
           pc' \in [Requests -> PCs], job' \in [Requests -> Job \cup {NoJob}], Alone(r),
           pc'[r] # "idle" => job'[r] \in Job,
           progress' \in [Users -> [Indices -> Statuses]],
           credited' \in [Users -> [Indices -> Nat]],
           UNCHANGED <<levels, bonus, task, edits>>
    PROVE  Typed'
<1>1. Shapes'
  BY DEF Typed, Shapes
<1>2. Removing' = Removing
  BY DEF Removing
<1>3. \A q \in Requests : pc'[q] # "idle" => job'[q] \in Job
  BY DEF Typed, Alone
<1> QED
  BY <1>1, <1>2, <1>3 DEF Typed, At

\* A handler goes on with new.
LEMMA GoesOn ==
    ASSUME Typed, NEW r \in Requests, NEW step \in PCs, Goto(r, step),
           NEW new \in Job, job' = [job EXCEPT ![r] = new]
    PROVE  /\ pc' \in [Requests -> PCs] /\ job' \in [Requests -> Job \cup {NoJob}]
           /\ Alone(r) /\ pc'[r] = step /\ job'[r] = new
  BY TypedParts DEF Goto, Alone

CompletedIn(P, u) == {i \in Indices : P[u][i] = "completed"}

\* The stars of a player: those of the levels won, and those bought.
Total(l, P, b, u) == SumOf(Stars(l), CompletedIn(P, u)) + b[u]

LEMMA TotalIs == \A u : TotalExpeditionStars(u) = Total(levels, progress, bonus, u)
<1>1. ASSUME NEW u PROVE CompletedLevels(u) = CompletedIn(progress, u)
  BY DEF CompletedLevels, CompletedIn
<1> QED
  BY <1>1, TiersAre DEF TotalExpeditionStars, Total

LEMMA TotalTyped ==
    ASSUME NEW l, LevelsOK(l), NEW P, NEW b \in [Users -> 0 .. MaxBonus], NEW u \in Users
    PROVE  Total(l, P, b, u) \in Nat
<1>1. CompletedIn(P, u) \in SUBSET Indices /\ b[u] \in Nat
  BY DEF CompletedIn
<1>2. SumOf(Stars(l), CompletedIn(P, u)) \in Nat
  BY <1>1, StarsTyped
<1> QED
  BY <1>1, <1>2 DEF Total

LEMMA HandlerStepTyped ==
    ASSUME Typed, NEW r \in Requests,
           \/ \E u \in Users, op \in Ops, i \in Indices : Load(r, u, op, i)
           \/ ReadStars(r) \/ Gate(r) \/ LevelImageID(r)
           \/ StartExpeditionLevel(r) \/ FailExpeditionLevel(r)
           \/ CompleteExpeditionLevel(r) \/ AddXP(r) \/ GiveUp(r)
    PROVE  Typed'
<1>0. /\ progress \in [Users -> [Indices -> Statuses]]
      /\ credited \in [Users -> [Indices -> Nat]] /\ LevelsOK(levels)
      /\ bonus \in [Users -> 0 .. MaxBonus]
  BY TypedParts
<1>1. pc[r] # "idle" => job[r] \in Job /\ job[r].user \in Users /\ job[r].level \in Indices
  BY JobOf DEF Typed
\* A step that writes no table, and goes on with new.
<1>2. ASSUME NEW new \in Job, NEW step \in PCs, Goto(r, step), job' = [job EXCEPT ![r] = new],
             UNCHANGED <<tables, Administration, credited>>
      PROVE  Typed'
  BY <1>0, <1>2, GoesOn, HandlerTyped DEF tables, Administration
\* A step that ends the handler.
<1>3. ASSUME End(r), UNCHANGED <<levels, bonus, task, edits>>,
             progress' \in [Users -> [Indices -> Statuses]],
             credited' \in [Users -> [Indices -> Nat]]
      PROVE  Typed'
  BY <1>3, EndKeeps, HandlerTyped
\* What is written to the row of a level of the player.
<1>4. ASSUME NEW status \in Statuses, pc[r] # "idle"
      PROVE  [progress EXCEPT ![job[r].user][job[r].level] = status]
                 \in [Users -> [Indices -> Statuses]]
  BY <1>0, <1>1, <1>4, PutTyped
<1>5. ASSUME NEW u \in Users, NEW op \in Ops, NEW i \in Indices, Load(r, u, op, i)
      PROVE  Typed'
  <2> DEFINE new == [user |-> u, op |-> op, level |-> i, stars |-> 0, xp |-> 0]
  <2>1. new \in Job
    BY DEF Job
  <2>2. Goto(r, IF op = "fail" THEN "fail" ELSE "stars") /\ job' = [job EXCEPT ![r] = new]
        /\ UNCHANGED <<tables, Administration, credited>>
    BY <1>5 DEF Load
  <2>3. (IF op = "fail" THEN "fail" ELSE "stars") \in PCs
    BY DEF PCs
  <2> HIDE DEF new
  <2> QED
    BY <1>2, <2>1, <2>2, <2>3
<1>6. CASE ReadStars(r)
  <2> DEFINE n == TotalExpeditionStars(job[r].user)
             new == [job[r] EXCEPT !.stars = n]
  <2>1. job[r] \in Job /\ job[r].user \in Users
    BY <1>1, <1>6 DEF ReadStars
  <2>2. n \in Nat
    BY <1>0, <2>1, TotalIs, TotalTyped
  <2> HIDE DEF n
  <2>3. new \in Job
    BY <2>1, <2>2 DEF Job
  <2>4. Goto(r, "gate") /\ job' = [job EXCEPT ![r] = new]
        /\ UNCHANGED <<tables, Administration, credited>>
    BY <1>6 DEF ReadStars, n
  <2>5. "gate" \in PCs
    BY DEF PCs
  <2> HIDE DEF new
  <2> QED
    BY <1>2, <2>3, <2>4, <2>5
<1>7. CASE Gate(r)
  <2> DEFINE x == EffectiveTier(job[r].level).xp
             start == [job[r] EXCEPT !.stars = 0]
             complete == [job[r] EXCEPT !.stars = 0, !.xp = x]
  <2>1. job[r] \in Job /\ job[r].level \in Nat \ {0}
    BY <1>1, <1>7, IndicesFinite DEF Gate
  <2>2. x \in Nat
    BY <1>0, <2>1, TiersAre, TierTyped
  <2>3. /\ UNCHANGED <<tables, Administration, credited>>
        /\ \/ Goto(r, "image") /\ job' = [job EXCEPT ![r] = start]
           \/ Goto(r, "complete") /\ job' = [job EXCEPT ![r] = complete]
    BY <1>7 DEF Gate
  <2> HIDE DEF x
  <2>4. start \in Job /\ complete \in Job
    BY <2>1, <2>2 DEF Job
  <2>5. "image" \in PCs /\ "complete" \in PCs
    BY DEF PCs
  <2> HIDE DEF start, complete
  <2> QED
    BY <1>2, <2>3, <2>4, <2>5
<1>8. CASE LevelImageID(r)
  <2>1. job[r] \in Job /\ job' = [job EXCEPT ![r] = job[r]] /\ Goto(r, "start")
        /\ UNCHANGED <<tables, Administration, credited>>
    BY <1>1, <1>8, TypedParts DEF LevelImageID
  <2> QED
    BY <1>2, <2>1 DEF PCs
<1>9. CASE StartExpeditionLevel(r)
  <2>1. Started(progress[job[r].user][job[r].level]) \in Statuses
    BY DEF Started, Statuses
  <2> QED
    BY <1>0, <1>3, <1>4, <1>9, <2>1 DEF StartExpeditionLevel, Administration
<1>10. CASE FailExpeditionLevel(r)
  <2>1. "failed" \in Statuses
    BY DEF Statuses
  <2> QED
    BY <1>0, <1>3, <1>4, <1>10, <2>1 DEF FailExpeditionLevel, Administration
<1>11. CASE CompleteExpeditionLevel(r)
  <2>1. progress' \in [Users -> [Indices -> Statuses]] /\ pc[r] = "complete"
    BY <1>4, <1>11 DEF CompleteExpeditionLevel, Statuses
  <2>2. CASE End(r)
    BY <1>0, <1>3, <1>11, <2>1, <2>2 DEF CompleteExpeditionLevel, Administration
  <2>3. CASE Goto(r, "award") /\ UNCHANGED job
    <3>1. job[r] \in Job /\ job' = [job EXCEPT ![r] = job[r]] /\ "award" \in PCs
      BY <1>1, <2>1, <2>3, TypedParts DEF PCs
    <3>2. /\ pc' \in [Requests -> PCs] /\ job' \in [Requests -> Job \cup {NoJob}]
          /\ Alone(r) /\ job'[r] \in Job
      BY <2>3, <3>1, GoesOn
    <3> QED
      BY <1>0, <1>11, <2>1, <3>2, HandlerTyped DEF CompleteExpeditionLevel, Administration
  <2> QED
    BY <1>11, <2>2, <2>3 DEF CompleteExpeditionLevel
<1>12. CASE AddXP(r)
  <2>1. credited[job[r].user][job[r].level] + 1 \in Nat
    BY <1>0, <1>1, <1>12 DEF AddXP
  <2>2. credited' \in [Users -> [Indices -> Nat]]
    BY <1>0, <1>1, <1>12, <2>1, PutTyped DEF AddXP
  <2> QED
    BY <1>0, <1>3, <1>12, <2>2 DEF AddXP, tables, Administration
<1>13. CASE GiveUp(r)
  BY <1>0, <1>3, <1>13 DEF GiveUp, tables, Administration
<1> QED
  BY <1>5, <1>6, <1>7, <1>8, <1>9, <1>10, <1>11, <1>12, <1>13

LEMMA TypeStep == ASSUME Typed, [Next]_vars PROVE Typed'
<1>1. CASE UNCHANGED vars
  BY <1>1 DEF vars, tables, Typed, Shapes, Removing, At
<1>2. ASSUME NEW u \in Users, BuyStars(u)
      PROVE  Typed'
  <2>1. bonus' \in [Users -> 0 .. MaxBonus]
    BY <1>2, TypedParts, ConstantsOK DEF BuyStars
  <2>2. Removing' = Removing
    BY <1>2 DEF BuyStars, Administration, Removing
  <2> QED
    BY <1>2, <2>1, <2>2 DEF BuyStars, Administration, Typed, Shapes, At
<1> QED
  BY <1>1, <1>2, AdminStepTyped, HandlerStepTyped DEF Next

-----------------------------------------------------------------------------
(* What becomes of a player's row *)

Wins(r, u, i) ==
    /\ pc[r] = "complete" /\ progress[u][i] = "in_progress"
    /\ progress'[u][i] = "completed"

\* Handler r moves the row of its own player and level.
RowMoves(r, u, i) ==
    /\ job[r].user = u /\ job[r].level = i
    /\ \/ /\ pc[r] = "start" /\ progress[u][i] # "completed"
          /\ progress'[u][i] = "in_progress"
       \/ /\ pc[r] = "fail" /\ progress[u][i] = "in_progress"
          /\ progress'[u][i] = "failed"
       \/ Wins(r, u, i)

LEMMA RowStep ==
    ASSUME Typed, [Next]_vars, NEW u \in Users, NEW i \in Indices
    PROVE  progress'[u][i] = progress[u][i] \/ \E r \in Requests : RowMoves(r, u, i)
<1>0. progress \in [Users -> [Indices -> Statuses]]
  BY TypedParts
<1>1. ASSUME NEW r \in Requests, NEW status \in Statuses, pc[r] # "idle",
             progress' = [progress EXCEPT ![job[r].user][job[r].level] = status]
      PROVE  /\ progress'[u][i] = progress[u][i] \/ (job[r].user = u /\ job[r].level = i)
             /\ job[r].user = u /\ job[r].level = i => progress'[u][i] = status
  <2>1. job[r].user \in Users /\ job[r].level \in Indices
    BY <1>1, JobOf DEF Typed
  <2> QED
    BY <1>0, <1>1, <2>1, PutTyped
<1>2. ASSUME NEW r \in Requests, StartExpeditionLevel(r)
      PROVE  progress'[u][i] = progress[u][i] \/ RowMoves(r, u, i)
  <2> DEFINE old == progress[job[r].user][job[r].level]
  <2>1. /\ pc[r] = "start"
        /\ progress' = [progress EXCEPT ![job[r].user][job[r].level] = Started(old)]
    BY <1>2 DEF StartExpeditionLevel
  <2>2. Started(old) \in Statuses
    BY DEF Started, Statuses
  <2> HIDE DEF old
  <2>3. \/ progress'[u][i] = progress[u][i]
        \/ job[r].user = u /\ job[r].level = i /\ progress'[u][i] = Started(old)
    BY <1>1, <2>1, <2>2
  <2>4. job[r].user = u /\ job[r].level = i => old = progress[u][i]
    BY DEF old
  <2> QED
    BY <2>1, <2>3, <2>4 DEF Started, RowMoves
<1>3. ASSUME NEW r \in Requests, FailExpeditionLevel(r)
      PROVE  progress'[u][i] = progress[u][i] \/ RowMoves(r, u, i)
  <2>1. /\ pc[r] = "fail" /\ "failed" \in Statuses
        /\ progress' = [progress EXCEPT ![job[r].user][job[r].level] = "failed"]
        /\ progress[job[r].user][job[r].level] = "in_progress"
    BY <1>3 DEF FailExpeditionLevel, MayFinish, Statuses
  <2> QED
    BY <1>1, <2>1 DEF RowMoves
<1>4. ASSUME NEW r \in Requests, CompleteExpeditionLevel(r)
      PROVE  progress'[u][i] = progress[u][i] \/ RowMoves(r, u, i)
  <2>1. /\ pc[r] = "complete" /\ "completed" \in Statuses
        /\ progress' = [progress EXCEPT ![job[r].user][job[r].level] = "completed"]
        /\ progress[job[r].user][job[r].level] = "in_progress"
    BY <1>4 DEF CompleteExpeditionLevel, MayFinish, Statuses
  <2> QED
    BY <1>1, <2>1 DEF RowMoves, Wins
<1>5. CASE UNCHANGED progress
  BY <1>5
<1> QED
  BY <1>2, <1>3, <1>4, <1>5
     DEF Next, vars, tables, Load, ReadStars, Gate, LevelImageID, AddXP, GiveUp, BuyStars,
         BeginCreate, BeginDelete, BeginEdit, Begin, CreateExpeditionLevel, CountPlayed,
         DeleteLevel, SetLevelImage, UpdateLevelConfig, AdminDies

\* A level that is won stays won.
LEMMA WonForGood ==
    ASSUME Typed, [Next]_vars, NEW u \in Users, NEW i \in Indices,
           progress[u][i] = "completed"
    PROVE  progress'[u][i] = "completed"
<1>1. CASE progress'[u][i] = progress[u][i]
  BY <1>1
<1>2. CASE \E r \in Requests : RowMoves(r, u, i)
  BY <1>2 DEF RowMoves, Wins
<1> QED
  BY <1>1, <1>2, RowStep

-----------------------------------------------------------------------------
(* XP comes once for each level that is won *)

Owing(u, i) == {r \in Requests : /\ pc[r] = "award"
                                 /\ job[r].user = u /\ job[r].level = i}

Awards(u, i) == credited[u][i] + Cardinality(Owing(u, i))

Accounted(u, i) ==
    /\ IsFiniteSet(Owing(u, i))
    /\ Awards(u, i) <= IF progress[u][i] = "completed" THEN 1 ELSE 0

AwardInv == Typed /\ \A u \in Users, i \in Indices : Accounted(u, i)

\* A step after which nobody owes who did not owe before, and that credits nothing.
Quiet ==
    /\ \A u \in Users, i \in Indices : Owing(u, i)' \subseteq Owing(u, i)
    /\ credited' = credited

LEMMA QuietAwards ==
    ASSUME AwardInv, [Next]_vars, Quiet, NEW u \in Users, NEW i \in Indices
    PROVE  Accounted(u, i)'
<1>1. Accounted(u, i) /\ credited[u][i] \in Nat
  BY TypedParts DEF AwardInv
<1>2. progress[u][i] = "completed" => progress'[u][i] = "completed"
  BY WonForGood DEF AwardInv
<1> DEFINE new == Owing(u, i)'
           old == Owing(u, i)
<1>3. new \subseteq old /\ IsFiniteSet(old)
  BY <1>1 DEF Quiet, Accounted
<1> HIDE DEF new, old
<1>4. /\ IsFiniteSet(new) /\ Cardinality(new) <= Cardinality(old)
      /\ Cardinality(new) \in Nat /\ Cardinality(old) \in Nat
  BY <1>3, FS_Subset, FS_CardinalityType
<1>5. Awards(u, i)' <= Awards(u, i) /\ Awards(u, i)' \in Nat /\ Awards(u, i) \in Nat
  BY <1>1, <1>4 DEF Awards, Quiet, new, old
<1> QED
  BY <1>1, <1>2, <1>4, <1>5 DEF Accounted, new

\* A handler that moves alone, and not to the award, owes nothing new.
LEMMA NoneOwes ==
    ASSUME NEW r \in Requests, Alone(r), pc'[r] # "award",
           NEW u \in Users, NEW i \in Indices
    PROVE  Owing(u, i)' = Owing(u, i) \ {r}
  BY DEF Owing, Alone

LEMMA WinAwards ==
    ASSUME AwardInv, [Next]_vars, NEW r \in Requests, CompleteExpeditionLevel(r),
           Goto(r, "award"), UNCHANGED job, NEW u \in Users, NEW i \in Indices
    PROVE  Accounted(u, i)'
<1>1. Accounted(u, i) /\ credited[u][i] \in Nat /\ Alone(r) /\ pc'[r] = "award"
      /\ pc[r] = "complete" /\ credited' = credited /\ job' = job
      /\ progress \in [Users -> [Indices -> Statuses]]
  BY TypedParts DEF AwardInv, Goto, Alone, CompleteExpeditionLevel
<1>2. job[r].user \in Users /\ job[r].level \in Indices
  BY <1>1, JobOf DEF AwardInv, Typed
<1>3. /\ MayFinish(progress[job[r].user][job[r].level])
      /\ progress' = [progress EXCEPT ![job[r].user][job[r].level] = "completed"]
      /\ "completed" \in Statuses
  BY DEF CompleteExpeditionLevel, Statuses
<1>4. CASE job[r].user = u /\ job[r].level = i
  <2>1. Owing(u, i)' = Owing(u, i) \cup {r} /\ r \notin Owing(u, i)
    BY <1>1, <1>4 DEF Owing, Alone
  <2>2. /\ IsFiniteSet(Owing(u, i)')
        /\ Cardinality(Owing(u, i)') = Cardinality(Owing(u, i)) + 1
    BY <1>1, <2>1, FS_AddElement DEF Accounted
  <2>3. Awards(u, i) <= 0
    BY <1>1, <1>3, <1>4 DEF MayFinish, Accounted
  <2>4. Cardinality(Owing(u, i)) \in Nat
    BY <1>1, FS_CardinalityType DEF Accounted
  <2>5. Awards(u, i)' <= 1
    BY <1>1, <2>2, <2>3, <2>4 DEF Awards
  <2>6. progress'[u][i] = "completed"
    BY <1>1, <1>2, <1>3, <1>4, PutTyped
  <2> QED
    BY <2>2, <2>5, <2>6 DEF Accounted
<1>5. CASE ~(job[r].user = u /\ job[r].level = i)
  <2>1. Owing(u, i)' = Owing(u, i)
    <3>1. ASSUME NEW q \in Requests
          PROVE  q \in Owing(u, i)' <=> q \in Owing(u, i)
      BY <1>1, <1>5 DEF Owing, Alone
    <3> QED
      BY <3>1 DEF Owing
  <2>2. progress'[u][i] = progress[u][i]
    BY <1>1, <1>2, <1>3, <1>5, PutTyped
  <2> QED
    BY <1>1, <2>1, <2>2 DEF Accounted, Awards
<1> QED
  BY <1>4, <1>5

LEMMA CreditAwards ==
    ASSUME AwardInv, [Next]_vars, NEW r \in Requests, AddXP(r),
           NEW u \in Users, NEW i \in Indices
    PROVE  Accounted(u, i)'
<1>1. Accounted(u, i) /\ credited[u][i] \in Nat /\ Alone(r) /\ pc'[r] = "idle"
      /\ pc[r] = "award" /\ progress' = progress
      /\ credited \in [Users -> [Indices -> Nat]]
  BY TypedParts, EndKeeps DEF AwardInv, AddXP, tables
<1>2. job[r].user \in Users /\ job[r].level \in Indices
  BY <1>1, JobOf DEF AwardInv, Typed
<1>3. credited[job[r].user][job[r].level] + 1 \in Nat
      /\ credited' = [credited EXCEPT ![job[r].user][job[r].level] =
                          credited[job[r].user][job[r].level] + 1]
  BY <1>1, <1>2 DEF AddXP
<1>4. Owing(u, i)' = Owing(u, i) \ {r}
  BY <1>1, NoneOwes
<1>5. IsFiniteSet(Owing(u, i)) /\ Cardinality(Owing(u, i)) \in Nat
  BY <1>1, FS_CardinalityType DEF Accounted
<1>6. Awards(u, i)' = Awards(u, i) /\ IsFiniteSet(Owing(u, i)')
  <2>1. CASE job[r].user = u /\ job[r].level = i
    <3>1. r \in Owing(u, i)
      BY <1>1, <2>1 DEF Owing
    <3>2. /\ IsFiniteSet(Owing(u, i)')
          /\ Cardinality(Owing(u, i)') = Cardinality(Owing(u, i)) - 1
      BY <1>4, <1>5, <3>1, FS_RemoveElement
    <3>3. credited'[u][i] = credited[u][i] + 1
      BY <1>1, <1>2, <1>3, <2>1, PutTyped
    <3> QED
      BY <1>1, <1>5, <3>2, <3>3 DEF Awards
  <2>2. CASE ~(job[r].user = u /\ job[r].level = i)
    <3>1. Owing(u, i)' = Owing(u, i)
      BY <1>4, <2>2 DEF Owing
    <3>2. credited'[u][i] = credited[u][i]
      BY <1>1, <1>2, <1>3, <2>2, PutTyped
    <3> QED
      BY <1>5, <3>1, <3>2 DEF Awards
  <2> QED
    BY <2>1, <2>2
<1> QED
  BY <1>1, <1>6 DEF Accounted

LEMMA NextAwards ==
    ASSUME AwardInv, [Next]_vars
    PROVE  Quiet \/ \E r \in Requests :
               \/ CompleteExpeditionLevel(r) /\ Goto(r, "award") /\ UNCHANGED job
               \/ AddXP(r)
<1>t. Typed
  BY DEF AwardInv
<1>1. ASSUME UNCHANGED <<pc, job, credited>>
      PROVE  Quiet
  BY <1>1 DEF Quiet, Owing
<1>2. ASSUME NEW r \in Requests, Alone(r), pc'[r] # "award", credited' = credited
      PROVE  Quiet
  BY <1>2, NoneOwes DEF Quiet
<1>3. ASSUME NEW r \in Requests, End(r), credited' = credited
      PROVE  Quiet
  BY <1>2, <1>3, <1>t, EndKeeps
<1>4. ASSUME NEW r \in Requests, NEW u \in Users, NEW op \in Ops, NEW i \in Indices,
             Load(r, u, op, i)
      PROVE  Quiet
  <2>1. Alone(r) /\ pc'[r] # "award"
    BY <1>4, <1>t, TypedParts DEF Load, Goto, Alone
  <2> QED
    BY <1>2, <1>4, <2>1 DEF Load
<1>5. ASSUME NEW r \in Requests, ReadStars(r) \/ Gate(r) \/ LevelImageID(r)
      PROVE  Quiet
  <2>1. Alone(r) /\ pc'[r] # "award"
    BY <1>5, <1>t, TypedParts DEF ReadStars, Gate, LevelImageID, Goto, Alone
  <2> QED
    BY <1>2, <1>5, <2>1 DEF ReadStars, Gate, LevelImageID
<1>6. ASSUME NEW r \in Requests,
             StartExpeditionLevel(r) \/ FailExpeditionLevel(r) \/ GiveUp(r)
      PROVE  Quiet
  BY <1>3, <1>6 DEF StartExpeditionLevel, FailExpeditionLevel, GiveUp
<1>7. ASSUME NEW r \in Requests, CompleteExpeditionLevel(r)
      PROVE  Quiet \/ (Goto(r, "award") /\ UNCHANGED job)
  BY <1>3, <1>7 DEF CompleteExpeditionLevel
<1> QED
  BY <1>1, <1>4, <1>5, <1>6, <1>7
     DEF Next, vars, BuyStars, BeginCreate, BeginDelete, BeginEdit, Begin,
         CreateExpeditionLevel, CountPlayed, DeleteLevel, SetLevelImage, UpdateLevelConfig,
         AdminDies

LEMMA AwardsInit == ASSUME Init PROVE AwardInv
<1>1. Typed /\ Cardinality({}) = 0 /\ IsFiniteSet({})
  BY InitTyped, FS_EmptySet
<1>2. ASSUME NEW u \in Users, NEW i \in Indices
      PROVE  Accounted(u, i)
  <2>1. Owing(u, i) = {} /\ credited[u][i] = 0
    BY DEF Init, Owing
  <2> QED
    BY <1>1, <2>1 DEF Accounted, Awards
<1> QED
  BY <1>1, <1>2 DEF AwardInv

\* XP follows a win and comes once, whichever requests race or die, and whatever
\* administrators do to the level meanwhile.
THEOREM AwardsComeOnce == Spec => []AwardedOnce
<1>1. Init => AwardInv
  BY AwardsInit
<1>2. ASSUME AwardInv, [Next]_vars
      PROVE  AwardInv'
  <2>1. Typed'
    BY <1>2, TypeStep DEF AwardInv
  <2>2. ASSUME NEW u \in Users, NEW i \in Indices
        PROVE  Accounted(u, i)'
    BY <1>2, NextAwards, QuietAwards, WinAwards, CreditAwards
  <2> QED
    BY <2>1, <2>2 DEF AwardInv
<1>3. AwardInv => AwardedOnce
  BY DEF AwardInv, AwardedOnce, Accounted, Awards, Owing
<1> QED
  BY <1>1, <1>2, <1>3, PTL DEF Spec

-----------------------------------------------------------------------------
(* No edit costs a star: what levels become while none is made *)

\* Table m has the levels of l as they are configured, and perhaps others.
Extends(l, m) ==
    /\ DOMAIN l \subseteq DOMAIN m
    /\ \A i \in DOMAIN l : m[i].config = l[i].config
    /\ \A i \in DOMAIN m \ DOMAIN l : m[i].config = NoConfig

LEMMA ExtendedTiers ==
    ASSUME NEW l, LevelsOK(l), NEW m, LevelsOK(m), Extends(l, m)
    PROVE  /\ CountIn(l) <= CountIn(m)
           /\ \A i \in 1 .. CountIn(l) : TierIn(m, i) = TierIn(l, i)
           /\ \A i \in Indices : Stars(l)[i] <= Stars(m)[i]
<1>1. CountIn(l) \in Nat /\ CountIn(m) \in Nat /\ CountIn(l) <= CountIn(m)
  BY CountIsLast, TopIs DEF LevelsOK, Extends
<1>2. ASSUME NEW i \in 1 .. CountIn(l)
      PROVE  TierIn(m, i) = TierIn(l, i)
  <2>1. ~(i > CountIn(l)) /\ ~(i > CountIn(m))
    BY <1>1
  <2> QED
    BY <2>1 DEF TierIn, Extends
<1>3. ASSUME NEW i \in Indices
      PROVE  Stars(l)[i] <= Stars(m)[i]
  <2>1. /\ Stars(l)[i] = TierIn(l, i).star /\ Stars(m)[i] = TierIn(m, i).star
        /\ Stars(l)[i] \in Nat /\ Stars(m)[i] \in Nat
    BY StarsTyped
  <2>2. CASE i <= CountIn(l)
    <3>1. i \in 1 .. CountIn(l)
      BY <1>1, <2>2, IndicesFinite
    <3> QED
      BY <1>2, <2>1, <3>1
  <2>3. CASE ~(i <= CountIn(l))
    <3>1. i > CountIn(l)
      BY <1>1, <2>3, IndicesFinite
    <3>2. TierIn(l, i).star = 0
      BY <3>1 DEF TierIn
    <3> QED
      BY <2>1, <3>2
  <2> QED
    BY <2>2, <2>3
<1> QED
  BY <1>1, <1>2, <1>3

\* What a step that makes no edit does to the levels: nothing, or one row that
\* an administrator appends or gives an image.
LevelsMove ==
    \/ levels' = levels
    \/ \E a \in Admins, i \in Indices, row \in Row :
           /\ Sets(a, i, row)
           /\ row.config = IF i \in DOMAIN levels THEN levels[i].config ELSE NoConfig
           /\ i \in DOMAIN levels /\ levels[i].image => row.image
           /\ \/ i = LevelCount + 1
              \/ At(a, "edit") /\ task[a].level = i

LEMMA LevelsStep ==
    ASSUME Typed, [Next]_vars, edits' = edits
    PROVE  LevelsMove
<1>0. LevelsOK(levels) /\ edits \in Nat
  BY TypedParts
<1>1. ASSUME NEW a \in Admins, CreateExpeditionLevel(a)
      PROVE  LevelsMove
  <2> DEFINE i == LevelCount + 1
             row == [config |-> NoConfig, image |-> FALSE]
  <2>1. row \in Row /\ row.config = NoConfig
    BY DEF Row
  <2>2. i \in Indices /\ SetRow(i, row)
    BY <1>1 DEF CreateExpeditionLevel
  <2>3. i \notin DOMAIN levels
    BY <1>0, CountIsLast, TopIs, TiersAre DEF LevelsOK
  <2> HIDE DEF row
  <2>4. Sets(a, i, row)
    BY <2>1, <2>2, SetRowSets
  <2> QED
    BY <2>1, <2>2, <2>3, <2>4 DEF LevelsMove
<1>2. ASSUME NEW a \in Admins, SetLevelImage(a)
      PROVE  LevelsMove
  <2> DEFINE i == task[a].level
             kept == IF i \in DOMAIN levels THEN levels[i].config ELSE NoConfig
             row == [config |-> kept, image |-> TRUE]
  <2>1. i \in Indices /\ SetRow(i, row) /\ At(a, "edit")
    BY <1>2 DEF SetLevelImage, Typed
  <2>2. kept \in Configs \cup {NoConfig}
    BY <1>0 DEF LevelsOK, Row
  <2> HIDE DEF kept
  <2>3. row \in Row /\ row.config = kept /\ row.image
    BY <2>2 DEF Row
  <2> HIDE DEF row
  <2>4. Sets(a, i, row)
    BY <2>1, <2>3, SetRowSets
  <2> QED
    BY <2>1, <2>3, <2>4 DEF LevelsMove, kept
<1>3. \A a \in Admins : ~DeleteLevel(a) /\ \A config : ~UpdateLevelConfig(a, config)
  <2>1. edits' # edits + 1
    BY <1>0
  <2> QED
    BY <2>1 DEF DeleteLevel, UpdateLevelConfig
<1>4. CASE levels' = levels
  BY <1>4 DEF LevelsMove
<1> QED
  BY <1>1, <1>2, <1>3, <1>4
     DEF Next, vars, tables, Load, ReadStars, Gate, LevelImageID, StartExpeditionLevel,
         FailExpeditionLevel, CompleteExpeditionLevel, AddXP, GiveUp, BuyStars,
         BeginCreate, BeginDelete, BeginEdit, Begin, CountPlayed, AdminDies

LEMMA LevelsExtend ==
    ASSUME Typed, LevelsMove
    PROVE  /\ Extends(levels, levels')
           /\ \A i \in DOMAIN levels : levels[i].image => levels'[i].image
<1>1. CASE levels' = levels
  BY <1>1 DEF Extends
<1>2. CASE levels' # levels
  <2>1. PICK a \in Admins, i \in Indices, row \in Row :
            /\ Sets(a, i, row)
            /\ row.config = IF i \in DOMAIN levels THEN levels[i].config ELSE NoConfig
            /\ i \in DOMAIN levels /\ levels[i].image => row.image
    BY <1>2 DEF LevelsMove
  <2> QED
    BY <2>1 DEF Sets, Extends
<1> QED
  BY <1>1, <1>2

\* Nothing a player does costs a star, and neither do new levels and images.
LEMMA TotalsGrow ==
    ASSUME Typed, Typed', [Next]_vars, edits' = edits, NEW u \in Users
    PROVE  Total(levels, progress, bonus, u) <= Total(levels', progress', bonus', u)
<1>1. LevelsOK(levels) /\ LevelsOK(levels')
  BY TypedParts DEF Typed, Shapes, LevelsOK
<1>2. \A i \in Indices : Stars(levels)[i] <= Stars(levels')[i]
  BY <1>1, LevelsStep, LevelsExtend, ExtendedTiers
<1> DEFINE S == CompletedIn(progress, u)
           T == CompletedIn(progress', u)
<1>3. S \subseteq T
  BY WonForGood DEF CompletedIn
<1>4. S \in SUBSET Indices /\ T \in SUBSET Indices
  BY DEF CompletedIn
<1> DEFINE f == Stars(levels)
           h == Stars(levels')
<1>5. /\ \A i \in Indices : f[i] \in Nat /\ h[i] \in Nat
      /\ SumOf(f, S) \in Nat /\ SumOf(h, T) \in Nat
  BY <1>1, <1>4, StarsTyped
<1>6. IsFiniteSet(T)
  BY <1>4, IndicesFinite, FS_Subset
<1>7. bonus[u] \in Nat /\ bonus'[u] \in Nat /\ bonus[u] <= bonus'[u]
  <2>1. bonus \in [Users -> 0 .. MaxBonus] /\ bonus' \in [Users -> 0 .. MaxBonus]
    BY DEF Typed, Shapes
  <2>2. bonus' = bonus \/ \E w \in Users : BuyStars(w)
    BY DEF Next, vars, tables, Load, ReadStars, Gate, LevelImageID, StartExpeditionLevel,
           FailExpeditionLevel, CompleteExpeditionLevel, AddXP, GiveUp,
           BeginCreate, BeginDelete, BeginEdit, Begin, CountPlayed, AdminDies,
           CreateExpeditionLevel, DeleteLevel, SetLevelImage, UpdateLevelConfig
  <2> QED
    BY <2>1, <2>2 DEF BuyStars
<1> HIDE DEF S, T, f, h
<1>8. SumOf(f, S) <= SumOf(h, T)
  BY <1>2, <1>3, <1>4, <1>5, <1>6, SumGrows DEF f, h
<1>9. SumOf(f, S) + bonus[u] <= SumOf(h, T) + bonus'[u]
  BY <1>5, <1>7, <1>8
<1> QED
  BY <1>9 DEF Total, f, h, S, T

\* A player's stars only grow, whatever players and administrators do at once,
\* until an edit or a removal commits.
THEOREM StarsOnlyGrow == Spec => StarsAreKept
<1>0. (\A u : TotalExpeditionStars(u) = Total(levels, progress, bonus, u))'
  BY TotalIs, PTL
<1>1. ASSUME Typed, [Next]_vars, edits' = edits, NEW u \in Users
      PROVE  TotalExpeditionStars(u)' >= TotalExpeditionStars(u)
  <2>1. Typed'
    BY <1>1, TypeStep
  <2> DEFINE n == Total(levels, progress, bonus, u)
             m == Total(levels', progress', bonus', u)
  <2>2. n <= m
    BY <1>1, <2>1, TotalsGrow
  <2>3. n \in Nat /\ m \in Nat
    BY <1>1, <2>1, TotalTyped DEF Typed, Shapes, LevelsOK
  <2>4. TotalExpeditionStars(u) = n
    BY TotalIs
  <2>5. TotalExpeditionStars(u)' = m
    BY <1>0
  <2> HIDE DEF n, m
  <2> QED
    BY <2>2, <2>3, <2>4, <2>5
<1>2. Init => Typed
  BY InitTyped
<1>3. Typed /\ [Next]_vars => Typed'
  BY TypeStep
<1> DEFINE Kept == \/ edits' # edits \/ UNCHANGED tables
                   \/ \A u \in Users : TotalExpeditionStars(u)' >= TotalExpeditionStars(u)
<1>4. Typed /\ [Next]_vars => [Kept]_vars
  BY <1>1
<1> QED
  BY <1>2, <1>3, <1>4, PTL DEF Spec, StarsAreKept

-----------------------------------------------------------------------------
(* The ladder: who has started a level had the stars for it, and has *)

Cleared(u, i) ==
    TierIn(levels, i).onMain => Total(levels, progress, bonus, u) >= Required(levels, i)

\* A handler past the gate, and what it has read.
Climbs(r) ==
    /\ pc[r] # "idle" => job[r].level \in DOMAIN levels
    /\ pc[r] = "gate" => job[r].stars <= Total(levels, progress, bonus, job[r].user)
    /\ pc[r] \in {"image", "start"} => Cleared(job[r].user, job[r].level)
    /\ pc[r] = "start" => levels[job[r].level].image

Played(u, i) ==
    progress[u][i] # "none" => i \in DOMAIN levels /\ levels[i].image /\ Cleared(u, i)

\* As long as no level was edited or removed: the levels have no gap, nobody is
\* about to edit one that is not there, and nobody is ahead of the ladder.
Ladder ==
    /\ DOMAIN levels = 1 .. CountIn(levels)
    /\ \A a \in Admins : At(a, "edit") => task[a].level \in DOMAIN levels
    /\ \A u \in Users, i \in Indices : Played(u, i)
    /\ \A r \in Requests : Climbs(r)

LadderInv == Typed /\ (edits = 0 => Ladder)

LEMMA RequiredKept ==
    ASSUME NEW l, LevelsOK(l), NEW m, LevelsOK(m), Extends(l, m), NEW i \in 1 .. CountIn(l)
    PROVE  Required(m, i) = Required(l, i) /\ TierIn(m, i) = TierIn(l, i)
<1>1. CountIn(l) \in Nat /\ CountIn(l) <= Top
  BY CountIsLast, TopIs DEF LevelsOK
<1>2. \A k \in 1 .. CountIn(l) : TierIn(m, k) = TierIn(l, k)
  BY ExtendedTiers
<1>3. 1 .. i - 1 \subseteq 1 .. CountIn(l) /\ 1 .. CountIn(l) \subseteq Indices
  BY <1>1, TopIs
<1>4. MainBelow(m, i) = MainBelow(l, i)
  BY <1>2, <1>3 DEF MainBelow
<1>5. MainBelow(l, i) \subseteq 1 .. CountIn(l) /\ IsFiniteSet(MainBelow(l, i))
  BY <1>3, FS_Subset, IndicesFinite DEF MainBelow
<1>6. \A k \in MainBelow(l, i) : Stars(m)[k] = Stars(l)[k]
  BY <1>2, <1>3, <1>5, StarsTyped
<1>7. SumOf(Stars(m), MainBelow(l, i)) = SumOf(Stars(l), MainBelow(l, i))
  BY <1>5, <1>6, SumCong
<1> QED
  BY <1>2, <1>4, <1>7 DEF Required

LEMMA RequiredTyped ==
    ASSUME NEW l, LevelsOK(l), NEW i \in Indices
    PROVE  Required(l, i) \in Nat
<1>1. 1 .. i - 1 \subseteq Indices
  BY TopIs
<1>2. MainBelow(l, i) \in SUBSET Indices
  BY <1>1 DEF MainBelow
<1> QED
  BY <1>2, StarsTyped DEF Required

LEMMA ClearedKept ==
    ASSUME Typed, Typed', [Next]_vars, edits' = edits, NEW u \in Users,
           NEW i \in 1 .. CountIn(levels), Cleared(u, i)
    PROVE  Cleared(u, i)'
<1>1. LevelsOK(levels) /\ LevelsOK(levels') /\ Extends(levels, levels')
  BY LevelsStep, LevelsExtend DEF Typed, Shapes, LevelsOK
<1>2. Required(levels', i) = Required(levels, i) /\ TierIn(levels', i) = TierIn(levels, i)
  BY <1>1, RequiredKept
<1>3. Total(levels, progress, bonus, u) <= Total(levels', progress', bonus', u)
  BY TotalsGrow
<1>4. /\ Total(levels, progress, bonus, u) \in Nat
      /\ Total(levels', progress', bonus', u) \in Nat
  BY <1>1, TotalTyped DEF Typed, Shapes
<1>5. Required(levels, i) \in Nat
  <2>1. i \in Indices
    BY <1>1, CountIsLast, TopIs DEF LevelsOK
  <2> QED
    BY <1>1, <2>1, RequiredTyped
<1> DEFINE n == Total(levels, progress, bonus, u)
           m == Total(levels', progress', bonus', u)
           req == Required(levels, i)
<1>6. n >= req => m >= req
  <2> HIDE DEF n, m, req
  <2>1. n \in Nat /\ m \in Nat /\ req \in Nat /\ n <= m
    BY <1>3, <1>4, <1>5 DEF n, m, req
  <2> QED
    BY <2>1
<1> QED
  BY <1>2, <1>6 DEF Cleared

LEMMA DomainStep ==
    ASSUME Typed, Typed', LevelsMove, Ladder
    PROVE  /\ DOMAIN levels' = 1 .. CountIn(levels')
           /\ DOMAIN levels \subseteq DOMAIN levels'
<1>1. CASE levels' = levels
  BY <1>1 DEF Ladder
<1>2. ASSUME NEW a \in Admins, NEW i \in Indices, NEW row \in Row, Sets(a, i, row),
             \/ i = LevelCount + 1
             \/ At(a, "edit") /\ task[a].level = i
      PROVE  /\ DOMAIN levels' = 1 .. CountIn(levels')
             /\ DOMAIN levels \subseteq DOMAIN levels'
  <2> DEFINE n == CountIn(levels)
  <2>1. n \in Nat /\ LevelCount = n /\ DOMAIN levels = 1 .. n
        /\ DOMAIN levels \subseteq Indices
    <3>1. DOMAIN levels \subseteq Indices
      BY TypedParts DEF LevelsOK
    <3>2. n \in 0 .. Top
      BY <3>1, CountIsLast
    <3> QED
      BY <3>1, <3>2, TopIs, TiersAre DEF Ladder
  <2>2. DOMAIN levels' = DOMAIN levels \cup {i}
    BY <1>2 DEF Sets
  <2> HIDE DEF n
  <2>3. CASE i = n + 1
    <3>1. DOMAIN levels' = 1 .. n + 1
      BY <2>1, <2>2, <2>3
    <3>2. CountIn(levels') = n + 1
      <4>1. DOMAIN levels' \subseteq Indices /\ n + 1 \in DOMAIN levels'
            /\ \A k \in DOMAIN levels' : k <= n + 1
        BY <2>1, <2>2, <3>1
      <4> QED
        BY <4>1, CountIsThat
    <3> QED
      BY <2>2, <3>1, <3>2
  <2>4. CASE i \in DOMAIN levels
    <3>1. DOMAIN levels' = DOMAIN levels
      BY <2>2, <2>4
    <3>2. CountIn(levels') = CountIn(levels)
      BY <3>1 DEF CountIn
    <3> QED
      BY <2>1, <3>1, <3>2 DEF n
  <2> QED
    BY <1>2, <2>1, <2>3, <2>4 DEF Ladder
<1> QED
  BY <1>1, <1>2 DEF LevelsMove

\* Who is editing a level was before, or has just found it there.
LEMMA EditsBegin ==
    ASSUME Typed, [Next]_vars, NEW b \in Admins, At(b, "edit")'
    PROVE  \/ At(b, "edit") /\ task'[b] = task[b]
           \/ task'[b].level \in Indices /\ task'[b].level <= LevelCount
<1>1. CASE UNCHANGED task
  BY <1>1 DEF At
<1>2. ASSUME NEW a \in Admins, NEW new \in Task \cup {NoTask}, task' = [task EXCEPT ![a] = new],
             \/ new = NoTask \/ new.step # "edit"
             \/ new.level \in Indices /\ new.level <= LevelCount
      PROVE  \/ At(b, "edit") /\ task'[b] = task[b]
             \/ task'[b].level \in Indices /\ task'[b].level <= LevelCount
  <2>1. task'[a] = new /\ Others(a)
    BY <1>2, TaskTyped
  <2> QED
    BY <1>2, <2>1 DEF At, Others
<1>3. ASSUME NEW a \in Admins, NEW i \in Indices \cup {0},
             NEW step \in {"create", "played", "edit"}, Begin(a, step, i),
             step = "edit" => i \in Indices /\ i <= LevelCount
      PROVE  \/ At(b, "edit") /\ task'[b] = task[b]
             \/ task'[b].level \in Indices /\ task'[b].level <= LevelCount
  <2> DEFINE new == [step |-> step, level |-> i]
  <2>1. new \in Task /\ new.step = step /\ new.level = i
    BY TaskKinds
  <2>2. task' = [task EXCEPT ![a] = new]
    BY <1>3 DEF Begin
  <2> HIDE DEF new
  <2> QED
    BY <1>2, <1>3, <2>1, <2>2
<1>4. ASSUME NEW a \in Admins, CountPlayed(a)
      PROVE  \/ At(b, "edit") /\ task'[b] = task[b]
             \/ task'[b].level \in Indices /\ task'[b].level <= LevelCount
  <2> DEFINE new == [task[a] EXCEPT !.step = "delete"]
  <2>1. task[a] \in Task
    BY <1>4 DEF CountPlayed, At, Typed
  <2>2. new \in Task /\ new.step = "delete"
    BY <2>1 DEF Task
  <2>3. task' = [task EXCEPT ![a] = new]
    BY <1>4 DEF CountPlayed
  <2> HIDE DEF new
  <2> QED
    BY <1>2, <2>2, <2>3
<1>5. ASSUME NEW a \in Admins, Finish(a)
      PROVE  \/ At(b, "edit") /\ task'[b] = task[b]
             \/ task'[b].level \in Indices /\ task'[b].level <= LevelCount
  BY <1>2, <1>5 DEF Finish
<1>6. ASSUME NEW a \in Admins,
             \/ BeginCreate(a) \/ \E i \in Indices : BeginDelete(a, i) \/ BeginEdit(a, i)
      PROVE  \/ At(b, "edit") /\ task'[b] = task[b]
             \/ task'[b].level \in Indices /\ task'[b].level <= LevelCount
  BY <1>3, <1>6 DEF BeginCreate, BeginDelete, BeginEdit
<1> QED
  BY <1>1, <1>4, <1>5, <1>6
     DEF Next, vars, Administration, Load, ReadStars, Gate, LevelImageID,
         StartExpeditionLevel, FailExpeditionLevel, CompleteExpeditionLevel, AddXP, GiveUp,
         BuyStars, CreateExpeditionLevel, DeleteLevel, SetLevelImage, UpdateLevelConfig,
         AdminDies

LEMMA EditsStep ==
    ASSUME Typed, [Next]_vars
    PROVE  edits' = edits \/ edits' = edits + 1
BY DEF Next, vars, Administration, Load, ReadStars, Gate, LevelImageID,
       StartExpeditionLevel, FailExpeditionLevel, CompleteExpeditionLevel, AddXP, GiveUp,
       BuyStars, BeginCreate, BeginDelete, BeginEdit, Begin, CountPlayed,
       CreateExpeditionLevel, DeleteLevel, SetLevelImage, UpdateLevelConfig, AdminDies

\* Levels that were there still are, and who had cleared one still has.
LEMMA LadderKept ==
    ASSUME Typed, Typed', [Next]_vars, edits' = edits, Ladder
    PROVE  /\ DOMAIN levels' = 1 .. CountIn(levels') /\ DOMAIN levels \subseteq DOMAIN levels'
           /\ \A i \in DOMAIN levels : levels[i].image => levels'[i].image
           /\ \A u \in Users, i \in DOMAIN levels : Cleared(u, i) => Cleared(u, i)'
<1>1. ASSUME NEW u \in Users, NEW i \in DOMAIN levels, Cleared(u, i)
      PROVE  Cleared(u, i)'
  <2>1. i \in 1 .. CountIn(levels)
    BY DEF Ladder
  <2> QED
    BY <1>1, <2>1, ClearedKept
<1>2. DOMAIN levels' = 1 .. CountIn(levels') /\ DOMAIN levels \subseteq DOMAIN levels'
  BY LevelsStep, DomainStep
<1>3. \A i \in DOMAIN levels : levels[i].image => levels'[i].image
  BY LevelsStep, LevelsExtend
<1> QED
  BY <1>1, <1>2, <1>3

LEMMA PlayedStep ==
    ASSUME Typed, Typed', [Next]_vars, edits' = edits, Ladder,
           NEW u \in Users, NEW i \in Indices
    PROVE  Played(u, i)'
<1>1. Played(u, i)
  BY DEF Ladder
<1>2. ASSUME NEW r \in Requests, RowMoves(r, u, i)
      PROVE  \/ progress[u][i] # "none"
             \/ i \in DOMAIN levels /\ levels[i].image /\ Cleared(u, i)
  <2>1. Climbs(r) /\ job[r].user = u /\ job[r].level = i
    BY <1>2 DEF Ladder, RowMoves
  <2> QED
    BY <1>2, <2>1 DEF RowMoves, Wins, Climbs
<1>3. CASE i \in DOMAIN levels /\ levels[i].image /\ Cleared(u, i)
  <2>1. i \in DOMAIN levels' /\ levels'[i].image /\ Cleared(u, i)'
    BY <1>3, LadderKept
  <2> QED
    BY <2>1 DEF Played
<1>4. CASE progress'[u][i] = "none"
  BY <1>4 DEF Played
<1> QED
  BY <1>1, <1>2, <1>3, <1>4, RowStep DEF Played

\* What a handler that waits has read stays true.
LEMMA WaitingClimbs ==
    ASSUME Typed, Typed', [Next]_vars, edits' = edits, Ladder, NEW q \in Requests,
           pc'[q] = pc[q], job'[q] = job[q]
    PROVE  Climbs(q)'
<1>1. CASE pc[q] = "idle"
  BY <1>1 DEF Climbs
<1>2. CASE pc[q] # "idle"
  <2>1. job[q] \in Job /\ job[q].user \in Users /\ job[q].stars \in Nat /\ Climbs(q)
    BY <1>2, JobOf DEF Typed, Ladder
  <2>w. PICK w \in Users, i \in DOMAIN levels : w = job[q].user /\ i = job[q].level
    BY <1>2, <2>1 DEF Climbs
  <2>2. job'[q].user = w /\ job'[q].level = i
    BY <2>w
  <2>3. i \in DOMAIN levels' /\ (levels[i].image => levels'[i].image)
        /\ (Cleared(w, i) => Cleared(w, i)')
    BY LadderKept
  <2>4. pc[q] = "gate" => job[q].stars <= Total(levels', progress', bonus', w)
    <3> DEFINE n == Total(levels, progress, bonus, w)
               m == Total(levels', progress', bonus', w)
               x == job[q].stars
    <3>1. n \in Nat /\ m \in Nat /\ n <= m
      BY TotalsGrow, TotalTyped DEF Typed, Shapes, LevelsOK
    <3>2. pc[q] = "gate" => x <= n
      BY <2>1, <2>w DEF Climbs
    <3>3. x \in Nat
      BY <2>1
    <3> HIDE DEF n, m, x
    <3>4. pc[q] = "gate" => x <= m
      BY <3>1, <3>2, <3>3
    <3> QED
      BY <3>4 DEF m, x
  <2>5. pc[q] \in {"image", "start"} => Cleared(w, i)'
    BY <2>1, <2>w, <2>3 DEF Climbs
  <2>6. pc[q] = "start" => levels'[i].image
    BY <2>1, <2>w, <2>3 DEF Climbs
  <2>7. Cleared(job[q].user, job[q].level)' <=> Cleared(w, i)'
    BY <2>2 DEF Cleared
  <2> QED
    BY <2>2, <2>3, <2>4, <2>5, <2>6, <2>7 DEF Climbs
<1> QED
  BY <1>1, <1>2

\* The handlers' own steps: what they find at the gate, and after it.
LEMMA OwnClimbs ==
    ASSUME Typed, Typed', [Next]_vars, edits' = edits, Ladder, NEW r \in Requests,
           \/ \E u \in Users, op \in Ops, i \in Indices : Load(r, u, op, i)
           \/ ReadStars(r) \/ Gate(r) \/ LevelImageID(r)
           \/ CompleteExpeditionLevel(r) \/ End(r)
    PROVE  Climbs(r)'
<1>0. /\ LevelsOK(levels) /\ bonus \in [Users -> 0 .. MaxBonus]
      /\ pc \in [Requests -> PCs] /\ job \in [Requests -> Job \cup {NoJob}]
      /\ DOMAIN levels = 1 .. LevelCount /\ Climbs(r)
      /\ DOMAIN levels \subseteq DOMAIN levels'
  BY TypedParts, TiersAre, LadderKept DEF Ladder
<1>1. ASSUME NEW u \in Users, NEW op \in Ops, NEW i \in Indices, Load(r, u, op, i)
      PROVE  Climbs(r)'
  <2> DEFINE new == [user |-> u, op |-> op, level |-> i, stars |-> 0, xp |-> 0]
  <2>1. new \in Job /\ new.level = i
    BY DEF Job
  <2>2. /\ i \in DOMAIN levels'
        /\ pc' = [pc EXCEPT ![r] = IF op = "fail" THEN "fail" ELSE "stars"]
        /\ job' = [job EXCEPT ![r] = new]
    BY <1>0, <1>1, IndicesFinite DEF Load, Goto
  <2> HIDE DEF new
  <2>3. pc'[r] \in {"fail", "stars"} /\ job'[r] = new
    BY <1>0, <2>2
  <2> QED
    BY <2>1, <2>2, <2>3 DEF Climbs
<1>2. ASSUME pc[r] # "idle"
      PROVE  \E w \in Users, i \in DOMAIN levels :
                 w = job[r].user /\ i = job[r].level /\ job[r] \in Job
  BY <1>0, <1>2, JobOf DEF Typed, Climbs
<1>3. CASE ReadStars(r)
  <2>w. PICK w \in Users, i \in DOMAIN levels :
            w = job[r].user /\ i = job[r].level /\ job[r] \in Job
    BY <1>2, <1>3 DEF ReadStars
  <2> DEFINE n == Total(levels, progress, bonus, w)
             new == [job[r] EXCEPT !.stars = n]
  <2>1. UNCHANGED <<levels, progress, bonus>> /\ pc'[r] = "gate" /\ job'[r] = new
    BY <1>0, <1>3, <2>w, TotalIs DEF ReadStars, Goto, tables
  <2>2. n \in Nat
    BY <1>0, TotalTyped
  <2>3. Total(levels', progress', bonus', w) = n
    BY <2>1
  <2> HIDE DEF n
  <2>4. new.stars = n /\ new.user = w /\ new.level = i
    BY <2>w DEF Job
  <2> HIDE DEF new
  <2>5. job'[r].stars <= Total(levels', progress', bonus', job'[r].user)
    BY <2>1, <2>2, <2>3, <2>4
  <2> QED
    BY <1>0, <2>1, <2>4, <2>5 DEF Climbs
<1>4. CASE Gate(r)
  <2>w. PICK w \in Users, i \in DOMAIN levels :
            w = job[r].user /\ i = job[r].level /\ job[r] \in Job
    BY <1>2, <1>4 DEF Gate
  <2> DEFINE n == Total(levels, progress, bonus, w)
             x == job[r].stars
             req == Required(levels, i)
  <2>1. n \in Nat /\ x \in Nat /\ req \in Nat /\ x <= n
    BY <1>0, <1>4, <2>w, JobOf, TotalTyped, RequiredTyped DEF Gate, Climbs, LevelsOK
  <2>2. TierIn(levels, i).onMain => x >= req
    BY <1>4, <2>w, TiersAre DEF Gate, Opens
  <2> HIDE DEF n, x, req
  <2>3. TierIn(levels, i).onMain => n >= req
    BY <2>1, <2>2
  <2>4. Cleared(w, i)'
    BY <2>3, LadderKept DEF Cleared, n, req
  <2>5. pc'[r] \in {"image", "complete"}
    BY <1>0, <1>4 DEF Gate, Goto
  <2>6. job'[r].user = w /\ job'[r].level = i
    <3>1. \A y \in Nat : /\ [job[r] EXCEPT !.stars = 0, !.xp = y].user = w
                         /\ [job[r] EXCEPT !.stars = 0, !.xp = y].level = i
                         /\ [job[r] EXCEPT !.stars = 0].user = w
                         /\ [job[r] EXCEPT !.stars = 0].level = i
      BY <2>w DEF Job
    <3>2. EffectiveTier(job[r].level).xp \in Nat
      BY <1>0, <2>w, TiersAre, TierTyped, IndicesFinite DEF LevelsOK
    <3> QED
      BY <1>0, <1>4, <3>1, <3>2 DEF Gate
  <2>7. Cleared(job[r].user, job[r].level)' <=> Cleared(w, i)'
    BY <2>6 DEF Cleared
  <2> QED
    BY <1>0, <2>4, <2>5, <2>6, <2>7 DEF Climbs
<1>5. CASE LevelImageID(r)
  <2>w. PICK w \in Users, i \in DOMAIN levels :
            w = job[r].user /\ i = job[r].level /\ job[r] \in Job
    BY <1>2, <1>5 DEF LevelImageID
  <2>1. pc[r] = "image" /\ pc'[r] = "start" /\ job' = job /\ levels[i].image
    BY <1>0, <1>5, <2>w DEF LevelImageID, Goto
  <2>2. Cleared(w, i)
    BY <1>0, <2>w, <2>1 DEF Climbs
  <2>3. Cleared(w, i)' /\ levels'[i].image
    BY <2>1, <2>2, LadderKept
  <2>4. Cleared(job[r].user, job[r].level)' <=> Cleared(w, i)'
    BY <2>w, <2>1 DEF Cleared
  <2> QED
    BY <1>0, <2>w, <2>1, <2>3, <2>4 DEF Climbs
<1>6. CASE End(r)
  BY <1>6, EndKeeps DEF Climbs
<1>7. CASE CompleteExpeditionLevel(r)
  <2>1. CASE Goto(r, "award") /\ UNCHANGED job
    <3>1. pc'[r] = "award" /\ job'[r] = job[r] /\ pc[r] # "idle"
      BY <1>0, <1>7, <2>1 DEF Goto, CompleteExpeditionLevel
    <3> QED
      BY <1>0, <3>1 DEF Climbs
  <2> QED
    BY <1>6, <1>7, <2>1 DEF CompleteExpeditionLevel
<1> QED
  BY <1>1, <1>3, <1>4, <1>5, <1>6, <1>7

\* Each step moves one handler, which took it itself, or none.
LEMMA HandlersMove ==
    ASSUME Typed, [Next]_vars, NEW q \in Requests
    PROVE  \/ pc'[q] = pc[q] /\ job'[q] = job[q]
           \/ \E u \in Users, op \in Ops, i \in Indices : Load(q, u, op, i)
           \/ ReadStars(q) \/ Gate(q) \/ LevelImageID(q)
           \/ CompleteExpeditionLevel(q) \/ End(q)
<1>0. pc \in [Requests -> PCs] /\ job \in [Requests -> Job \cup {NoJob}]
  BY TypedParts
<1>1. ASSUME NEW r \in Requests, r # q,
             \/ \E u \in Users, op \in Ops, i \in Indices : Load(r, u, op, i)
             \/ ReadStars(r) \/ Gate(r) \/ LevelImageID(r)
             \/ CompleteExpeditionLevel(r) \/ End(r)
      PROVE  pc'[q] = pc[q] /\ job'[q] = job[q]
  BY <1>0, <1>1 DEF Load, ReadStars, Gate, LevelImageID, CompleteExpeditionLevel, End, Goto
<1>2. CASE UNCHANGED <<pc, job>>
  BY <1>2
<1>3. ASSUME NEW r \in Requests,
             \/ StartExpeditionLevel(r) \/ FailExpeditionLevel(r) \/ AddXP(r) \/ GiveUp(r)
      PROVE  End(r)
  BY <1>3 DEF StartExpeditionLevel, FailExpeditionLevel, AddXP, GiveUp
<1> QED
  BY <1>1, <1>2, <1>3
     DEF Next, vars, BuyStars, BeginCreate, BeginDelete, BeginEdit, Begin, CountPlayed,
         CreateExpeditionLevel, DeleteLevel, SetLevelImage, UpdateLevelConfig, AdminDies

LEMMA CountTyped == ASSUME Typed PROVE LevelCount \in 0 .. Top /\ LevelCount \in Nat
<1>1. DOMAIN levels \subseteq Indices
  BY TypedParts DEF LevelsOK
<1> QED
  BY <1>1, CountIsLast, TiersAre, TopIs

LEMMA LadderStep == ASSUME LadderInv, [Next]_vars PROVE LadderInv'
<1>1. Typed /\ Typed'
  BY TypeStep DEF LadderInv
<1>2. ASSUME edits' = 0 PROVE Ladder'
  <2>1. edits' = edits /\ Ladder
    BY <1>1, <1>2, EditsStep, TypedParts DEF LadderInv
  <2>2. DOMAIN levels' = 1 .. CountIn(levels') /\ DOMAIN levels \subseteq DOMAIN levels'
    BY <1>1, <2>1, LadderKept
  <2>3. ASSUME NEW b \in Admins, At(b, "edit")'
        PROVE  task'[b].level \in DOMAIN levels'
    <3>1. DOMAIN levels = 1 .. LevelCount
      BY <2>1, TiersAre DEF Ladder
    <3>0. LevelCount \in Nat
      BY <1>1, CountTyped
    <3>2. CASE At(b, "edit") /\ task'[b] = task[b]
      BY <2>1, <2>2, <3>2 DEF Ladder
    <3>3. CASE task'[b].level \in Indices /\ task'[b].level <= LevelCount
      <4> DEFINE i == task'[b].level
      <4>1. i \in Indices /\ i <= LevelCount
        BY <3>3
      <4> HIDE DEF i
      <4>2. i \in 1 .. LevelCount
        BY <3>0, <4>1, IndicesFinite
      <4> QED
        BY <2>2, <3>1, <4>2 DEF i
    <3> QED
      BY <1>1, <2>3, <3>2, <3>3, EditsBegin
  <2>4. \A u \in Users, i \in Indices : Played(u, i)'
    BY <1>1, <2>1, PlayedStep
  <2>5. \A q \in Requests : Climbs(q)'
    BY <1>1, <2>1, HandlersMove, WaitingClimbs, OwnClimbs
  <2> QED
    BY <2>2, <2>3, <2>4, <2>5 DEF Ladder
<1> QED
  BY <1>1, <1>2 DEF LadderInv

LEMMA LadderInit == ASSUME Init PROVE LadderInv
<1>1. Typed
  BY InitTyped
<1>2. DOMAIN levels = 1 .. Len(Campaign) /\ Len(Campaign) \in Nat \ {0}
  BY ConstantsOK DEF Init
<1>3. CountIn(levels) = Len(Campaign)
  <2>1. Len(Campaign) \in DOMAIN levels /\ \A i \in DOMAIN levels : i <= Len(Campaign)
    BY <1>2
  <2>2. DOMAIN levels \subseteq Indices
    BY <1>1, TypedParts DEF LevelsOK
  <2> QED
    BY <2>1, <2>2, CountIsThat
<1> QED
  BY <1>1, <1>2, <1>3 DEF Init, LadderInv, Ladder, At, Played, Climbs

\* The ladder as the properties have it, and as the handlers sum it.
LEMMA LadderIs ==
    ASSUME Typed, NEW i \in 1 .. LevelCount
    PROVE  SumOfStars({k \in OnMap : k < i}) = Required(levels, i)
<1>1. {k \in OnMap : k < i} = MainBelow(levels, i)
  BY CountTyped, TiersAre DEF OnMap, MainBelow
<1> QED
  BY <1>1, TiersAre DEF Required

\* However starts, wins, failures and purchases of any number of requests
\* interleave, nobody is ahead of the ladder that no administrator moved.
THEOREM NobodyGetsAhead == Spec => []NobodySkipsAhead
<1>1. Init => LadderInv
  BY LadderInit
<1>2. LadderInv /\ [Next]_vars => LadderInv'
  BY LadderStep
<1>3. LadderInv => NobodySkipsAhead
  <2> SUFFICES ASSUME LadderInv, edits = 0, NEW u \in Users, NEW i \in Indices,
                      progress[u][i] # "none"
               PROVE  /\ i \in DOMAIN levels /\ levels[i].image
                      /\ i \in OnMap => TotalExpeditionStars(u)
                                           >= SumOfStars({k \in OnMap : k < i})
    BY DEF NobodySkipsAhead
  <2>1. Played(u, i) /\ Typed
    BY DEF LadderInv, Ladder
  <2>2. i \in DOMAIN levels /\ levels[i].image /\ Cleared(u, i)
    BY <2>1 DEF Played
  <2>3. i \in OnMap => TierIn(levels, i).onMain /\ i \in 1 .. LevelCount
    BY TiersAre DEF OnMap
  <2> QED
    BY <2>1, <2>2, <2>3, TotalIs, LadderIs DEF Cleared
<1> QED
  BY <1>1, <1>2, <1>3, PTL DEF Spec

-----------------------------------------------------------------------------
(* One administrator: the levels have no gap, and the campaign that is shown *)
(* is the one that the gate enforces                                         *)

\* What administrator a has looked at is still so: nobody else edits.
NumberInv(a) ==
    /\ Typed
    /\ DOMAIN levels = 1 .. CountIn(levels) /\ CountIn(levels) \in 1 .. Cap
    /\ At(a, "create") => CountIn(levels) < Cap
    /\ At(a, "played") \/ At(a, "delete") =>
           task[a].level = CountIn(levels) /\ CountIn(levels) >= 2
    /\ At(a, "edit") => task[a].level \in DOMAIN levels

LEMMA CountOfRange ==
    ASSUME NEW l, NEW n \in Nat, DOMAIN l = 1 .. n
    PROVE  CountIn(l) = n
<1>1. (1 .. n) \cup {0} \in SUBSET Nat /\ \A x \in (1 .. n) \cup {0} : x <= n
  OBVIOUS
<1>2. Max((1 .. n) \cup {0}) = n
  <2> DEFINE S == (1 .. n) \cup {0}
  <2>1. S # {} /\ n \in S
    OBVIOUS
  <2>2. S \in SUBSET Nat /\ \A x \in S : x <= n
    BY <1>1
  <2> HIDE DEF S
  <2>3. Max(S) \in S /\ \A x \in S : x <= Max(S)
    BY <2>1, <2>2, MaxOfBounded
  <2>4. ASSUME NEW m \in S, \A x \in S : x <= m PROVE m = n
    <3>1. m <= n /\ n <= m /\ m \in Nat
      BY <2>1, <2>2, <2>4
    <3> QED
      BY <3>1
  <2>5. Max(S) = n
    BY <2>3, <2>4
  <2> QED
    BY <2>5 DEF S
<1> QED
  BY <1>2 DEF CountIn

LEMMA NumberInit == ASSUME Init, NEW a \in Admins PROVE NumberInv(a)
<1>1. DOMAIN levels = 1 .. Len(Campaign) /\ Len(Campaign) \in 1 .. Cap
      /\ Len(Campaign) \in Nat
  BY ConstantsOK DEF Init
<1>2. CountIn(levels) = Len(Campaign)
  BY <1>1, CountOfRange
<1> QED
  BY <1>1, <1>2, InitTyped DEF NumberInv, At, Init

\* A begins or moves on: the levels stay.
LEMMA NumberBegins ==
    ASSUME NEW a \in Admins, NumberInv(a), Typed', levels' = levels,
           NEW new \in Task \cup {NoTask}, task' = [task EXCEPT ![a] = new],
           new # NoTask /\ new.step = "create" => CountIn(levels) < Cap,
           new # NoTask /\ new.step \in {"played", "delete"} =>
               new.level = CountIn(levels) /\ CountIn(levels) >= 2,
           new # NoTask /\ new.step = "edit" => new.level \in DOMAIN levels
    PROVE  NumberInv(a)'
<1>1. task'[a] = new
  BY TaskTyped DEF NumberInv
<1> QED
  BY <1>1 DEF NumberInv, At

\* A finishes: the levels are still numbered.
LEMMA NumberEnds ==
    ASSUME NEW a \in Admins, NumberInv(a), Typed', Finish(a),
           NEW n \in 1 .. Cap, DOMAIN levels' = 1 .. n
    PROVE  NumberInv(a)'
<1>1. task'[a] = NoTask
  BY TaskTyped DEF NumberInv, Finish
<1>2. CountIn(levels') = n
  BY CountOfRange, ConstantsOK
<1> QED
  BY <1>1, <1>2 DEF NumberInv, At

LEMMA NumberStep ==
    ASSUME NEW a, Admins = {a}, NumberInv(a), [Next]_vars
    PROVE  NumberInv(a)'
<1>t. Typed /\ Typed'
  BY TypeStep DEF NumberInv
<1> DEFINE n == CountIn(levels)
<1>0. /\ n \in 1 .. Cap /\ n \in Nat /\ DOMAIN levels = 1 .. n /\ LevelCount = n
      /\ a \in Admins /\ LevelsOK(levels)
  BY <1>t, TiersAre, TypedParts, ConstantsOK DEF NumberInv
<1>1. CASE UNCHANGED <<levels, task>>
  BY <1>t, <1>1 DEF NumberInv, At
<1>2. CASE BeginCreate(a)
  <2> DEFINE new == [step |-> "create", level |-> 0]
  <2>1. new \in Task /\ new.step = "create"
    BY TaskKinds
  <2>2. task' = [task EXCEPT ![a] = new] /\ levels' = levels /\ n < Cap
    BY <1>0, <1>2 DEF BeginCreate, Begin, BelowCap, tables
  <2> HIDE DEF new
  <2> QED
    BY <1>t, <1>0, <2>1, <2>2, NumberBegins
<1>3. CASE CreateExpeditionLevel(a)
  <2>1. n < Cap /\ n + 1 \in Indices
    BY <1>0, <1>3 DEF CreateExpeditionLevel, NumberInv
  <2>2. DOMAIN levels' = DOMAIN levels \cup {n + 1}
    BY <1>0, <1>3 DEF CreateExpeditionLevel, SetRow
  <2> HIDE DEF n
  <2>3. DOMAIN levels' = 1 .. n + 1 /\ n + 1 \in 1 .. Cap
    BY <1>0, <2>1, <2>2, ConstantsOK
  <2> QED
    BY <1>t, <1>0, <1>3, <2>3, NumberEnds DEF CreateExpeditionLevel
<1>4. CASE CountPlayed(a)
  <2> DEFINE new == [task[a] EXCEPT !.step = "delete"]
  <2>1. task[a] \in Task /\ task[a].level = n /\ n >= 2
    BY <1>t, <1>4 DEF CountPlayed, At, Typed, NumberInv
  <2>2. new \in Task /\ new.step = "delete" /\ new.level = n
    BY <2>1 DEF Task
  <2>3. task' = [task EXCEPT ![a] = new] /\ levels' = levels
    BY <1>4 DEF CountPlayed, tables
  <2> HIDE DEF new
  <2> QED
    BY <1>t, <1>0, <2>1, <2>2, <2>3, NumberBegins
<1>5. CASE DeleteLevel(a)
  <2>1. task[a].level = n /\ n >= 2
    BY <1>5 DEF DeleteLevel, NumberInv
  <2>2. DOMAIN levels' = DOMAIN levels \ {n}
    BY <1>5, <2>1 DEF DeleteLevel
  <2> HIDE DEF n
  <2>3. DOMAIN levels' = 1 .. n - 1 /\ n - 1 \in 1 .. Cap
    BY <1>0, <2>1, <2>2, ConstantsOK
  <2> QED
    BY <1>t, <1>0, <1>5, <2>3, NumberEnds DEF DeleteLevel
<1>6. ASSUME NEW i \in Indices, BeginDelete(a, i)
      PROVE  NumberInv(a)'
  <2> DEFINE new == [step |-> "played", level |-> i]
  <2>1. new \in Task /\ new.step = "played" /\ new.level = i
    BY TaskKinds
  <2>2. i = n /\ n >= 2
    BY <1>0, <1>6 DEF BeginDelete, IsLastLevel
  <2>3. task' = [task EXCEPT ![a] = new] /\ levels' = levels
    BY <1>6 DEF BeginDelete, Begin, tables
  <2> HIDE DEF new
  <2> QED
    BY <1>t, <1>0, <2>1, <2>2, <2>3, NumberBegins
<1>7. ASSUME NEW i \in Indices, BeginEdit(a, i)
      PROVE  NumberInv(a)'
  <2> DEFINE new == [step |-> "edit", level |-> i]
  <2>1. new \in Task /\ new.step = "edit" /\ new.level = i
    BY TaskKinds
  <2>2. i \in DOMAIN levels
    BY <1>0, <1>7, IndicesFinite DEF BeginEdit
  <2>3. task' = [task EXCEPT ![a] = new] /\ levels' = levels
    BY <1>7 DEF BeginEdit, Begin, tables
  <2> HIDE DEF new
  <2> QED
    BY <1>t, <1>0, <2>1, <2>2, <2>3, NumberBegins
<1>8. ASSUME SetLevelImage(a) \/ \E config \in Configs : UpdateLevelConfig(a, config)
      PROVE  NumberInv(a)'
  <2>1. /\ task[a].level \in DOMAIN levels /\ Finish(a)
        /\ DOMAIN levels' = DOMAIN levels \cup {task[a].level}
    BY <1>8 DEF SetLevelImage, UpdateLevelConfig, SetRow, NumberInv
  <2>2. DOMAIN levels' = 1 .. n
    BY <1>0, <2>1
  <2> QED
    BY <1>t, <1>0, <2>1, <2>2, NumberEnds
<1>9. CASE AdminDies(a)
  <2>1. DOMAIN levels' = 1 .. n /\ Finish(a)
    BY <1>0, <1>9 DEF AdminDies, tables
  <2> QED
    BY <1>t, <1>0, <2>1, NumberEnds
<1> QED
  BY <1>1, <1>2, <1>3, <1>4, <1>5, <1>6, <1>7, <1>8, <1>9
     DEF Next, vars, tables, Administration, Load, ReadStars, Gate, LevelImageID,
         StartExpeditionLevel, FailExpeditionLevel, CompleteExpeditionLevel, AddXP, GiveUp,
         BuyStars

\* One more level below: its stars are asked for when it is on the map.
LEMMA RequiredStep ==
    ASSUME NEW l, LevelsOK(l), NEW i \in Nat
    PROVE  Required(l, i) =
               IF i <= 1 THEN 0
               ELSE Required(l, i - 1)
                    + (IF TierIn(l, i - 1).onMain THEN TierIn(l, i - 1).star ELSE 0)
<1>1. CASE i <= 1
  <2>1. MainBelow(l, i) = {}
    BY <1>1 DEF MainBelow
  <2> QED
    BY <1>1, <2>1, SumStep, FS_EmptySet DEF Required
<1>2. CASE ~(i <= 1)
  <2> DEFINE k == i - 1
             S == MainBelow(l, k)
             f == Stars(l)
  <2>0. k \in Nat \ {0}
    BY <1>2
  <2>1. MainBelow(l, i) = S \cup (IF TierIn(l, k).onMain THEN {k} ELSE {}) /\ k \notin S
    <3>1. 1 .. i - 1 = (1 .. k - 1) \cup {k} /\ k \notin 1 .. k - 1
      BY <2>0
    <3> QED
      BY <3>1 DEF MainBelow
  <2>2. \A x \in Nat \ {0} : TierIn(l, x).onMain => x \in Indices
    <3>1. CountIn(l) \in 0 .. Top
      BY CountIsLast DEF LevelsOK
    <3> QED
      BY <3>1, TopIs DEF TierIn
  <2>3. S \subseteq Indices /\ IsFiniteSet(S)
    <3>1. S \subseteq Indices
      BY <2>2 DEF MainBelow
    <3> QED
      BY <3>1, IndicesFinite, FS_Subset
  <2>4. CASE TierIn(l, k).onMain
    <3>1. k \in Indices /\ \A x \in Indices : f[x] \in Int /\ f[x] = TierIn(l, x).star
      BY <2>0, <2>2, <2>4, StarsTyped
    <3>a. k \notin S
      BY <2>1
    <3> HIDE DEF f, S, k
    <3>b. IsFiniteSet(S) /\ \A x \in S \cup {k} : f[x] \in Int
      BY <2>3, <3>1
    <3>2. SumOf(f, S \cup {k}) = SumOf(f, S) + f[k]
      BY <3>a, <3>b, SumAdd
    <3>3. Required(l, i) = Required(l, k) + TierIn(l, k).star
      BY <2>1, <2>4, <3>1, <3>2 DEF Required, f, S
    <3> QED
      BY <1>2, <2>4, <3>3 DEF k
  <2>5. CASE ~TierIn(l, k).onMain
    <3>1. SumOf(f, S) \in Nat
      BY <2>3, StarsTyped
    <3>2. Required(l, i) = Required(l, k) /\ Required(l, k) \in Nat
      BY <2>1, <2>5, <3>1 DEF Required
    <3> QED
      BY <1>2, <2>5, <3>2
  <2> QED
    BY <2>4, <2>5
<1> QED
  BY <1>1, <1>2

\* The loop that builds the view arrives at what the gate sums.
LEMMA RunningIs ==
    ASSUME Typed, NEW e \in Nat
    PROVE  RunningSum[e] = Required(levels, e)
<1> DEFINE Solves(g) ==
               g = [i \in Nat |-> IF i <= 1 THEN 0
                                  ELSE g[i - 1] + (IF CountsOnMap(i - 1)
                                                   THEN EffectiveTier(i - 1).star ELSE 0)]
           req == [i \in Nat |-> Required(levels, i)]
<1>0. LevelsOK(levels)
  BY TypedParts
<1>1. ASSUME NEW i \in Nat
      PROVE  Required(levels, i) =
                 IF i <= 1 THEN 0
                 ELSE Required(levels, i - 1) + (IF CountsOnMap(i - 1)
                                                 THEN EffectiveTier(i - 1).star ELSE 0)
  BY <1>0, RequiredStep, TiersAre DEF CountsOnMap
<1>2. Solves(req)
  <2>1. ASSUME NEW i \in Nat
        PROVE  req[i] = IF i <= 1 THEN 0
                        ELSE req[i - 1] + (IF CountsOnMap(i - 1)
                                           THEN EffectiveTier(i - 1).star ELSE 0)
    <3>1. ~(i <= 1) => i - 1 \in Nat
      OBVIOUS
    <3> QED
      BY <1>1, <3>1
  <2>2. req = [i \in Nat |-> req[i]]
    OBVIOUS
  <2> HIDE DEF req
  <2> QED
    BY <2>1, <2>2
<1>3. RunningSum = CHOOSE g : Solves(g)
  BY DEF RunningSum
<1>4. Solves(RunningSum)
  <2> HIDE DEF Solves, req
  <2> QED
    BY <1>2, <1>3, Zenon
<1>5. ASSUME NEW i \in Nat
      PROVE  RunningSum[i] = IF i <= 1 THEN 0
                             ELSE RunningSum[i - 1] + (IF CountsOnMap(i - 1)
                                                       THEN EffectiveTier(i - 1).star ELSE 0)
  BY <1>4
<1> DEFINE bad == {i \in Nat : RunningSum[i] # Required(levels, i)}
<1> SUFFICES ASSUME bad # {} PROVE FALSE
  <2>1. bad = {} => RunningSum[e] = Required(levels, e)
    OBVIOUS
  <2> HIDE DEF bad
  <2> QED
    BY <2>1
<1>6. PICK i \in bad : \A m \in bad : i <= m
  <2>1. bad \in SUBSET Nat
    OBVIOUS
  <2> HIDE DEF bad
  <2> QED
    BY <2>1, LeastNumber
<1>7. i \in Nat /\ RunningSum[i] # Required(levels, i)
  OBVIOUS
<1>8. ~(i <= 1) => RunningSum[i - 1] = Required(levels, i - 1)
  <2>1. ~(i <= 1) => i - 1 \in Nat /\ ~(i <= i - 1)
    BY <1>7
  <2>2. ~(i <= 1) => i - 1 \notin bad
    BY <1>6, <2>1
  <2> QED
    BY <2>1, <2>2
<1> HIDE DEF bad
<1> QED
  BY <1>1, <1>5, <1>7, <1>8

\* A page of the administrator's list is that page of the player's campaign.
LEMMA PageRows ==
    ASSUME NEW count \in Nat, NEW limit \in Nat, NEW offset \in Nat, offset <= count
    PROVE  /\ AdminPage(count, limit, offset).room >= 0
           /\ AdminPage(count, limit, offset).rows = PageOf(count, limit, offset)
<1> DEFINE to == IF offset + limit > count THEN count ELSE offset + limit
<1>1. /\ AdminPage(count, limit, offset).room = to - (offset + 1) + 1
      /\ AdminPage(count, limit, offset).rows = offset + 1 .. to
  BY DEF AdminPage
<1>2. to - (offset + 1) + 1 >= 0
  OBVIOUS
<1>3. offset + 1 .. to = {i \in 1 .. count : offset < i /\ i <= offset + limit}
  OBVIOUS
<1> QED
  BY <1>1, <1>2, <1>3 DEF PageOf

LEMMA Pages == ASSUME NEW count \in Nat PROVE PagesAgree(count)
<1>1. ASSUME NEW limit \in 1 .. Cap, NEW number \in 1 .. Cap
      PROVE  (number - 1) * limit \in Nat
  <2>1. \A x, y \in Nat : x * y \in Nat
    OBVIOUS
  <2>2. number - 1 \in Nat /\ limit \in Nat
    BY <1>1, ConstantsOK
  <2> QED
    BY <2>1, <2>2
<1>2. 1 .. Cap \subseteq Nat
  BY ConstantsOK
<1> QED
  BY <1>1, <1>2, PageRows DEF PagesAgree

\* What makes the types inductive, and one administrator's levels numbered.
TypeInv == Typed /\ \A a \in Admins : Admins = {a} => NumberInv(a)

\* The tables and the handlers hold values of their types, and the cap holds as
\* long as one administrator looks at it: nobody appends behind the check.
THEOREM TypeCorrect == Spec => []TypeOK
<1>1. Init => TypeInv
  BY InitTyped, NumberInit DEF TypeInv
<1>2. TypeInv /\ [Next]_vars => TypeInv'
  BY TypeStep, NumberStep DEF TypeInv
<1>3. TypeInv => TypeOK
  <2> SUFFICES ASSUME TypeInv, Cardinality(Admins) = 1
               PROVE  LevelCount <= Cap
    BY DEF TypeInv, Typed, TypeOK
  <2>1. PICK a : Admins = {a}
    BY FS_Singleton, ConstantsOK
  <2>2. NumberInv(a)
    BY <2>1 DEF TypeInv
  <2> QED
    BY <2>2, TiersAre, ConstantsOK DEF NumberInv
<1> QED
  BY <1>1, <1>2, <1>3, PTL DEF Spec

\* With one administrator at work, the numbers have no gap, whatever is appended,
\* edited and removed, and a player is shown as open just what start and complete
\* let through: the loop of the view and the sum of the gate agree.
THEOREM CampaignIsAsShown ==
    ASSUME NEW a, Admins = {a}
    PROVE  Spec => []ViewAgreesWithGate
<1>0. a \in Admins
  OBVIOUS
<1>1. Init => NumberInv(a) /\ LadderInv
  BY <1>0, NumberInit, LadderInit
<1>2. NumberInv(a) /\ LadderInv /\ [Next]_vars => NumberInv(a)' /\ LadderInv'
  BY NumberStep, LadderStep
<1>3. NumberInv(a) /\ LadderInv => ViewAgreesWithGate
  <2> SUFFICES ASSUME NumberInv(a), LadderInv
               PROVE  ViewAgreesWithGate
    OBVIOUS
  <2>0. /\ Typed /\ LevelsOK(levels) /\ LevelCount \in 1 .. Cap /\ LevelCount \in Nat
        /\ DOMAIN levels = 1 .. LevelCount /\ bonus \in [Users -> 0 .. MaxBonus]
        /\ progress \in [Users -> [Indices -> Statuses]] /\ 1 .. LevelCount \subseteq Indices
    BY TypedParts, TiersAre, ConstantsOK DEF NumberInv, LevelsOK
  <2>1. Numbered /\ PagesAgree(LevelCount)
    BY <2>0, Pages DEF Numbered
  <2>2. \A i \in 1 .. LevelCount : RunningSum[i] = RequiredStars(i) /\ RequiredStars(i) \in Nat
    BY <2>0, RunningIs, TiersAre, RequiredTyped, SMTT(30)
  <2>3. ASSUME NEW u \in Users
        PROVE  LET n     == TotalExpeditionStars(u)
                   shown == [i \in 1 .. LevelCount |-> StatusShown(u, n, i)]
               IN  /\ \A i \in 1 .. LevelCount :
                          /\ shown[i] # "locked" <=> Opens(i, n)
                          /\ edits = 0 /\ progress[u][i] # "none" => shown[i] = progress[u][i]
                   /\ \E i \in 1 .. LevelCount : shown[i] # "locked"
                   /\ OnMap # {} => CurrentLevel(u) \in 1 .. Cardinality(OnMap)
    <3> DEFINE n == TotalExpeditionStars(u)
    <3>1. n \in Nat
      BY <2>0, TotalIs, TotalTyped
    <3>2. ASSUME NEW i \in 1 .. LevelCount
          PROVE  StatusShown(u, n, i) # "locked" <=> Opens(i, n)
      <4>1. progress[u][i] \in Statuses
        BY <2>0
      <4> HIDE DEF n
      <4> QED
        BY <2>2, <3>1, <4>1 DEF StatusShown, Opens, Statuses
    <3>3. ASSUME NEW i \in 1 .. LevelCount, edits = 0, progress[u][i] # "none"
          PROVE  StatusShown(u, n, i) = progress[u][i]
      <4>1. i \in Indices /\ progress[u][i] \in Statuses
        BY <2>0
      <4>2. Cleared(u, i)
        BY <3>3, <4>1 DEF LadderInv, Ladder, Played
      <4>3. EffectiveTier(i).onMain => n >= RequiredStars(i)
        BY <4>2, TiersAre, TotalIs DEF Cleared
      <4> HIDE DEF n
      <4> QED
        BY <2>2, <3>1, <3>3, <4>3 DEF StatusShown
    <3>4. StatusShown(u, n, 1) # "locked" /\ 1 \in 1 .. LevelCount
      <4>1. 1 \in 1 .. LevelCount /\ RunningSum[1] = 0
        BY <2>0, RunningIs, RequiredStep
      <4>2. progress[u][1] \in Statuses
        BY <2>0, <4>1
      <4> HIDE DEF n
      <4> QED
        BY <3>1, <4>1, <4>2 DEF StatusShown, Statuses
    <3>5. OnMap # {} => CurrentLevel(u) \in 1 .. Cardinality(OnMap)
      <4> DEFINE W == CompletedLevels(u) \cap OnMap
      <4>1. OnMap \subseteq Indices /\ W \subseteq Indices
        BY <2>0 DEF OnMap
      <4>2. IsFiniteSet(OnMap) /\ IsFiniteSet(W)
        BY <4>1, IndicesFinite, FS_Subset
      <4> HIDE DEF W
      <4>3. Cardinality(OnMap) \in Nat /\ Cardinality(W) \in Nat
        BY <4>2, FS_CardinalityType
      <4>4. OnMap # {} => Cardinality(OnMap) # 0
        BY <4>2, FS_EmptySet
      <4>5. CurrentLevel(u) = Min({Cardinality(W) + 1, Cardinality(OnMap)})
        BY DEF CurrentLevel, W
      <4> QED
        BY <4>3, <4>4, <4>5, MinOfPair
    <3> HIDE DEF n
    <3>6. LET shown == [i \in 1 .. LevelCount |-> StatusShown(u, n, i)]
          IN  /\ \A i \in 1 .. LevelCount :
                     /\ shown[i] # "locked" <=> Opens(i, n)
                     /\ edits = 0 /\ progress[u][i] # "none" => shown[i] = progress[u][i]
              /\ \E i \in 1 .. LevelCount : shown[i] # "locked"
      BY <3>2, <3>3, <3>4
    <3> QED
      BY <3>5, <3>6 DEF n
  <2> QED
    BY <2>1, <2>3 DEF ViewAgreesWithGate
<1> QED
  BY <1>1, <1>2, <1>3, PTL DEF Spec
=============================================================================
