# A verification of the magic-jigsaw backend

This directory holds TLA+ models of the Go server under `src/`, the TLC
configurations that check them on small instances, and proofs for TLAPS.
`PROJECT.json` is the index: components, runs, the lines of code each definition
stands for, a mutant for each property, findings, hazards and theorems.

    tlc -workers 2 -config daily.cfg MCDailyChallenge.tla     # one run
    tlapm DailyChallengeProofs.tla                            # proofs (4 min)
    tlapm HiddenSecretProofs.tla                              # and so each *Proofs.tla

## 1. The system

A stateless HTTP server (`src/internal/api`) over one PostgreSQL database
(`src/internal/repository`). Each request is a goroutine; handlers share nothing
in memory but the rate limiter and the connection pool. All that matters is in
tables, so the concurrency that matters is that of statements and transactions
at READ COMMITTED: a handler is a sequence of statements; between two of them
any other request, an administrator, or midnight may come, and the handler may
stop (a lost connection, a timeout, a crash), which leaves what it committed.

### Inventory

| component | state | operations | what makes it hard | what makes it correct |
|---|---|---|---|---|
| Daily challenge (`api/challenges.go`, `repository/results.go`, `challenges.go`) | `daily_challenges` by date, `challenge_results` by user and date, `users.total_score`, `xp`, `unlock_points` | start, complete, fail, answer the quiz; queue, edit | the challenge and the clock are read before the statement they guard; XP and point are statements after the commit; retries | a result is final; the score is the sum of the results; each award once; nothing is played early |
| Wallet (`api/checkin.go`, `api/points.go`, `repository/checkin.go`, `purchases.go`, `internal/purchases`) | `checkins`, `purchases`, `users.unlock_points`, `expedition_bonus_stars` | check in, spend, confirm a purchase | retries, shared receipts, overlapping transactions, the client names its day | a store transaction pays one user once; balances are what the ledger says; no balance below zero |
| Check-in calendar and streak (`api/checkin.go`) | none: computed from `checkins` | `buildCheckinState` | a window of 180 days; the client names its day; today may still come | the streak is the run of days that ends now, and none of them is made up |
| Dungeon (`repository/dungeon.go`, `api/dungeons.go`, `admin_dungeons.go`) | `dungeons`, `dungeon_monsters`, `dungeon_progress`, `dungeon_treasure_unlocks`, `unlock_points` | move, retreat, defeat, complete; create, replace, delete | map and monster are read before the transaction opens; a new map drops the progress that its DELETE sees, and commits later | the walk has no gap and is paid for; no completion with a monster left; XP once per map; the trophy stays |
| Expedition (`repository/expedition.go`, `api/expedition.go`) | `expedition_levels`, `expedition_progress`, `expedition_bonus_stars` | start, complete, fail; append, remove the last, set image, configure | nothing is a transaction: stars, tiers and image are read one after the other; removal is three statements | nobody gets ahead of the ladder; a level pays once; numbering without gap; the view agrees with the gate |
| Hidden secrets (`repository/hidden_secret.go`, `api/hidden_secrets.go`) | `hidden_secrets`, `hidden_secret_progress`, `hidden_secret_unlocks`, `users.xp`, `unlock_points` | reveal a tile; create, update, delete | the picture is read before the transaction, an administrator replaces it; the row that is inserted or found is locked by a later statement; two rewards after the commit | no reveal closes a shutter; an uncovered picture is in the gallery; each reward once per picture |
| Stories (`repository/stories.go`, `api/stories.go`) | `stories`, `story_pages`, `story_page_progress`, `users.xp` | complete a page; add a page, change the level required | page, level, previous page, record and XP are five statements without a transaction | no page before its predecessor, nor behind the gate; XP once per page |
| Stats, leaderboard, achievements (`repository/stats.go`, `achievements.go`, `api/stats.go`) | `achievements`; reads `total_score` | `handleMyStats`, `handleLeaderboard` | rank and aggregates are queries apart, and old when the achievement is given; speed is judged by seconds that may be edited | whoever has an achievement deserved it once |
| Rate limiter (`httpx/ratelimit.go`) | buckets by client, under a mutex | `allow`, `cleanupLoop` | a janitor evicts buckets, and a new bucket is full | between any two requests let through, no more than a full bucket and what came back |
| Middleware, connection pool, server lifecycle (`httpx/middleware.go`, `database/database.go`, `api/ops.go`, `cmd/server/main.go`) | calls inside, connections checked out, the phase of `run` | arrive, acquire, release, panic, hang up; probe; shut down, close the pool | a transaction asks for a second connection, with a row locked that others wait for; handlers panic; two timeouts | every connection and every count comes back; probes answer; a shutdown ends |
| Accounts and sessions (`api/auth.go`, `auth/jwt.go`, `repository/users.go`, `config/config.go`) | `users`; the list of administrators of the process; the tokens that are out | register, log in, `RequireAuth`, `RequireAdmin`; restart | the role is read and written apart, and lives on in tokens | who leaves the list is no administrator a token's life later |
| Collection, image library (`repository/images.go`, `collection.go`, `api/admin_library.go`, `collection.go`, `httpx/paging.go`) | files in storage, `images`, `collection_items` | upload, in batches too; add, remove, retitle; list by pages | a file is stored before its row, and either may fail; lists change between two pages | what is listed has its file; leafing through a list misses nothing |
| Migrations and boot | the schema | `Migrate`, `run` | files run again at each call of `Migrate` | idempotent; not called by `run` today (the call is commented out) |
| Storage, metrics, logging; Swagger, load test | none of their own | I/O | — | — |

How they meet. Unlock points connect the daily challenge (earns), check-in
(earns), purchases and hidden secrets (earn), the dungeon and the spend endpoint
(spend); each is a relative `UPDATE ... SET unlock_points = unlock_points + $n`,
guarded by a balance where it spends, so a component's model needs only its own
writers: the others move the balance by commuting amounts. Bonus stars connect
purchases to the expedition, which models them as an environment action
(`BuyStars`). XP flows one way, from all games to the level that stories ask for
(`EarnXP` in `Story`), and the score flows from the daily challenge to the ranks
(`FinishResult` in `Rankings`). Around the games, a call passes the limiter, is
counted by `Telemetry`, is authenticated and asks the pool for connections;
these share no state with each other nor with the games' tables.

## 2. Modules

| module | what it is |
|---|---|
| `DailyChallenge` | the component, its properties |
| `ExactlyOnceWallet` | the abstract wallet: what users are promised |
| `Wallet` | the detailed wallet, with locks and uncommitted rows; it implements the abstract one |
| `Dungeon`, `Expedition`, `HiddenSecret`, `Story` | the other games, their properties |
| `RateLimiter`, `Gateway`, `Library`, `Accounts`, `Rankings` | the components around the games, their properties |
| `Counting` | lemmas on finite sets and sums over them that the proofs share |
| `DailyChallengeProofs`, `WalletProofs`, `DungeonProofs`, `ExpeditionProofs`, `HiddenSecretProofs`, `StoryProofs` | theorems about the component of that name and their proofs |
| `ServiceProofs` | theorems about the five components around the games |
| `MC...` | constants of the small instances; `MCService` puts the five components around the games into one run |

Conventions common to all:

- `pc` and `job` say where each in-flight handler is and what it has read. A
  `Requests` element is a slot for a handler, reused when it ends; retries,
  duplicates and a second device are further requests of the same user.
- One statement is one step. A transaction that takes the row lock it depends on
  first is one step too; one whose intermediate states can be told apart
  (`CreditPurchase`, whose uncommitted row makes others wait) is several.
- `Die` ends a handler between two statements; awards it still owed go to the
  history variable `lost`.
- History variables (`promised`, `credited`, `lost`, `paid`, `spent`, `moves`,
  `Progress.maps`) are written and never read by a guard: they exist to state
  properties.
- Operators marked "a slip" are not the code. Each is a mistake the code could
  make in the definition below it; `PROJECT.json` says which property must fail
  when it takes that definition's place. Every property has one, and where a
  property has several parts there may be another for each.
- What a page shows (`ListDungeons`, `GetStory`, `StatusShown`, `Streak`, ...) is an
  operator on the state, not an action: a read changes nothing. The properties relate it to
  what the transactions enforce, which the code computes by other queries.

### DailyChallenge

`Load` is the request reaching its handler and `GetChallengeByDate`; the
challenge it returns stays in `job[r].row` however it is edited afterwards.
`CheckStart`, `CheckComplete`, `CheckFail`, `CheckAnswer` are the conditions on
clock and body (`challengeIsActive`, the grid bound of complete, none of fail
but zero); `StartResult`, `CompleteResult`, `FailResult`, `AnswerChallengeQuiz`
are the statements or transactions of `results.go`, conditions in their `WHERE`
clauses included. After `CompleteResult`, `AddXP` and `AddUnlockPoints` are
statements of their own; a failing `AddXP` is logged and the handler goes on
(`AddXPFails`), as in the code. `NextChallengeDate` and `AppendChallenge` are the
two statements of a create without a date; in the run of finding 1 every create is
one of these (`MCAppendSpec`).

Abstracted: a row is its reward, its grid size, its limit of seconds and its quiz answer;
pictures, titles and response bodies are left out.

### Wallet and ExactlyOnceWallet

`handleConfirmPurchase` chooses, among the transactions the store has
(`bought`), the newest of the product (App Store) or the one named (Google
Play): that is what the verifiers return; cryptography and wire formats are the
stores' business. `InsertPurchase`, `UpdateBalances`, `Commit` are the
transaction; `Replay` is the conflict branch; `KeyFree` and `RowFree` are the
locks. `CheckIn` and `AddUnlockPoints` are two statements, with nothing around
them. `CheckinDates`, `Streak`, `WeekCheckedIn` are `buildCheckinState`, from the rows of
its window (`Window` for 180 days) and the day the client claims; days are numbered, day 0
a Sunday. `StreakIsARun` judges the backward loop by the longest run there is. The refinement maps `credited` to the transactions in the ledger and the
other variables to themselves: a commit is the abstract `Credit`, everything
before it stutters, a rollback leaves nothing.

### Dungeon

A map is a road of cells, its ends, its monsters, its image and whether it is
switched on; `ValidateDungeonLayout` is translated condition by condition and
the inputs contain maps it must refuse. A replacement is two steps, since the rows it deletes
are fixed by what its DELETE sees: `UpdateDungeon` takes the users who have a row then
(`saving`) and keeps these rows locked, so that their handlers wait (`Locked`); `CommitUpdate` removes
them and brings the new map, whose monsters have fresh ids (`MonsterId(version, cell)`);
`RollBackUpdate` leaves everything as it was. Whoever had no row may walk and complete
the old map meanwhile, and that row survives: `Progress.maps` remembers the versions that a
row's writers had read. Every property is about such rows too, but where it says `Fresh`. The
counterexample of finding 3 is to need no such row, so its instance (`MCStaleSpec`) lets no
player act between `UpdateDungeon` and its end. Handlers of
move, defeat and complete hold the map they read in `job[r].map`. `Legacy` maps have no
image: they were saved before migration 0015, and passed the validation of their time. `ListDungeons`, `GetDungeon` and
`ListUnlockedTreasures` are what a player is shown.

### Expedition

`levels` is a function on the indices that exist, so that a gap in the numbering
can be a state. The gate is `Opens` over the sum of stars of the lower levels,
and the view's running sum is `RunningSum`: the code computes the two apart, and
`ViewAgreesWithGate` relates them. `BeginDelete`, `CountPlayed`, `DeleteLevel`
are the three statements of a removal; `SetLevelImage` and `UpdateLevelConfig`
are upserts and may bring a removed level back. `PageOf` cuts the player's list and
`AdminPage` computes the administrator's. `TotalExpeditionStars` runs two
queries; they are one step here, since a level completed between them is not
counted, which can only close a level that is open.

### HiddenSecret

`ReadSecret` is the read outside the transaction. `FirstReveal` is a reveal
whose insert makes the progress row: nothing can disturb it from there to its
commit, it only makes others wait. One that finds the row goes on in steps,
because the row is not locked yet: `RowExists` (ON CONFLICT DO NOTHING), then
`LockProgress`, `Refuse` or `RowIsGone`, then `RevealHiddenSecretTile`, which
holds the lock (`Locked`) that other reveals, a replacement of the picture and a
deletion wait for. `UpdateHiddenSecret` is one step for the same reason as
`FirstReveal`. The rewards are `AddXP`, whose failure is logged and passed over,
and `AddUnlockPoints`. `board` counts the pictures the secret has had, so that
"once" can be said of each. The size of a reward is data: `ValidateHiddenSecret`
makes the XP positive, and the points are a constant. `ListHiddenSecrets`,
`GetHiddenSecret` and `ListUnlockedHiddenSecrets` are the list, the board and the gallery.
The board carries the picture from the first shutter on, for the client to cut; what
`ListedAsEarned` says is about the list, which withholds it.

PostgreSQL breaks the cycle in which a reveal that completes the picture asks for
a share of the secret's row (the foreign key of the gallery) while a replacement
holds it and waits for the progress row; the statement that loses fails, which
is `Die`, or an administrator who tries again.

### Story

`ReadPage`, `CheckLevel`, `CheckPrevious`, `CompleteStoryPage` and `AddXP` are
the five statements. A page is its index: pages are only appended, and of two
that are appended at once the UNIQUE index lets one through. `lowest` remembers
the lowest gate there has been, for `NobodyReadsAhead`. `LevelFromXP` is the
code's loop as a recursive function (`Climb`); the property judges it by the
closed form of the sum it adds up (`XPToReach`), not by itself. `ListStories` and `GetStory`
are the pages a reader is shown, with the level, the flags and the XP they compute by
queries of their own.

### RateLimiter

`allow` is three actions, by what it finds: no bucket (`FirstVisit`), a bucket with a token
(`Visit`), one without (`TurnAway`); the mutex makes each one step. A bucket gains one unit
a tick and a request costs `Cost` units, so that all arithmetic is in integers and 1/`Cost`
is the rate. `Origin` is what a request says of its address, and `clientIP` which of it is
believed. `Cleanup` is one round of the janitor, at any time, since its ticker may be late.

### Gateway

A handler is the number of times it asks the pool for a connection (`MostAsks`), and the rows
(`Rows`) that its transactions lock; which queries these are is the games' business. `LockRow`
is a `SELECT ... FOR UPDATE` or a write: the call waits in `wants`, with its connection, until
no other has the row in `locks` (`Granted`), and keeps it to the end of its transaction
(`LetsGo`). Transactions lock rows in any order; where they wait for each other (`Deadlocks`)
PostgreSQL fails one of them (`DeadlockFound`). `AskAgain` is `RetreatDungeon` reading the energy through the pool
inside its transaction, the only place where a call asks while it holds (`NestsIn`): a
connection, and the player's progress row if there is one. `Stuck` is a pool of which every
connection is with a call that waits, for a row or for another connection, and `Halted` one that
PostgreSQL, which sees rows only, cannot free. The pool is modelled from how it is used: it has `MaxConns`, makes others wait, and after
`Close` refuses who gets as far as a connection and wakes nobody. `Return` and `Panic` are
the two ways out past `Telemetry`'s deferred `Dec`; `ClientGone` ends a request's context,
`ProbeTimesOut` is `handleReadyz`'s own. `Signal`, `ListenError`, `Drained`, `DrainTimeout`,
`Exit` are `run`.

### Library

The file numbered n is the n-th stored; `images` is the table by `created_at`. An upload is
`Bring`, `StoreFile`, `CreateImage` and, for a collection, `AddToCollection`; a batch goes on
with its next file whatever became of this one. `StoredUnknown` is an upload whose error comes
after the file was stored: no row is saved for it. A list is a set of pictures, and `Row` is
the place that ORDER BY ... DESC gives one of them, by which `Window` applies LIMIT and
OFFSET. A reader (`walk`) opens one of the two lists
with a limit and asks for pages while `HasMore`; `matches` says whether a title is what the
reader is searching for. History: `orphaned`, the files that
no row was saved for, and the reader's account of what was there at
the start and is unseen, and what was taken away since.

### Accounts

`GetUserAuthByEmail` is the read of a login; `KeepRole`, `UpdateUserRole` and
`UpdateUserRoleFails` are the ways its role check ends, each with the session it issues.
`Restart` starts the process with any list of administrators and forgets its requests.
Registration is one INSERT. Hashing and signing are taken to work: a password is checked by
equality, and a token is what was issued.

### Rankings

Scores and speeds are written by the environment: by `FinishResult`, and by `EditSeconds`, since
`play_seconds` of an old challenge may be edited both ways and the query judges by what it is
now. `fast` are the players the query finds so, `wasFast` those it ever would have found.
`GetAggregateStats`, `RankOfMine` and `ReadLeaderboard` are the queries, each at its own
time; what they make due waits in `reading` until `AwardAchievement`.

## 3. Runs

| run | instance | states | shows |
|---|---|---|---|
| `daily` | 1 user, 2 requests, 1 administrator, 1 date, clock 0–4, 2 contents | 273,051 | awards once; score, points and XP are what the results add up to; finality, nothing early, every win settles |
| `daily_append_race` | 2 administrators who name no date, 3 dates | stops at the violation | finding 1 |
| `wallet` | 2 users, 2 requests, one id at both stores, 1 failure | 224,600 | no drift, no negative balance, refinement of `ExactlyOnceWallet` |
| `wallet_days` | 1 user, 2 requests, 3 transactions, 2 days, a calendar of 2 days | 83,700 | no farming of check-ins, the streak is a run; purchases settle |
| `wallet_unpaid_checkin` | as above with spending | stops | finding 2 |
| `dungeon` | 1 user, 2 requests, grid 2×3, 6 maps, 2 versions, 4 points | 850,878 | no gap, paid for, shown as walked, no monster skipped, XP once, trophy kept |
| `dungeon_stale_monster` | two maps that differ in a monster's cell | stops | finding 3 |
| `expedition` | 1 user, 2 requests, 1 administrator, cap 3, collection levels, 1 edit, 1 bonus star | 315,131 | nobody skips ahead, XP once, stars kept, numbering, view and pages agree with the gate |
| `expedition_removal` | 2 requests, cap 2 | stops | finding 4 |
| `hidden_secret` | 1 user, 3 requests, 3 shutters, 2 pictures in turn | 23,862 | no shutter closes, gallery, list shows what was earned, rewards once |
| `story` | 1 user, 2 requests, 3 pages, 3 levels, rewards 2 and −1 | 665,584 | order, gate, pages as shown, XP once |
| `service` | 2 clients to clock 6; 3 calls on 2 connections, 2 rows; 3 files; 1 account, 2 restarts; 2 players | 139,664 | limit, connections, shutdown, pictures and pages, administrators, achievements |

`service` is a sum, not a product: a behaviour runs one of the five components and leaves
the others as they begin. They share no state, so their product has nothing to show that
they do not show one by one. Some bounds are constraints of the MC modules: `MCBound` lets
only one request work while the campaign has three levels (with two levels, both), and counts
stars that were bought as a request; `SmallLibrary` lets one picture of the library at a time be
outside the reader's search, one file lose its row before anybody reads, keeps the
collection empty while somebody looks into the library, and has games bring only the first picture and
batches end before anybody reads (`SmallUpload`); `SmallGateway` has retreats lock one row
(`RetreatRow`), others both, one probe at a time, and rows locked only while no more than
two calls but probes are inside; in `RankingsStep` one of the two players is
ever fast.

Why these bounds are enough. Every property is about one user's rows; users meet
only in the ledger and on the store's keys (`wallet` has two) and through
administrators (modelled as such). A race needs two handlers; a third could only
repeat what one of two does, since a slot is reused once its handler ends.
`LastDay = 4` lets a challenge be before, in and after its window of 2 days, with
a handler's check on either side of each midnight. A road of three and one of
four cells has a start, a treasure, one or two monsters between, a bend that
brings distant cells together, and enough points for a short walk and a
second one on a new map, or for going back on one, and too few for more. Two versions make one replacement. Cap 3 with
one administrator reaches the cap and falls below it, and has a
level with neighbours on both sides; `MaxLevels = 4` leaves room to go beyond it. `MaxFailures = 1` loses one handler at any
point; a second loss is an independent one. `Band = 1` puts the boundary between
two tiers where two levels suffice. Three shutters with three requests let two
reveals race for the last one while a third, late, holds an old picture. Three
pages have one with a neighbour on both sides; XP base 1 puts level 2 at 1 XP and
level 3 at 5, so that the gate is crossed both by pages and by other games.
A calendar that reads one day back (`Window = 1`) puts its edge inside a run of three days.
A full bucket of one token that comes back in three ticks, with an eviction window of one,
is the case in which the window must be raised, and six ticks hold two evictions. Two
connections and three calls let two retreats halt the pool with a third call behind them, or
one retreat with another call waiting for its row and a probe behind them; two rows make a deadlock.
Three files on pages of one make three pages, with rows moving in and out of those read.
Two restarts put an address on the list, off it and on again.

Symmetry is used in safety runs only, over users, requests, tiles and pictures,
which are interchangeable there. Deadlock is checked everywhere but in the dungeon runs and
`hidden_secret`, where a deleted dungeon or secret, with no handler left and
none to create, really is the end, and in `service`, where the process exits.

Fairness. `DailyChallenge`: weak fairness of each handler: the scheduler and
the database let every handler end, by finishing or failing. `Wallet`: strong
fairness, because a statement that waits for a lock is enabled and disabled as
others take it, and PostgreSQL queues waiters. `Gateway`: weak fairness of what handlers,
timers and `run` do by themselves (a call that waits for a row does nothing by itself), of a
deadlock being found, and strong fairness of `Acquire` and `Granted`, because the pool's
semaphore and the queue of a row serve waiters in order. A call whose row is held by a retreat
that waits for the pool is promised nothing, and neither is a shutdown then (`Halted`). No client, signal, administrator, clock or store
is ever forced to act.

## 4. Findings

1. `AppendTakesAFreeDate`: two creates without a date read the same free date, and
   the second's upsert replaces the first's challenge (`api/admin.go:56`).
2. `CheckinIsPaid`: a handler that fails between the check-in's row and its
   point leaves a day that is recorded and is never paid (`repository/checkin.go:30`).
3. `EveryMonsterDefeated`: a defeat read from the old map is recorded on the
   new one, where the completion counts it as one of its monsters (`repository/dungeon.go:590`).
4. `RemovalTakesNoStars`: a level that is started and completed between the count
   of its players and its removal takes its stars along (`repository/expedition.go:172`).

Smaller things met on the way. Those of consequence, most of which are hazards: the pieces of a failed game are
not bounded above (`api/challenges.go:308`); a receipt's older purchase is never credited; two
administrators at once leave a gap in the numbering or exceed the cap; a no-op
retreat asks for a second connection while it holds one and has the progress row locked
(`repository/dungeon.go:430-446`): as many of these as there are connections halt the pool, and so
does one of them, when the other connections are with requests of the same player that wait
for its row. `ConnectionsComeBack` shows that it takes a nested retreat or a deadlock that
PostgreSQL ends, and `ShutdownEnds` has to except it. A dungeon's deletion
and a completion take the same two locks in opposite orders; the administrator's list of levels panics
for a page that begins past its end (`api/expedition.go:494`, `PagesAgree` leaves it out);
points and XP owed by a handler
that dies after its commit are lost, because a retry finds nothing in progress
(`AwardedOnce` says precisely that they are given or lost, never both).

Elsewhere; where a comment says otherwise, it comes first:

- `repository/dungeon.go:769-771`: an update "drops any saved player progress since old
  positions are no longer valid". It drops what its DELETE sees (807): a row inserted
  between that and the commit survives, completed perhaps against the old monsters. On the
  new map the position may be off the road, and the monsters defeated are counted (585).
- `repository/hidden_secret.go:83-88`: "the picture itself is withheld until the caller has
  revealed all nine tiles". By the list; the board returns its id and URL from
  the start (156-158), as `models/hidden_secret.go:67-68` says it needs.
- `repository/stats.go:35`: an old result is judged by the seconds its challenge has now, so
  that raising them (`repository/challenges.go:105-107`, `146-154`) makes players fast who were not
  when they played, and lowering them takes back what was not given yet.
- `storage/cloudinary.go:73-81`: an upload that ends in an error or in an empty answer may have stored
  its file, which nobody removes.
- `repository/hidden_secret.go:197-199`: the `SELECT ... FOR UPDATE` of a reveal "always
  finds a row". Not when the row was there before and a replacement of the picture deletes
  it between the two statements (`RowIsGone`: the player gets an error and tries again).
- `repository/hidden_secret.go:78-81`: a completed secret stays listed when it is switched
  off. The query says `WHERE h.active`. And the list withholds the picture (83-88), where
  `models/hidden_secret.go:41-44` says that it is included.
- The gallery keeps the first picture a player uncovered of a secret (ON CONFLICT DO
  NOTHING), so one uncovered after a replacement is paid but not listed, and a reveal that
  read the secret before a replacement may enter the old picture.
- A story page's XP reward is not validated: a negative one counts as none when awarded, but
  is subtracted in the `EarnedXP` that `GetStory` shows.
- `handleChallengeQuiz` judges an answer anew by the challenge as it is now: after an edit
  of the quiz an answer is shown as correct that earned no point, or the reverse.
- `handleCheckin` asks `clientDay` twice (`api/checkin.go:135`, `144`): around midnight the
  state it answers with may be of another day than the check-in. A streak longer than the
  window of 180 days is cut to it.
- `api/stats.go`: the place on the leaderboard and the own rank differ on ties.
- `api/auth.go:176-183`: when the role cannot be written the session is for the role as it
  was, administrators included (`notDemoted`).
- `httpx/ratelimit.go:119`: the wait is "rounded up"; `Round` rounds to the nearest second.
- `httpx/middleware.go:95-122`: a request that panics is in neither the metrics of requests nor
  their log, since these follow `next.ServeHTTP`; the gauge, deferred, is right.
- `httpx/paging.go:14-16`: without a limit a list is whole. The library's ends at 300.
- `database/database.go:56-60`: migrations are expected to be idempotent. 0015 adds columns
  without IF NOT EXISTS.

## 5. Theorems

Each is about the component's `Spec`, for every value of its constants, under
the assumptions its module names, which TLC evaluates on the instances. Every invariant and
every action property that a passing run checks is the conclusion of a theorem.

`Counting`: `MapThenSumSet` is a recursive function on the subsets of a set. `AddsOnce` and
`AddsExists` show that its recursion has one solution, `SumTakesAny` that the order in which
it takes the elements does not matter; from these, what a sum becomes when a set or one value
changes (`SumAdd`, `SumCong`, `SumOfFunction`), that it counts (`SumCountsUp`) and grows
(`SumGrows`). The inductions go by a smallest set, or a least number, that breaks the claim
(`SmallestSet`, `LeastNumber`), because the library's induction theorems take an operator as
a parameter, which the provers cannot instantiate. `MaxOfBounded` and `MinOfPair` say what
`Max` and `Min` are.

`DailyChallengeProofs`: for every set of users, dates, requests and
administrators, every content and every clock; `ConstantsOK` says that dates are
naturals and contents have the types the handlers validate, `FiniteOK` that users
and dates are finitely many.

- `TypeCorrect` (`TypeOK`). `TypeOK` is inductive because it says, beside types,
  what a handler at each `pc` must hold: a loaded job, an answer of 0 or 1, a
  positive reward before `AddXP`. The proof is one case per action.
- `NoEarlyPlay` (`NothingPlayedEarly`). The property is not inductive: a handler writes on
  the strength of a clock it read earlier. `EarlyInv` adds `StartsAreDue`: the
  date of a start that has passed its check is not ahead of the clock now, which
  midnight only makes truer. Only a start creates a row, so nothing else is needed.
- `ReputationIsFinal` (`FinishedIsFinal`), an action property, from `TypeOK` and
  the `WHERE` clauses of the four statements that write results.
- `AwardsAreUnique` (`AwardedOnce`). The property counts handlers with
  `Cardinality`; `AwardInv` says the same in first-order terms (`PointInv`,
  `XPInv`, `QuizInv`: either nobody owes and it is settled one way, or exactly
  one handler owes and nothing is settled), which the provers can carry through
  a step. It also says that a handler which owes is one whose result is completed, without
  which a second completion could not be excluded. `Alone` and `NextCases`
  reduce a step to that of one handler, `ElsewhereUntouched` to the user and date
  it works on; `CountAwards` turns the invariant back into the counts.
- `ScoreFollowsResults` (`ScoreMovesWithResults`): the step-by-step form of the score's part
  of `TotalsAddUp`.
- `BalancesAddUp` (`TotalsAddUp`): score, points and XP are sums over the dates. `TotalsInv`
  states each for one user at a time (`ScoreAdds`, `PointsAdd`, ...), and a step changes at
  most one date of one user (`Untouched` says so of the others), so that `SumOfFunction` and `SumAdd` carry the
  sum through it. `CreditInv` is what it needs of the handlers: one that owes XP owes what
  its completion promised (`OwesWhatItPromised`), and what is credited was promised.

`WalletProofs`: for every set of users, requests and transactions, any catalogue with rewards
in Nat, any window and any amounts a client may name.

- `TypeCorrect` (`TypeOK`), with what a handler that credits a purchase has found: a product of
  the catalogue (`Sold`), without which what it pays would not be a number.
- `WalletKeepsItsPromise` (`ExactlyOnce`), the refinement: the initial states map, and each step
  is a step of `ExactlyOnceWallet` or a stutter. The inductive invariant is `LockInv`, which
  says what the locks are for: a key has one row or one handler that inserts it
  (`OneRowPerKey`); new balances that are not committed belong to one handler and are the
  committed ones plus what it pays, because nobody else can write that row (`BalancesHold`);
  a day is granted by one handler (`DayPaidOnce`).
- `LedgerAgrees` (`LedgerMatchesBalances`): on top of `LockInv`, balances and spendings are the
  sum over the ledger rows and the paid days (`AddsUp`).
- `NobodyFarmsCheckins` (`CheckinsAreNotFarmed`). `ClockInv`: no check-in, recorded or on its
  way, is ahead of the clock. The rest is about operators: that the cursor of
  `buildCheckinState`, a loop backward over rows, stops where the longest run of days does, or
  where the window ends; these are inductions on the length of the run.

`DungeonProofs`: for any grid, any finite or infinite set of maps whose saved ones passed the
validation (`MapsOK`), any players, requests, energy and number of versions.

- `TypeCorrect` (`TypeOK`), with `Saved`: a map that is there, or that a handler has read, passed
  `ValidateDungeonLayout`.
- `TrophiesAreKept` (`TreasureIsKept`), an action property: who writes a trophy found none.
- `AwardsComeOnce` (`AwardedOnce`): `Accounted` adds that nobody has an award for a version to
  come. Who was awarded the present version has it completed, because nothing but a
  replacement takes a completion away; the converse holds of rows written from this version
  alone, since a row that survived a replacement was awarded by the version before. `Dated`
  says that rows and handlers are of versions that there have been, from which
  `OldRowIsStale`: a row is fresh on a new map only if it was begun there.
- `EveryCellIsPaid` (`WalkIsPaid`): a move adds one to what is spent by the version it read and at
  most one to what is seen, and that version to those of the row (`SumWith`); a retreat and a
  new map add to neither.
- `NobodySkipsMonsters` (`NoMonsterSkipped`). `RoadInv` says of a row that was written from the
  present map (`Fresh`): its cells are connected, on the road and contain the start; the
  monsters defeated were met there; who completed it stood on the treasure with all defeated;
  the trophy is in the row's account. And of a handler: what it has read is the present map,
  or a newer one was saved since (`HasRead`), so that a stale write is not fresh. The code
  compares numbers of monsters; `AllDefeated` follows because the ids of a version are distinct.

`ExpeditionProofs`: for every finite set of administrators, any players, requests, tiers,
cap and initial campaign. Several administrators may go beyond the cap, each having passed its
check first, and an edit of a level that was removed meanwhile puts it back, so that no number
of levels is out of reach; the theorems hold for every bound `MaxLevels` on it. One
administrator never goes beyond the cap, and the bound cuts nothing.

- `TypeCorrect` (`TypeOK`), with any number of administrators; that one of them keeps the cap
  follows from `NumberInv`, below.
- `AwardsComeOnce` (`AwardedOnce`) and `StarsOnlyGrow` (`StarsAreKept`): a level that is won stays
  won, and levels that are appended or get an image leave the tiers of the others
  (`Extends`).
- `NobodyGetsAhead` (`NobodySkipsAhead`). `Ladder` says, as long as no administrator has moved it:
  who has cleared the gate of a level, as a row or as a handler past it (`Climbs`), has the
  stars for it, and has them still; the levels have no gap, and an edit under way is of a
  level that is there, so that it would count as one.
- `CampaignIsAsShown` (`ViewAgreesWithGate`), for one administrator: the hypothesis is
  `Admins = {a}`, as in the run, because with two the code leaves gaps and exceeds the cap
  (section 4). `NumberInv` says that what this administrator has looked at is still so; the
  rest is arithmetic on operators: the running sum of the view and the prefix sum of the gate
  ask for the same number of stars, and the page that is computed is the page that is cut.

`HiddenSecretProofs`: for every set of users, requests and pictures, and every
finite set of at least two shutters (`ConstantsOK`; there are nine).

- `TypeCorrect` (`TypeOK`), with `Boarded`: while a handler is at work, the
  secret has had a picture, to which its reward is booked.
- `GalleryIsComplete` (`WholeInGallery`). The invariant is about the tables (`GalleryKept`);
  `ListIsEarned` derives from it what the list shows. The code compares a number with nine;
  `WholeIsAll` shows that the number says what the set does, and `OneIsNotWhole` that
  the first shutter of a row never finishes a wall.
- `RevealsAreKept` (`TilesAreKept`). `LockInv`: one handler writes a row at a time
  (`OneWriter`), and the row is there, not completed, and as the handler read it (`Holds`).
  This is the argument for `SELECT ... FOR UPDATE`: without it two reveals write what
  they read before each other.
- `AwardsComeOnce` (`AwardedOnce`), on top of `LockInv`: of each reward of each picture
  none is due yet, or it is given, which means settled once or owed by exactly one
  handler; for the picture that is up, it is given exactly when the wall is completed;
  pictures still to come have none. `CountAwards` turns this into the count.

`StoryProofs`: for every set of users and requests, every number of pages and
levels, and any integers as rewards.

- `TypeCorrect` (`TypeOK`): no handler adds a reward that is not positive.
- `PagesStayInOrder` (`PagesInOrder`), by an invariant on `DoneInOrder`, from which
  `ShownFollows` derives what a reader is shown. `OrderInv` adds `SawPrevious`: when a handler is
  about to record a page, the page before is done. It read so a statement earlier, and
  `DoneGrows`: nothing is ever undone.
- `AwardsComeOnce` (`AwardedOnce`), from `RewardRead` (what a handler read is still the
  page's reward, because no handler edits it) and the same form of invariant as above.
- `NobodyIsAhead` (`NobodyReadsAhead`). `LevelFromXP` is a loop; `Climb` is the recursive
  function of its two variables. `ClimbExists` shows that it has a solution on all levels and
  remainders (each turn takes something off the remainder), `ClimbReaches` and `LevelIsEarned`
  that a level it returns was paid for in full, by the closed form of the sum of squares
  (`SquaresStep`). The invariant is that a handler past the gate has the XP for the lowest gate
  there has been, which lowering the gate and earning XP keep. What is shown as earned is a sum
  over the pages done, those unpaid taken out (`SumParts`).

`ServiceProofs`, on `RateLimiter`: for every set of addresses, rate, burst and eviction window.

- `LimiterTypeCorrect` (`LimiterTypeOK`), and `LimiterThrottles` (`Throttled`). The property
  relates any two entries of the history; `Account` carries it through a step: while a
  client has a bucket, what was spent since any request and what is left fit in a full
  bucket and the time since; once the bucket is evicted, everything spent has come back.
  Eviction keeps it because the window is at least the time a bucket takes to fill, which is
  what `NewRateLimiter` raises it for.

On `Gateway`: for every finite set of calls, any rows, size of the pool and number of queries.

- `GatewayTypeCorrect` (`GatewayTypeOK`), and `NothingLeaks` (`ConnectionsComeBack`). `Grip`
  says what a call holds at each stage: one that waits with a connection is a retreat, and one
  that waits for a row or has locked one has a connection. `OneHolder`: a row is locked by one
  call. `HaltNeedsRetreat`: in a pool at a halt without a nested retreat, whoever has a
  connection waits for a row, and so for somebody who has a connection; all of these together
  are then a deadlock that PostgreSQL sees. `PoolKept` and `Counted` are the lemmas on
  cardinalities.

On `Accounts`: for every set of addresses, passwords and logins, and every lifetime.

- `AccountsTypeCorrect` (`AccountsTypeOK`), and `RolesLapse` (`AdminsLapse`), which follows from
  `Backed`: a token of an administrator expires within its lifetime of the address last
  being on the list. It holds because the role is decided by the list of the running process, not
  by the table, and a restart forgets the logins under way.

On `Rankings`: for every finite set of players, and every length of the board.

- `RankingsTypeCorrect` (`RankingsTypeOK`), and `AwardsWereDeserved`
  (`AchievementsWereEarned`). `DueEarned` says that what a request is about to give was
  deserved when it read, and speed by the seconds at that time, which are in the history; `FirstRankLeads` and `TopLeads` that rank 1 and place 1 with a score
  mean nobody had more.

On `Library`: for every set of requests, every size of batches and limits, and any number of files.

- `LibraryTypeCorrect` (`LibraryTypeOK`), and `NothingGoesMissing` (`NothingIsMissing`). For its first
  part `ShelvesInv` adds what requests under way hold: a file that is being saved is in no row
  and in no other request, and a file of neither kind is counted (`LostFileKeeps`). For the second, `Follows` says of a reader in the middle of a list:
  of the pictures not yet seen, those in rows before the offset are no more than were taken
  away. Rows are numbered 1, 2, 3 without a gap (`RowsCount`), so a picture taken away lets one
  slip at most (`OneSlips`), one that is added only moves others back (`GrowthHidesNothing`),
  and an answer without more pages means that what is left unseen has slipped (`ReadKeeps`;
  `RowsFill` is what excludes an empty page before the end, whose total reads as 0). Without a limit the
  library's list ends at its cap, and `Uncovered` counts what lies behind it.

On the five together: `ServiceTypeCorrect` (`ServiceTypeOK`), with all of them at work in any
interleaving, where the run has one at a time.

Model-checked only: `EveryWinSettles`, `PurchaseSettles` and `ShutdownEnds`, because liveness
under fairness and ENABLED are beyond the prover; and the four violations, which are
counterexamples.

## 6. Not modelled, and why

Storage, metrics and logging are I/O, of which `Library` has the failures of storage and
`Gateway` the gauge; Swagger and the load test are not the program, though they are
a third of its lines; migrations run before any request, and the server's call of them is
commented out.

Left out on purpose in the models: which calls the limiter and authentication refuse the games
(they only remove requests); HTTP status codes and bodies; the split of
statements inside PostgreSQL beyond READ COMMITTED, and which rows the games' transactions lock in
which order (`Gateway` has them in any); deletion of
accounts (there is none); the cryptography of passwords, tokens and receipts; a limiter configured
with a rate of zero, whose buckets never refill; Retry-After; averages and percentages of the statistics; thumbnails.

## 7. Plan

Done, the most important behaviour first: `DailyChallenge`, `Wallet` and `ExactlyOnceWallet`,
`Dungeon`, `Expedition`, `HiddenSecret` and `Story`, what they show to players, and
the components around them, `RateLimiter`, `Gateway`, `Library`, `Accounts` and `Rankings`;
every component has proofs, and every safety property of a passing run is proved. What is left:

1. Proofs of what the runs do not say: in `RateLimiter`, that a request which waits long enough
   is let through; in `Wallet`, that an uncommitted row always has a handler that can go on
   (the safety half of `PurchaseSettles`); the same for a handler at any step of the other
   games, and for the calls of `Gateway`.
2. An abstract specification of a game (a level or a page is done once and pays once), which
   `Story`, `Expedition` and `HiddenSecret` implement.
3. The order of locks in PostgreSQL, for the cycle of a dungeon's deletion and completion.
