-------------------------------- MODULE Gateway --------------------------------
(***************************************************************************)
(* What every call goes through: the middleware around the mux, the pool   *)
(* of database connections under the handlers, and the server's own life,  *)
(* from the first call it takes to the end of the process.                 *)
(*                                                                         *)
(* A handler is how many times it asks the pool for a connection, and the  *)
(* rows its transactions lock.  What the limiter, CORS, RequireAuth or the *)
(* handler answers by itself is a call that returns having asked for less. *)
(***************************************************************************)
EXTENDS Integers, FiniteSets

CONSTANTS
    Calls,        \* goroutines of the HTTP server
    DBMaxConns,   \* as configured
    DefaultConns, \* what Connect falls back to: 20
    MaxAsks,      \* bound on the connections a handler asks for, one by one
    Rows          \* rows a transaction may lock: of dungeon_progress, ...

ASSUME GatewayConstants ==
    /\ IsFiniteSet(Calls)
    /\ DBMaxConns \in Int /\ DefaultConns \in Nat \ {0} /\ MaxAsks \in Nat \ {0}

VARIABLES
    phase,      \* of run: it serves, shuts down, closes the pool, is over
    stage,      \* where each call is
    route,      \* what it came for
    asks,       \* how often it may still ask for a connection
    held,       \* connections it has checked out
    locks,      \* rows its transaction has locked
    wants,      \* the row it waits for, if any
    inFlight    \* the gauge

gatewayVars == <<phase, stage, route, asks, held, locks, wants, inFlight>>
server      == <<phase, inFlight>>
rowLocks    == <<locks, wants>>

Phases == {"serving", "draining", "closing", "exited"}
Stages == {"out", "handling", "waiting", "using"}
Routes == {"query", "retreat", "probe"}

-----------------------------------------------------------------------------
(* The pool (pgxpool) *)

MaxConns == IF DBMaxConns <= 0 THEN DefaultConns ELSE DBMaxConns

CheckedOut == {p \in Calls \X {1, 2} : p[2] <= held[p[1]]}

Acquired == Cardinality(CheckedOut)

\* Who gets as far as a connection of a closed pool is refused it; Close wakes
\* nobody.
Closed == phase = "closing"

(* The rows (PostgreSQL) *)

Awaits(c, d) == c # d /\ wants[c] \cap locks[d] # {}

\* Each of these calls waits for a row that another of them has.
Deadlocks == {S \in (SUBSET Calls) \ {{}} : \A c \in S : \E d \in S : Awaits(c, d)}

\* Every connection is with a call that waits: for a row that another has, or,
\* having one connection, for another.
Waits(c) == stage[c] = "waiting" \/ \E d \in Calls : Awaits(c, d)
Stuck == Acquired = MaxConns /\ \A c \in Calls : held[c] > 0 => Waits(c)

\* Of which PostgreSQL, which sees the rows and not the pool, knows nothing.
Halted == Stuck /\ Deadlocks = {}

-----------------------------------------------------------------------------
GatewayInit ==
    /\ phase = "serving"
    /\ stage = [c \in Calls |-> "out"]
    /\ route = [c \in Calls |-> "query"]
    /\ asks = [c \in Calls |-> 0]
    /\ held = [c \in Calls |-> 0]
    /\ locks = [c \in Calls |-> {}] /\ wants = [c \in Calls |-> {}]
    /\ inFlight = 0

To(c, where) == stage' = [stage EXCEPT ![c] = where]

\* A probe pings the database, a retreat ends with reading the energy.
MostAsks(r) ==
    CASE r = "probe" -> 1 [] r = "retreat" -> MaxAsks + 1 [] r = "query" -> MaxAsks

\* Telemetry has counted the call in, which may return having asked for less.
Arrive(c, r) ==
    /\ phase = "serving" /\ stage[c] = "out"
    /\ To(c, "handling")
    /\ route' = [route EXCEPT ![c] = r]
    /\ asks' = [asks EXCEPT ![c] = MostAsks(r)]
    /\ inFlight' = inFlight + 1
    /\ UNCHANGED <<phase, held, rowLocks>>

Ask(c) ==
    /\ stage[c] = "handling" /\ asks[c] > 0
    /\ To(c, "waiting")
    /\ asks' = [asks EXCEPT ![c] = @ - 1]
    /\ UNCHANGED <<server, route, held, rowLocks>>

MayAskAgain(c) == route[c] # "probe"                            \* a slip

\* RetreatDungeon with nothing to retreat to reads the energy through the pool
\* while its transaction is open, and has the player's progress locked if there
\* is any.
NestsIn(c) == asks[c] > 0 /\ route[c] = "retreat"

AskAgain(c) ==
    /\ stage[c] = "using" /\ held[c] = 1 /\ wants[c] = {} /\ NestsIn(c)
    /\ To(c, "waiting")
    /\ asks' = [asks EXCEPT ![c] = 0]
    /\ UNCHANGED <<server, route, held, rowLocks>>

Acquire(c) ==
    /\ stage[c] = "waiting" /\ Acquired < MaxConns /\ ~Closed
    /\ To(c, "using")
    /\ held' = [held EXCEPT ![c] = @ + 1]
    /\ UNCHANGED <<server, route, asks, rowLocks>>

\* SELECT ... FOR UPDATE, or a write: the moves, defeats, completions and
\* retreats of a player ask for the same row.  A retreat locks no more.
LockRow(c, x) ==
    /\ stage[c] = "using" /\ held[c] = 1 /\ wants[c] = {} /\ x \notin locks[c]
    /\ route[c] # "probe"
    /\ route[c] = "retreat" => locks[c] = {} /\ asks[c] > 0
    /\ wants' = [wants EXCEPT ![c] = {x}]
    /\ UNCHANGED <<server, stage, route, asks, held, locks>>

Granted(c) ==
    /\ wants[c] # {} /\ \A d \in Calls : ~Awaits(c, d)
    /\ locks' = [locks EXCEPT ![c] = @ \cup wants[c]]
    /\ wants' = [wants EXCEPT ![c] = {}]
    /\ UNCHANGED <<server, stage, route, asks, held>>

LetsGo(c) ==
    /\ locks' = [locks EXCEPT ![c] = {}]
    /\ wants' = [wants EXCEPT ![c] = {}]

\* What a statement or a transaction had, the inner of two first; with the
\* transaction go its locks.
Release(c) ==
    /\ stage[c] = "using" /\ wants[c] = {}
    /\ To(c, IF held[c] = 1 THEN "handling" ELSE "using")
    /\ held' = [held EXCEPT ![c] = @ - 1]
    /\ IF held[c] = 1 THEN LetsGo(c) ELSE UNCHANGED rowLocks
    /\ UNCHANGED <<server, route, asks>>

\* A context that ends, a pool that is closed or a deadlock that PostgreSQL has
\* found fails the query: the handler has its deferred rollback run, and answers
\* 500 or 503.
Fail(c) ==
    /\ To(c, "handling")
    /\ asks' = [asks EXCEPT ![c] = 0]
    /\ held' = [held EXCEPT ![c] = 0]
    /\ LetsGo(c)
    /\ UNCHANGED <<server, route>>

Busy(c) == stage[c] \in {"waiting", "using"}

ClientGone(c) == Busy(c) /\ Fail(c)

NoTimeout(c) == FALSE                                            \* a slip

\* The two seconds of handleReadyz.
OnTimer(c) == route[c] = "probe"

ProbeTimesOut(c) == Busy(c) /\ OnTimer(c) /\ Fail(c)

Rejected(c) ==
    /\ stage[c] = "waiting" /\ Closed /\ Acquired < MaxConns
    /\ Fail(c)

\* After deadlock_timeout, one of those that wait for each other.
DeadlockFound(c) ==
    /\ wants[c] # {}
    /\ \E S \in Deadlocks : c \in S /\ \A d \in S : \E e \in S : Awaits(e, d)
    /\ Fail(c)

Leave(c) ==
    /\ To(c, "out")
    /\ route' = [route EXCEPT ![c] = "query"]
    /\ asks' = [asks EXCEPT ![c] = 0]

Return(c) ==
    /\ stage[c] = "handling"
    /\ Leave(c)
    /\ inFlight' = inFlight - 1
    /\ UNCHANGED <<phase, held, rowLocks>>

Deferred == inFlight' = inFlight - 1

\* What is deferred runs on the way up to Recover, the gauge's Dec included;
\* what follows next.ServeHTTP in Telemetry does not.
Panic(c) ==
    /\ stage[c] \in {"handling", "using"} /\ wants[c] = {}
    /\ Leave(c)
    /\ held' = [held EXCEPT ![c] = 0]
    /\ LetsGo(c)
    /\ Deferred
    /\ UNCHANGED phase

-----------------------------------------------------------------------------
(* run *)

Become(p) == phase' = p /\ UNCHANGED <<stage, route, asks, held, rowLocks, inFlight>>

Signal == phase = "serving" /\ Become("draining")

\* ListenAndServe failed: run returns, its calls go on for as long as
\* pool.Close, which it deferred, has connections to wait for.
ListenError == phase = "serving" /\ Become("closing")

\* Shutdown, which takes no new calls, returns when there is none left ...
Drained == phase = "draining" /\ (\A c \in Calls : stage[c] = "out") /\ Become("closing")

\* ... or after ten seconds.
DrainTimeout == phase = "draining" /\ Become("closing")

Exit == phase = "closing" /\ Acquired = 0 /\ Become("exited")

-----------------------------------------------------------------------------
Living == phase # "exited"

GatewayNext ==
    /\ Living
    /\ \/ \E c \in Calls :
              \/ \E r \in Routes : Arrive(c, r)
              \/ Ask(c) \/ AskAgain(c) \/ Acquire(c) \/ Release(c)
              \/ \E x \in Rows : LockRow(c, x)
              \/ Granted(c) \/ DeadlockFound(c)
              \/ ClientGone(c) \/ ProbeTimesOut(c) \/ Rejected(c)
              \/ Return(c) \/ Panic(c)
       \/ Signal \/ ListenError \/ Drained \/ DrainTimeout \/ Exit

\* Handlers that wait for nothing and timers go on by themselves; the semaphore
\* of the pool and the queue of a row are first come, first served; PostgreSQL
\* ends deadlocks.  Nothing makes a client hang up or a signal come.
GatewayFairness ==
    /\ \A c \in Calls :
           /\ WF_gatewayVars(Living /\ (Release(c) \/ Rejected(c) \/ ProbeTimesOut(c) \/ Return(c)))
           /\ SF_gatewayVars(Living /\ (Acquire(c) \/ Granted(c)))
    /\ WF_gatewayVars(Living /\ \E c \in Calls : DeadlockFound(c))
    /\ WF_gatewayVars(Living /\ (Drained \/ DrainTimeout \/ Exit))

GatewaySpec == GatewayInit /\ [][GatewayNext]_gatewayVars

GatewayLive == GatewaySpec /\ GatewayFairness

-----------------------------------------------------------------------------
(* Properties *)

\* The server, its calls and its gauge hold values of their types.
GatewayTypeOK ==
    /\ phase \in Phases
    /\ stage \in [Calls -> Stages]
    /\ route \in [Calls -> Routes]
    /\ asks \in [Calls -> 0 .. MaxAsks + 1]
    /\ held \in [Calls -> 0 .. 2]
    /\ locks \in [Calls -> SUBSET Rows] /\ wants \in [Calls -> SUBSET Rows]
    /\ inFlight \in Nat

\* A retreat that has a connection and asks for its second.
Nested(c) == route[c] = "retreat" /\ stage[c] = "waiting" /\ held[c] = 1

\* The gauge is the calls inside, however they end; no call leaves with a
\* connection or a lock; a row is locked by one; and where every connection is
\* with a call that waits, one of these is a retreat that asks for its second
\* (it takes one, if the others wait for its row), or PostgreSQL sees a deadlock.
ConnectionsComeBack ==
    /\ inFlight = Cardinality({c \in Calls : stage[c] # "out"})
    /\ Acquired <= MaxConns
    /\ \A c \in Calls :
           /\ stage[c] \in {"out", "handling"} => held[c] = 0
           /\ held[c] = 0 => locks[c] = {} /\ wants[c] = {}
           /\ \A d \in Calls : c # d => locks[c] \cap locks[d] = {}
    /\ Stuck => Deadlocks # {} \/ \E c \in Calls : Nested(c)

\* A probe gets its answer even from a pool that has come to a halt, and a
\* shutdown ends the process unless it has: whatever the handlers wait for.
ShutdownEnds ==
    /\ \A c \in Calls : route[c] = "probe" ~> route[c] # "probe" \/ ~Living
    /\ phase \in {"draining", "closing"} ~> ~Living \/ Halted
=============================================================================
