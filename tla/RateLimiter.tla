------------------------------ MODULE RateLimiter ------------------------------
(***************************************************************************)
(* One token-bucket limiter (the global one, login's, registration's): a   *)
(* bucket per client, taken from under a mutex, and a janitor that evicts  *)
(* the buckets nobody has used for a while.                                *)
(*                                                                         *)
(* Time is counted in ticks; a bucket gains one unit a tick and a request  *)
(* costs Cost units, so that one token a Cost ticks is the rate.           *)
(***************************************************************************)
EXTENDS Integers, Sequences, SequencesExt

CONSTANTS
    Clients,     \* addresses, of clients and of proxies
    TrustProxy,
    Cost,        \* ticks in which one token comes back: 1 / ratePerSec
    Burst,       \* tokens of a full bucket, as configured
    IdleTTL,     \* eviction window: 10 minutes
    Horizon,     \* bound on the clock
    NoClient, NoBucket

ASSUME LimiterConstants ==
    /\ TrustProxy \in BOOLEAN
    /\ Cost \in Nat \ {0} /\ Burst \in Nat /\ IdleTTL \in Nat /\ Horizon \in Nat
    /\ NoClient \notin Clients
    /\ NoBucket \notin [tokens : Nat, lastSeen : Nat]

VARIABLES
    clock,
    visitors,    \* the buckets, by client
    admitted     \* history: when each client's requests were let through

limiterVars == <<clock, visitors, admitted>>

BurstAsGiven == Burst * Cost                                     \* a slip

\* NewRateLimiter raises a burst below one.
Capacity == (IF Burst < 1 THEN 1 ELSE Burst) * Cost

IdleTTLAsGiven == IdleTTL                                        \* a slip

\* "Never evict a client before its bucket would have refilled completely".
TTL == IF Capacity > IdleTTL THEN Capacity ELSE IdleTTL

\* What a request says of where it comes from.
Origin == [forwarded : UNION {[1 .. n -> Clients] : n \in 0 .. 2},
           realIP    : Clients \cup {NoClient},
           remote    : Clients]

clientIP(o) ==
    IF ~TrustProxy THEN o.remote
    ELSE IF o.forwarded # <<>> THEN o.forwarded[1]
    ELSE IF o.realIP # NoClient THEN o.realIP
    ELSE o.remote

LimiterInit ==
    /\ clock = 0
    /\ visitors = [c \in Clients |-> NoBucket]
    /\ admitted = [c \in Clients |-> <<>>]

Tick ==
    /\ clock < Horizon
    /\ clock' = clock + 1
    /\ UNCHANGED <<visitors, admitted>>

Refilled(b) ==
    LET tokens == b.tokens + (clock - b.lastSeen)
    IN  IF tokens > Capacity THEN Capacity ELSE tokens

SetBucket(c, tokens) ==
    visitors' = [visitors EXCEPT ![c] = [tokens |-> tokens, lastSeen |-> clock]]

LetThrough(c) == admitted' = [admitted EXCEPT ![c] = Append(@, clock)]

\* allow, for a client not seen before, or not for a long time ...
FirstVisit(c) ==
    /\ visitors[c] = NoBucket
    /\ SetBucket(c, Capacity - Cost)
    /\ LetThrough(c)
    /\ UNCHANGED clock

\* ... for one whose bucket still has a token ...
Visit(c) ==
    /\ visitors[c] # NoBucket
    /\ Refilled(visitors[c]) >= Cost
    /\ SetBucket(c, Refilled(visitors[c]) - Cost)
    /\ LetThrough(c)
    /\ UNCHANGED clock

\* ... and for one who has none: 429, and what has come back since is kept.
TurnAway(c) ==
    /\ visitors[c] # NoBucket
    /\ Refilled(visitors[c]) < Cost
    /\ SetBucket(c, Refilled(visitors[c]))
    /\ UNCHANGED <<clock, admitted>>

\* One round of cleanupLoop, whose ticker may go off at any time.
Idle(b) == clock - b.lastSeen > TTL

Cleanup ==
    /\ visitors' = [c \in Clients |->
                       IF visitors[c] # NoBucket /\ Idle(visitors[c]) THEN NoBucket
                       ELSE visitors[c]]
    /\ UNCHANGED <<clock, admitted>>

\* A request goes through Middleware.
Middleware(o) ==
    LET c == clientIP(o) IN FirstVisit(c) \/ Visit(c) \/ TurnAway(c)

LimiterNext ==
    \/ Tick \/ Cleanup
    \/ \E o \in Origin : Middleware(o)

LimiterSpec == LimiterInit /\ [][LimiterNext]_limiterVars

-----------------------------------------------------------------------------
(* Properties *)

\* The clock, the buckets and the history hold values of their types.
LimiterTypeOK ==
    /\ clock \in 0 .. Horizon
    /\ visitors \in [Clients ->
           [tokens : 0 .. Capacity, lastSeen : 0 .. Horizon] \cup {NoBucket}]
    /\ admitted \in [Clients -> Seq(0 .. Horizon)]

\* Between any two of a client's requests that allow lets through, no more
\* have been than a full bucket and what came back meanwhile: not for idling,
\* not for asking again while empty, and not because the janitor forgot it.
Throttled ==
    \A c \in Clients : \A j \in DOMAIN admitted[c] : \A i \in 1 .. j :
        (j - i + 1) * Cost <= Capacity + (admitted[c][j] - admitted[c][i])
=============================================================================
