----------------------------- MODULE ServiceProofs -----------------------------
(***************************************************************************)
(* The parts around the games, each for itself: the rate limiter, the      *)
(* gateway with its connection pool, accounts, rankings, and the pictures. *)
(* They share no state; the last theorem has them side by side.            *)
(***************************************************************************)
EXTENDS MCService, FiniteSetTheorems, SequenceTheorems, TLAPS

-----------------------------------------------------------------------------
(* The rate limiter: it lets through what its bucket holds and what comes back,
   for any rate, burst and eviction window, any clients and any clock. *)

\* What the requests from the i-th to the n-th cost together.  Kept closed, so
\* that nothing but the next two facts is known of the product.
Spent(n, i) == (n - i + 1) * Cost

LEMMA SpentMore ==
    ASSUME NEW n \in Int, NEW i \in Int
    PROVE  /\ Spent(n, i) \in Int
           /\ Spent(n + 1, i) = Spent(n, i) + Cost
           /\ Spent(n, n) = Cost
<1>1. Cost \in Int
  BY LimiterConstants
<1>2. /\ (n - i + 1) \in Int /\ (n + 1 - i + 1) = (n - i + 1) + 1
      /\ n - n + 1 = 1
  OBVIOUS
<1>3. \A k \in Int : k * Cost \in Int /\ (k + 1) * Cost = k * Cost + Cost /\ 1 * Cost = Cost
  BY <1>1
<1> QED
  BY <1>2, <1>3 DEF Spent

\* A bucket holds one request at least, and the janitor waits until it is full.
LEMMA LimiterSizes ==
    /\ Cost \in Nat \ {0} /\ Horizon \in Nat
    /\ Capacity \in Nat /\ Cost <= Capacity
    /\ TTL \in Nat /\ Capacity <= TTL
<1>1. Cost \in Nat \ {0} /\ Burst \in Nat /\ Horizon \in Nat /\ IdleTTL \in Nat
  BY LimiterConstants
<1>2. ASSUME NEW k \in Nat, k >= 1 PROVE k * Cost \in Nat /\ Cost <= k * Cost
  <2>1. PICK m \in Nat : k = m + 1
    BY <1>2, k - 1 \in Nat
  <2>2. m * Cost \in Nat /\ (m + 1) * Cost = m * Cost + Cost
    BY <1>1
  <2> QED
    BY <1>1, <2>1, <2>2
<1>3. Capacity \in Nat /\ Cost <= Capacity
  <2>1. CASE Burst < 1
    BY <1>1, <2>1, <1>2, 1 \in Nat, 1 >= 1 DEF Capacity
  <2>2. CASE ~(Burst < 1)
    BY <1>1, <2>2, <1>2, Burst >= 1 DEF Capacity
  <2> QED
    BY <2>1, <2>2
<1> QED
  BY <1>1, <1>3 DEF TTL

LEMMA ClientIPIsClient == ASSUME NEW o \in Origin PROVE clientIP(o) \in Clients
<1>1. o.realIP \in Clients \cup {NoClient} /\ o.remote \in Clients
  BY DEF Origin
<1>2. PICK n \in 0 .. 2 : o.forwarded \in [1 .. n -> Clients]
  BY DEF Origin
<1>3. CASE n = 0
  <2>1. o.forwarded = <<>>
    BY <1>2, <1>3
  <2> QED
    BY <1>1, <2>1 DEF clientIP
<1>4. CASE n # 0
  <2>1. 1 \in 1 .. n
    BY <1>4
  <2> QED
    BY <1>1, <1>2, <2>1 DEF clientIP
<1> QED
  BY <1>3, <1>4

-----------------------------------------------------------------------------
(* The invariant *)

\* What a client's past and its bucket make together: while there is a bucket,
\* what was spent and is left fits in a full one and the time since; once it
\* is evicted, what was spent has come back altogether.
Dealings(c) ==
    LET log == admitted[c]
        b   == visitors[c]
    IN  IF b = NoBucket
        THEN \A i \in 1 .. Len(log) : Spent(Len(log), i) <= clock - log[i]
        ELSE /\ b.lastSeen <= clock
             /\ \A i \in 1 .. Len(log) :
                    Spent(Len(log), i) + b.tokens <= Capacity + (b.lastSeen - log[i])

Paced(c) ==
    \A j \in 1 .. Len(admitted[c]) : \A i \in 1 .. j :
        Spent(j, i) <= Capacity + (admitted[c][j] - admitted[c][i])

LimiterInv ==
    /\ LimiterTypeOK
    /\ \A c \in Clients : Dealings(c) /\ Paced(c)

LEMMA LimiterInitHolds == LimiterInit => LimiterInv
<1> SUFFICES ASSUME LimiterInit PROVE LimiterInv
  OBVIOUS
<1>1. LimiterTypeOK
  BY LimiterSizes DEF LimiterInit, LimiterTypeOK
<1>2. ASSUME NEW c \in Clients PROVE Dealings(c) /\ Paced(c)
  <2>1. admitted[c] = <<>> /\ visitors[c] = NoBucket /\ Len(<<>>) = 0
    BY DEF LimiterInit
  <2> QED
    BY <2>1 DEF Dealings, Paced
<1> QED
  BY <1>1, <1>2 DEF LimiterInv

\* What is known of one client.
LEMMA OneClient ==
    ASSUME LimiterTypeOK, NEW c \in Clients
    PROVE  /\ clock \in Nat /\ clock <= Horizon
           /\ admitted[c] \in Seq(0 .. Horizon) /\ Len(admitted[c]) \in Nat
           /\ \A i \in 1 .. Len(admitted[c]) : admitted[c][i] \in Nat
           /\ visitors[c] # NoBucket =>
                  /\ visitors[c] \in [tokens : 0 .. Capacity, lastSeen : 0 .. Horizon]
                  /\ visitors[c].tokens \in Nat /\ visitors[c].tokens <= Capacity
                  /\ visitors[c].lastSeen \in Nat
                  /\ Refilled(visitors[c]) \in Int /\ Refilled(visitors[c]) <= Capacity
                  /\ Refilled(visitors[c]) <=
                         visitors[c].tokens + (clock - visitors[c].lastSeen)
                  /\ visitors[c].lastSeen <= clock => Refilled(visitors[c]) \in Nat
<1>1. clock \in Nat /\ clock <= Horizon /\ admitted[c] \in Seq(0 .. Horizon)
  BY LimiterSizes DEF LimiterTypeOK
<1>2. Len(admitted[c]) \in Nat /\ \A i \in 1 .. Len(admitted[c]) : admitted[c][i] \in Nat
  BY <1>1, LimiterSizes
<1>3. ASSUME visitors[c] # NoBucket
      PROVE  /\ visitors[c] \in [tokens : 0 .. Capacity, lastSeen : 0 .. Horizon]
             /\ visitors[c].tokens \in Nat /\ visitors[c].tokens <= Capacity
             /\ visitors[c].lastSeen \in Nat
  BY <1>3, LimiterSizes DEF LimiterTypeOK
<1> QED
  BY <1>1, <1>2, <1>3, LimiterSizes, SMTT(30) DEF Refilled

-----------------------------------------------------------------------------
(* The steps *)

\* What a step does not do to a client leaves it as it was.
LEMMA OthersKept ==
    ASSUME LimiterInv, NEW c \in Clients, clock' = clock,
           visitors'[c] = visitors[c], admitted'[c] = admitted[c]
    PROVE  Dealings(c)' /\ Paced(c)'
<1> QED
  BY DEF LimiterInv, Dealings, Paced

\* A request that is let through: what it costs, its bucket had to spare.
LEMMA LettingThrough ==
    ASSUME LimiterInv, NEW c \in Clients, NEW before \in Int,
           before <= Capacity, Cost <= before,
           \A i \in 1 .. Len(admitted[c]) :
               Spent(Len(admitted[c]), i) + before <= Capacity + (clock - admitted[c][i]),
           SetBucket(c, before - Cost), LetThrough(c), UNCHANGED clock
    PROVE  LimiterInv'
<1> DEFINE log == admitted[c]
<1>0. LimiterTypeOK /\ NoBucket \notin [tokens : Nat, lastSeen : Nat]
  BY LimiterConstants DEF LimiterInv
<1>n. PICK n \in Nat : n = Len(log)
  BY <1>0, OneClient
<1>1. /\ clock \in 0 .. Horizon /\ log \in Seq(0 .. Horizon) /\ n = Len(log)
      /\ \A i \in 1 .. n : log[i] \in Nat
      /\ Cost \in Nat \ {0} /\ Capacity \in Nat
  BY <1>0, <1>n, OneClient, LimiterSizes DEF LimiterTypeOK
<1>2. /\ admitted' = [admitted EXCEPT ![c] = Append(log, clock)]
      /\ visitors' = [visitors EXCEPT ![c] =
             [tokens |-> before - Cost, lastSeen |-> clock]]
      /\ clock' = clock
  BY DEF SetBucket, LetThrough
<1>3. /\ admitted'[c] = Append(log, clock) /\ Len(admitted'[c]) = n + 1
      /\ \A i \in 1 .. n : admitted'[c][i] = log[i]
      /\ admitted'[c][n + 1] = clock
      /\ admitted'[c] \in Seq(0 .. Horizon)
  BY <1>0, <1>1, <1>2 DEF LimiterTypeOK
<1>4. /\ visitors'[c] = [tokens |-> before - Cost, lastSeen |-> clock]
      /\ before - Cost \in 0 .. Capacity
      /\ visitors'[c] \in [tokens : 0 .. Capacity, lastSeen : 0 .. Horizon]
      /\ visitors'[c] # NoBucket
  <2>1. before - Cost \in 0 .. Capacity
    BY <1>1
  <2>2. visitors'[c] = [tokens |-> before - Cost, lastSeen |-> clock]
    BY <1>0, <1>2 DEF LimiterTypeOK
  <2>3. visitors'[c] \in [tokens : Nat, lastSeen : Nat]
    BY <1>1, <2>1, <2>2
  <2> QED
    BY <1>0, <1>1, <2>1, <2>2, <2>3
<1>5. LimiterTypeOK'
  <2>1. \A d \in Clients : d # c => visitors'[d] = visitors[d] /\ admitted'[d] = admitted[d]
    BY <1>0, <1>2 DEF LimiterTypeOK
  <2>2. DOMAIN visitors' = Clients /\ DOMAIN admitted' = Clients
    BY <1>0, <1>2 DEF LimiterTypeOK
  <2> QED
    BY <1>0, <1>2, <1>3, <1>4, <2>1, <2>2, Capacity' = Capacity
    DEF LimiterTypeOK, Capacity
<1>6. \A i \in 1 .. n + 1 :
          Spent(n + 1, i) + (before - Cost) <= Capacity + (clock - admitted'[c][i])
  <2> SUFFICES ASSUME NEW i \in 1 .. n + 1
               PROVE  Spent(n + 1, i) + (before - Cost) <= Capacity + (clock - admitted'[c][i])
    OBVIOUS
  <2>1. CASE i \in 1 .. n
    <3>1. Spent(n, i) \in Int /\ Spent(n + 1, i) = Spent(n, i) + Cost
      BY <2>1, i \in Int, n \in Int, SpentMore
    <3>2. Spent(n, i) + before <= Capacity + (clock - log[i])
      BY <1>1, <2>1
    <3> QED
      BY <1>1, <1>3, <2>1, <3>1, <3>2
  <2>2. CASE i = n + 1
    <3>1. Spent(n + 1, n + 1) = Cost
      BY <1>1, n + 1 \in Int, SpentMore
    <3> QED
      BY <1>1, <1>3, <2>2, <3>1
  <2> QED
    BY <1>1, <2>1, <2>2, SMTT(30)
<1>7. Dealings(c)'
  BY <1>1, <1>2, <1>3, <1>4, <1>6, Capacity' = Capacity DEF Dealings
<1>8. Paced(c)'
  <2> SUFFICES ASSUME NEW j \in 1 .. n + 1, NEW i \in 1 .. j
               PROVE  Spent(j, i) <= Capacity + (admitted'[c][j] - admitted'[c][i])
    BY <1>3 DEF Paced, Spent, Capacity
  <2>0. j \in 1 .. n \/ j = n + 1
    BY <1>n
  <2>1. CASE j \in 1 .. n
    <3>1. Spent(j, i) <= Capacity + (log[j] - log[i])
      BY <1>1, <2>1 DEF LimiterInv, Paced
    <3>2. i \in 1 .. n
      BY <1>1, <2>1
    <3> QED
      BY <1>3, <2>1, <3>1, <3>2
  <2>2. CASE j = n + 1
    <3>1. i \in 1 .. n + 1
      BY <2>2
    <3>2. Spent(n + 1, i) \in Int
      BY <3>1, i \in Int, n + 1 \in Int, SpentMore
    <3>3. admitted'[c][i] \in Int
      BY <1>1, <1>3, <3>1
    <3>4. Spent(n + 1, i) + (before - Cost) <= Capacity + (clock - admitted'[c][i])
      BY <1>6, <3>1
    <3>5. \A s, x \in Int : s + (before - Cost) <= Capacity + (clock - x)
                               => s <= Capacity + (clock - x)
      BY <1>1
    <3>6. Spent(n + 1, i) <= Capacity + (clock - admitted'[c][i])
      BY <3>2, <3>3, <3>4, <3>5
    <3> QED
      BY <1>3, <2>2, <3>6
  <2> QED
    BY <2>0, <2>1, <2>2
<1>9. \A d \in Clients : d # c => Dealings(d)' /\ Paced(d)'
  <2> SUFFICES ASSUME NEW d \in Clients, d # c PROVE Dealings(d)' /\ Paced(d)'
    OBVIOUS
  <2>1. visitors'[d] = visitors[d] /\ admitted'[d] = admitted[d]
    BY <1>0, <1>2 DEF LimiterTypeOK
  <2> QED
    BY <1>2, <2>1, OthersKept
<1> QED
  BY <1>5, <1>7, <1>8, <1>9 DEF LimiterInv

LEMMA TickKeeps == LimiterInv /\ Tick => LimiterInv'
<1> SUFFICES ASSUME LimiterInv, Tick PROVE LimiterInv'
  OBVIOUS
<1>0. LimiterTypeOK
  BY DEF LimiterInv
<1>1. LimiterTypeOK'
  BY <1>0, LimiterSizes DEF LimiterTypeOK, Tick, Capacity
<1>2. ASSUME NEW c \in Clients PROVE Dealings(c)' /\ Paced(c)'
  <2>1. /\ visitors' = visitors /\ admitted' = admitted /\ clock' = clock + 1
        /\ clock \in Nat /\ Len(admitted[c]) \in Nat
        /\ Capacity' = Capacity
    BY <1>0, OneClient DEF Tick
  <2>2. Dealings(c) /\ Paced(c)
    BY DEF LimiterInv
  <2>3. \A i \in 1 .. Len(admitted[c]) :
            admitted[c][i] \in Nat /\ Spent(Len(admitted[c]), i) \in Int
    <3> SUFFICES ASSUME NEW i \in 1 .. Len(admitted[c])
                 PROVE  admitted[c][i] \in Nat /\ Spent(Len(admitted[c]), i) \in Int
      OBVIOUS
    <3>1. i \in Int /\ Len(admitted[c]) \in Int
      BY <2>1
    <3> QED
      BY <1>0, <3>1, OneClient, SpentMore
  <2>4. visitors[c] # NoBucket => visitors[c].lastSeen \in Nat
    BY <1>0, OneClient
  <2>5. Dealings(c)'
    BY <2>1, <2>2, <2>3, <2>4 DEF Dealings
  <2>6. Paced(c)'
    BY <2>1, <2>2 DEF Paced
  <2> QED
    BY <2>5, <2>6
<1> QED
  BY <1>1, <1>2 DEF LimiterInv

\* By the time a bucket is forgotten, all that was spent has come back.
LEMMA CleanupKeeps == LimiterInv /\ Cleanup => LimiterInv'
<1> SUFFICES ASSUME LimiterInv, Cleanup PROVE LimiterInv'
  OBVIOUS
<1>0. LimiterTypeOK
  BY DEF LimiterInv
<1>1. LimiterTypeOK'
  BY <1>0 DEF LimiterTypeOK, Cleanup, Capacity
<1>2. ASSUME NEW c \in Clients PROVE Dealings(c)' /\ Paced(c)'
  <2>1. /\ clock' = clock /\ admitted' = admitted
        /\ visitors'[c] = IF visitors[c] # NoBucket /\ Idle(visitors[c]) THEN NoBucket
                          ELSE visitors[c]
    BY DEF Cleanup
  <2>2. Dealings(c) /\ Paced(c)
    BY DEF LimiterInv
  <2>3. CASE ~(visitors[c] # NoBucket /\ Idle(visitors[c]))
    BY <2>1, <2>3, OthersKept
  <2>4. CASE visitors[c] # NoBucket /\ Idle(visitors[c])
    <3> DEFINE log == admitted[c]
               b   == visitors[c]
    <3>1. /\ clock \in Nat /\ b.tokens \in Nat /\ b.lastSeen \in Nat
          /\ Len(log) \in Nat /\ Capacity \in Nat
      BY <1>0, <2>4, OneClient, LimiterSizes
    <3>2. clock - b.lastSeen > Capacity
      BY <2>4, <3>1, LimiterSizes DEF Idle
    <3>3. \A i \in 1 .. Len(log) : Spent(Len(log), i) <= clock - log[i]
      <4> SUFFICES ASSUME NEW i \in 1 .. Len(log)
                   PROVE  Spent(Len(log), i) <= clock - log[i]
        OBVIOUS
      <4>1. Spent(Len(log), i) + b.tokens <= Capacity + (b.lastSeen - log[i])
        BY <2>2, <2>4 DEF Dealings
      <4>2. log[i] \in Nat
        BY <1>0, OneClient
      <4>3. Spent(Len(log), i) \in Int
        BY <3>1, i \in Int, Len(log) \in Int, SpentMore
      <4> HIDE DEF b, log
      <4> QED
        BY <3>1, <3>2, <4>1, <4>2, <4>3, SMTT(30)
    <3>4. visitors'[c] = NoBucket
      BY <2>1, <2>4
    <3>5. Dealings(c)'
      BY <2>1, <3>3, <3>4 DEF Dealings
    <3>6. Paced(c)'
      BY <2>1, <2>2, Capacity' = Capacity DEF Paced
    <3> QED
      BY <3>5, <3>6
  <2> QED
    BY <2>3, <2>4
<1> QED
  BY <1>1, <1>2 DEF LimiterInv

\* A client the limiter does not know has had time to refill.
LEMMA FirstVisitKeeps ==
    ASSUME LimiterInv, NEW c \in Clients, FirstVisit(c) PROVE LimiterInv'
<1>1. /\ visitors[c] = NoBucket /\ SetBucket(c, Capacity - Cost)
      /\ LetThrough(c) /\ UNCHANGED clock
  BY DEF FirstVisit
<1>2. LimiterTypeOK /\ Dealings(c)
  BY DEF LimiterInv
<1>3. Capacity \in Int /\ Cost <= Capacity /\ Capacity <= Capacity
  BY LimiterSizes
<1>4. \A i \in 1 .. Len(admitted[c]) :
          Spent(Len(admitted[c]), i) + Capacity <= Capacity + (clock - admitted[c][i])
  <2> SUFFICES ASSUME NEW i \in 1 .. Len(admitted[c])
               PROVE  Spent(Len(admitted[c]), i) + Capacity
                          <= Capacity + (clock - admitted[c][i])
    OBVIOUS
  <2>1. Spent(Len(admitted[c]), i) <= clock - admitted[c][i]
    BY <1>1, <1>2 DEF Dealings
  <2>2. /\ Len(admitted[c]) \in Int /\ i \in Int
        /\ clock \in Int /\ admitted[c][i] \in Int
    BY <1>2, OneClient
  <2>3. Spent(Len(admitted[c]), i) \in Int
    BY <2>2, SpentMore
  <2> QED
    BY <1>3, <2>1, <2>2, <2>3
<1> QED
  BY <1>1, <1>3, <1>4, LettingThrough

LEMMA PaidFor ==
    ASSUME NEW spent \in Int, NEW kept \in Int, NEW refilled \in Int, NEW full \in Int,
           NEW at \in Int, NEW seen \in Int, NEW now \in Int,
           spent + kept <= full + (seen - at), refilled <= kept + (now - seen)
    PROVE  spent + refilled <= full + (now - at)
<1> QED
  OBVIOUS

\* What a bucket has gained since it was last seen, time has paid for.
LEMMA Gained ==
    ASSUME LimiterInv, NEW c \in Clients, visitors[c] # NoBucket
    PROVE  /\ Refilled(visitors[c]) \in Nat /\ Refilled(visitors[c]) <= Capacity
           /\ \A i \in 1 .. Len(admitted[c]) :
                  Spent(Len(admitted[c]), i) + Refilled(visitors[c])
                      <= Capacity + (clock - admitted[c][i])
<1> DEFINE b == visitors[c]
           log == admitted[c]
<1>1. LimiterTypeOK /\ Dealings(c)
  BY DEF LimiterInv
<1>2. /\ clock \in Nat /\ b.lastSeen \in Nat /\ b.tokens \in Nat /\ Len(log) \in Nat
      /\ Refilled(b) \in Int /\ Refilled(b) <= Capacity
      /\ Refilled(b) <= b.tokens + (clock - b.lastSeen)
      /\ b.lastSeen <= clock => Refilled(b) \in Nat
  BY <1>1, OneClient
<1>3. b.lastSeen <= clock
  BY <1>1 DEF Dealings
<1>4. ASSUME NEW i \in 1 .. Len(log)
      PROVE  Spent(Len(log), i) + Refilled(b) <= Capacity + (clock - log[i])
  <2>1. Spent(Len(log), i) + b.tokens <= Capacity + (b.lastSeen - log[i])
    BY <1>1 DEF Dealings
  <2>2. log[i] \in Nat /\ i \in Int /\ Len(log) \in Int
    BY <1>1, <1>2, OneClient
  <2>3. Spent(Len(log), i) \in Int
    BY <2>2, SpentMore
  <2>4. Capacity \in Int
    BY LimiterSizes
  <2> HIDE DEF b, log
  <2>5. b.tokens \in Int /\ b.lastSeen \in Int /\ clock \in Int /\ log[i] \in Int
    BY <1>2, <2>2
  <2>6. Refilled(b) \in Int /\ Refilled(b) <= b.tokens + (clock - b.lastSeen)
    BY <1>2
  <2> QED
    BY <2>1, <2>3, <2>4, <2>5, <2>6, PaidFor
<1> QED
  BY <1>2, <1>3, <1>4

LEMMA VisitKeeps ==
    ASSUME LimiterInv, NEW c \in Clients, Visit(c) PROVE LimiterInv'
<1>1. /\ visitors[c] # NoBucket /\ Refilled(visitors[c]) >= Cost
      /\ SetBucket(c, Refilled(visitors[c]) - Cost) /\ LetThrough(c) /\ UNCHANGED clock
  BY DEF Visit
<1>2. Refilled(visitors[c]) \in Int /\ Cost <= Refilled(visitors[c])
  BY <1>1, Gained, LimiterSizes
<1> QED
  BY <1>1, <1>2, Gained, LettingThrough

\* A request that is refused costs nothing and gains nothing.
LEMMA TurnAwayKeeps ==
    ASSUME LimiterInv, NEW c \in Clients, TurnAway(c) PROVE LimiterInv'
<1> DEFINE after == [tokens |-> Refilled(visitors[c]), lastSeen |-> clock]
<1>0. LimiterTypeOK /\ NoBucket \notin [tokens : Nat, lastSeen : Nat]
  BY LimiterConstants DEF LimiterInv
<1>1. /\ visitors[c] # NoBucket
      /\ visitors' = [visitors EXCEPT ![c] = after]
      /\ clock' = clock /\ admitted' = admitted
  BY DEF TurnAway, SetBucket
<1>2. /\ Refilled(visitors[c]) \in Nat /\ Refilled(visitors[c]) <= Capacity
      /\ clock \in 0 .. Horizon /\ Capacity \in Nat
  BY <1>0, <1>1, Gained, LimiterSizes DEF LimiterTypeOK
<1>3. /\ after \in [tokens : 0 .. Capacity, lastSeen : 0 .. Horizon]
      /\ after \in [tokens : Nat, lastSeen : Nat] /\ after # NoBucket
  BY <1>0, <1>2
<1>4. visitors'[c] = after /\ \A d \in Clients : d # c => visitors'[d] = visitors[d]
  BY <1>0, <1>1 DEF LimiterTypeOK
<1>5. LimiterTypeOK'
  BY <1>0, <1>1, <1>3 DEF LimiterTypeOK, Capacity
<1>6. Dealings(c)'
  <2>1. /\ visitors'[c] # NoBucket
        /\ visitors'[c].lastSeen = clock' /\ visitors'[c].tokens = Refilled(visitors[c])
        /\ clock' \in Nat
    BY <1>1, <1>2, <1>3, <1>4
  <2>2. \A i \in 1 .. Len(admitted[c]) :
            Spent(Len(admitted[c]), i) + Refilled(visitors[c])
                <= Capacity + (clock - admitted[c][i])
    BY <1>1, Gained
  <2>3. \A i \in 1 .. Len(admitted'[c]) :
            Spent(Len(admitted'[c]), i) + visitors'[c].tokens
                <= Capacity + (visitors'[c].lastSeen - admitted'[c][i])
    BY <1>1, <2>1, <2>2
  <2> QED
    BY <2>1, <2>3 DEF Dealings, Spent, Capacity
<1>7. Paced(c)'
  BY <1>1 DEF LimiterInv, Paced, Spent, Capacity
<1>8. \A d \in Clients : d # c => Dealings(d)' /\ Paced(d)'
  BY <1>1, <1>4, OthersKept
<1> QED
  BY <1>5, <1>6, <1>7, <1>8 DEF LimiterInv

LEMMA LimiterStepKeeps == LimiterInv /\ [LimiterNext]_limiterVars => LimiterInv'
<1> SUFFICES ASSUME LimiterInv, [LimiterNext]_limiterVars PROVE LimiterInv'
  OBVIOUS
<1>1. CASE Tick
  BY <1>1, TickKeeps
<1>2. CASE Cleanup
  BY <1>2, CleanupKeeps
<1>3. CASE \E o \in Origin : Middleware(o)
  <2>1. PICK o \in Origin : Middleware(o)
    BY <1>3
  <2>2. clientIP(o) \in Clients
    BY ClientIPIsClient
  <2>3. FirstVisit(clientIP(o)) \/ Visit(clientIP(o)) \/ TurnAway(clientIP(o))
    BY <2>1 DEF Middleware
  <2> QED
    BY <2>2, <2>3, FirstVisitKeeps, VisitKeeps, TurnAwayKeeps
<1>4. CASE UNCHANGED limiterVars
  BY <1>4 DEF limiterVars, LimiterInv, LimiterTypeOK, Dealings, Paced, Spent, Capacity
<1> QED
  BY <1>1, <1>2, <1>3, <1>4 DEF LimiterNext

LEMMA LimiterInvAlways == LimiterSpec => []LimiterInv
<1> QED
  BY LimiterInitHolds, LimiterStepKeeps, PTL DEF LimiterSpec

-----------------------------------------------------------------------------
\* The clock, the buckets and the history always hold values of their types:
\* no bucket is ever overdrawn or more than full.
THEOREM LimiterTypeCorrect == LimiterSpec => []LimiterTypeOK
<1> QED
  BY LimiterInvAlways, PTL DEF LimiterInv

\* However clients ask, idle and are forgotten by the janitor, no window of a
\* client's requests is wider than a full bucket and what time brought back.
THEOREM LimiterThrottles == LimiterSpec => []Throttled
<1>1. LimiterInv => Throttled
  <2> SUFFICES ASSUME LimiterInv, NEW c \in Clients,
                      NEW j \in DOMAIN admitted[c], NEW i \in 1 .. j
               PROVE  (j - i + 1) * Cost <= Capacity + (admitted[c][j] - admitted[c][i])
    BY DEF Throttled
  <2>1. admitted[c] \in Seq(0 .. Horizon)
    BY OneClient DEF LimiterInv
  <2>2. j \in 1 .. Len(admitted[c])
    BY <2>1
  <2> QED
    BY <2>2 DEF LimiterInv, Paced, Spent
<1> QED
  BY <1>1, LimiterInvAlways, PTL

-----------------------------------------------------------------------------
(* The gateway: connections come back and calls are counted out, for any number
   of calls, any size of the pool and any number of queries of a handler. *)

\* What a call holds where it is; with one connection only a retreat asks for
\* another; without one there is no transaction to lock a row.
Grip(c) ==
    /\ stage[c] \in {"out", "handling"} => held[c] = 0
    /\ stage[c] = "using" => held[c] > 0
    /\ stage[c] = "waiting" => held[c] \in {0, 1}
    /\ stage[c] = "waiting" /\ held[c] = 1 => route[c] = "retreat"
    /\ held[c] = 0 => locks[c] = {} /\ wants[c] = {}
    /\ wants[c] # {} => stage[c] = "using"

Inside == {c \in Calls : stage[c] # "out"}

OneHolder == \A c, d \in Calls : c # d => locks[c] \cap locks[d] = {}

GatewayInv ==
    /\ GatewayTypeOK
    /\ OneHolder
    /\ \A c \in Calls : Grip(c)
    /\ inFlight = Cardinality(Inside)
    /\ Acquired <= MaxConns

LEMMA GatewaySizes == MaxConns \in Nat \ {0} /\ MaxAsks \in Nat \ {0}
<1> QED
  BY GatewayConstants DEF MaxConns

LEMMA CallsAreFinite ==
    /\ IsFiniteSet(CheckedOut) /\ Acquired \in Nat
    /\ IsFiniteSet(Inside) /\ Cardinality(Inside) \in Nat
<1>1. IsFiniteSet({1, 2})
  BY 1 \in Int, 2 \in Int, FS_Interval, {1, 2} = 1 .. 2
<1>2. IsFiniteSet(Calls \X {1, 2})
  BY <1>1, GatewayConstants, FS_Product
<1>3. CheckedOut \in SUBSET (Calls \X {1, 2}) /\ Inside \in SUBSET Calls
  BY DEF CheckedOut, Inside
<1> QED
  BY <1>2, <1>3, GatewayConstants, FS_Subset, FS_CardinalityType DEF Acquired

LEMMA GatewayInitHolds == GatewayInit => GatewayInv
<1> SUFFICES ASSUME GatewayInit PROVE GatewayInv
  OBVIOUS
<1>1. GatewayTypeOK /\ OneHolder /\ \A c \in Calls : Grip(c)
  BY GatewaySizes DEF GatewayInit, GatewayTypeOK, Phases, Stages, Routes, Grip, OneHolder
<1>2. Inside = {} /\ CheckedOut = {}
  BY DEF GatewayInit, Inside, CheckedOut
<1> QED
  BY <1>1, <1>2, GatewaySizes, FS_EmptySet DEF GatewayInit, GatewayInv, Acquired

\* Who checks nothing out leaves the pool no emptier.
LEMMA PoolKept ==
    ASSUME GatewayInv, \A c \in Calls : held'[c] \in Nat /\ held'[c] <= held[c]
    PROVE  Acquired' <= MaxConns'
<1>1. \A c \in Calls : held[c] \in Nat
  BY DEF GatewayInv, GatewayTypeOK
<1>2. CheckedOut' \in SUBSET CheckedOut
  BY <1>1 DEF CheckedOut
<1>3. Cardinality(CheckedOut') <= Cardinality(CheckedOut)
  BY <1>2, CallsAreFinite, FS_Subset
<1>4. IsFiniteSet(CheckedOut')
  BY <1>2, CallsAreFinite, FS_Subset
<1>5. Cardinality(CheckedOut') \in Nat /\ Cardinality(CheckedOut) \in Nat
  BY <1>4, CallsAreFinite, FS_CardinalityType
<1> QED
  BY <1>3, <1>5, GatewaySizes DEF GatewayInv, Acquired, MaxConns

\* Which calls are inside when one moves.
LEMMA Counted ==
    ASSUME GatewayTypeOK, NEW c \in Calls, NEW where \in Stages, To(c, where)
    PROVE  /\ stage' \in [Calls -> Stages]
           /\ stage[c] # "out" /\ where # "out" =>
                  Cardinality(Inside)' = Cardinality(Inside)
           /\ stage[c] = "out" /\ where # "out" =>
                  Cardinality(Inside)' = Cardinality(Inside) + 1
           /\ stage[c] # "out" /\ where = "out" =>
                  Cardinality(Inside)' = Cardinality(Inside) - 1
<1>1. stage' \in [Calls -> Stages] /\ \A d \in Calls : stage'[d] = IF d = c THEN where ELSE stage[d]
  BY DEF GatewayTypeOK, To
<1>2. ASSUME stage[c] # "out", where # "out" PROVE Inside' = Inside
  BY <1>1, <1>2 DEF Inside
<1>3. ASSUME stage[c] = "out", where # "out" PROVE Inside' = Inside \cup {c} /\ c \notin Inside
  BY <1>1, <1>3 DEF Inside
<1>4. ASSUME stage[c] # "out", where = "out" PROVE Inside' = Inside \ {c} /\ c \in Inside
  BY <1>1, <1>4 DEF Inside
<1>5. IsFiniteSet(Inside)
  BY CallsAreFinite
<1>6. /\ c \notin Inside => Cardinality(Inside \cup {c}) = Cardinality(Inside) + 1
      /\ c \in Inside => Cardinality(Inside \ {c}) = Cardinality(Inside) - 1
  BY <1>5, FS_AddElement, FS_RemoveElement
<1> QED
  BY <1>1, <1>2, <1>3, <1>4, <1>6

\* Locks that stay as they are, or of which a call lets go.
LEMMA LocksStay ==
    ASSUME GatewayInv, UNCHANGED rowLocks \/ \E c \in Calls : LetsGo(c)
    PROVE  /\ locks' \in [Calls -> SUBSET Rows] /\ wants' \in [Calls -> SUBSET Rows]
           /\ OneHolder'
<1>1. CASE UNCHANGED rowLocks
  BY <1>1 DEF GatewayInv, GatewayTypeOK, OneHolder, rowLocks
<1>2. CASE \E c \in Calls : LetsGo(c)
  BY <1>2 DEF GatewayInv, GatewayTypeOK, OneHolder, LetsGo
<1> QED
  BY <1>1, <1>2

LEMMA ArriveKeeps ==
    ASSUME GatewayInv, NEW c \in Calls, NEW r \in Routes, Arrive(c, r)
    PROVE  GatewayInv'
<1> DEFINE n == MostAsks(r)
<1>0. n \in 0 .. MaxAsks + 1
  BY GatewaySizes DEF MostAsks, Routes
<1>1. /\ stage[c] = "out" /\ To(c, "handling")
      /\ route' = [route EXCEPT ![c] = r] /\ asks' = [asks EXCEPT ![c] = n]
      /\ inFlight' = inFlight + 1 /\ phase' = phase /\ held' = held
      /\ UNCHANGED rowLocks
  BY DEF Arrive
<1>2. /\ stage' \in [Calls -> Stages]
      /\ Cardinality(Inside)' = Cardinality(Inside) + 1
  BY <1>1, Counted DEF GatewayInv, Stages
<1>3. GatewayTypeOK'
  <2>1. route' \in [Calls -> Routes]
    BY <1>1 DEF GatewayInv, GatewayTypeOK
  <2>2. asks' \in [Calls -> 0 .. MaxAsks + 1]
    BY <1>0, <1>1 DEF GatewayInv, GatewayTypeOK
  <2> QED
    BY <1>1, <1>2, <2>1, <2>2, LocksStay DEF GatewayInv, GatewayTypeOK
<1>4. \A d \in Calls : Grip(d)'
  BY <1>1 DEF GatewayInv, GatewayTypeOK, Grip, To, rowLocks
<1>5. Acquired' <= MaxConns'
  BY <1>1, PoolKept DEF GatewayInv, GatewayTypeOK
<1> QED
  BY <1>1, <1>2, <1>3, <1>4, <1>5, LocksStay DEF GatewayInv

LEMMA AskKeeps ==
    ASSUME GatewayInv, NEW c \in Calls, Ask(c) \/ AskAgain(c) PROVE GatewayInv'
<1>1. /\ stage[c] # "out" /\ To(c, "waiting") /\ asks[c] > 0
      /\ stage[c] = "handling" \/ (held[c] = 1 /\ route[c] = "retreat")
      /\ stage[c] = "handling" \/ wants[c] = {}
      /\ \/ asks' = [asks EXCEPT ![c] = @ - 1]
         \/ asks' = [asks EXCEPT ![c] = 0]
      /\ UNCHANGED <<server, route, held, rowLocks>>
  BY DEF Ask, AskAgain, NestsIn
<1>2. /\ stage' \in [Calls -> Stages]
      /\ Cardinality(Inside)' = Cardinality(Inside)
  BY <1>1, Counted DEF GatewayInv, Stages
<1>3. asks' \in [Calls -> 0 .. MaxAsks + 1]
  <2>1. asks[c] - 1 \in 0 .. MaxAsks + 1 /\ 0 \in 0 .. MaxAsks + 1
    BY <1>1, GatewaySizes DEF GatewayInv, GatewayTypeOK
  <2> QED
    BY <1>1, <2>1 DEF GatewayInv, GatewayTypeOK
<1>4. GatewayTypeOK'
  BY <1>1, <1>2, <1>3, LocksStay DEF GatewayInv, GatewayTypeOK, server
<1>5. \A d \in Calls : Grip(d)'
  BY <1>1 DEF GatewayInv, GatewayTypeOK, Grip, To, rowLocks
<1>6. Acquired' <= MaxConns'
  BY <1>1, PoolKept DEF GatewayInv, GatewayTypeOK
<1> QED
  BY <1>1, <1>2, <1>4, <1>5, <1>6, LocksStay DEF GatewayInv, server

LEMMA AcquireKeeps ==
    ASSUME GatewayInv, NEW c \in Calls, Acquire(c) PROVE GatewayInv'
<1>1. /\ stage[c] = "waiting" /\ To(c, "using") /\ Acquired < MaxConns
      /\ held' = [held EXCEPT ![c] = @ + 1]
      /\ UNCHANGED <<server, route, asks, rowLocks>>
  BY DEF Acquire
<1>2. /\ stage' \in [Calls -> Stages]
      /\ Cardinality(Inside)' = Cardinality(Inside)
  BY <1>1, Counted DEF GatewayInv, Stages
<1>3. held[c] \in {0, 1} /\ \A d \in Calls : held[d] \in 0 .. 2
  BY <1>1 DEF GatewayInv, Grip, GatewayTypeOK
<1>4. /\ held' \in [Calls -> 0 .. 2] /\ held'[c] = held[c] + 1
      /\ \A d \in Calls : d # c => held'[d] = held[d]
  BY <1>1, <1>3 DEF GatewayInv, GatewayTypeOK
<1>5. GatewayTypeOK'
  BY <1>1, <1>2, <1>4, LocksStay DEF GatewayInv, GatewayTypeOK, server
<1>6. \A d \in Calls : Grip(d)'
  BY <1>1, <1>3, <1>4 DEF GatewayInv, GatewayTypeOK, Grip, To, rowLocks
<1>7. Acquired' <= MaxConns'
  <2>1. CheckedOut' = CheckedOut \cup {<<c, held[c] + 1>>}
    BY <1>3, <1>4 DEF CheckedOut
  <2>2. /\ IsFiniteSet(CheckedOut')
        /\ \/ Cardinality(CheckedOut') = Cardinality(CheckedOut)
           \/ Cardinality(CheckedOut') = Cardinality(CheckedOut) + 1
    BY <2>1, CallsAreFinite, FS_AddElement
  <2>3. Acquired' \in Nat /\ Acquired' <= Acquired + 1
    BY <2>2, CallsAreFinite, FS_CardinalityType DEF Acquired
  <2> QED
    BY <1>1, <2>3, CallsAreFinite, GatewaySizes DEF MaxConns
<1> QED
  BY <1>1, <1>2, <1>5, <1>6, <1>7, LocksStay DEF GatewayInv, server

\* Locks are asked for one by one, and had by one call at a time.
LEMMA LockKeeps ==
    ASSUME GatewayInv, NEW c \in Calls, NEW x \in Rows, LockRow(c, x) PROVE GatewayInv'
<1>1. /\ stage[c] = "using" /\ held[c] = 1 /\ wants' = [wants EXCEPT ![c] = {x}]
      /\ UNCHANGED <<phase, inFlight, stage, route, asks, held, locks>>
  BY DEF LockRow, server
<1>2. wants' \in [Calls -> SUBSET Rows] /\ locks' \in [Calls -> SUBSET Rows]
  BY <1>1 DEF GatewayInv, GatewayTypeOK
<1>3. GatewayTypeOK'
  BY <1>1, <1>2 DEF GatewayInv, GatewayTypeOK
<1>4. \A d \in Calls : Grip(d)'
  <2>1. \A d \in Calls : wants'[d] = IF d = c THEN {x} ELSE wants[d]
    BY <1>1 DEF GatewayInv, GatewayTypeOK
  <2> QED
    BY <1>1, <2>1 DEF GatewayInv, Grip
<1>5. Acquired' <= MaxConns'
  BY <1>1, PoolKept DEF GatewayInv, GatewayTypeOK
<1> QED
  BY <1>1, <1>3, <1>4, <1>5 DEF GatewayInv, OneHolder, Inside

LEMMA GrantKeeps ==
    ASSUME GatewayInv, NEW c \in Calls, Granted(c) PROVE GatewayInv'
<1>1. /\ wants[c] # {} /\ \A d \in Calls : d # c => wants[c] \cap locks[d] = {}
      /\ locks' = [locks EXCEPT ![c] = @ \cup wants[c]]
      /\ wants' = [wants EXCEPT ![c] = {}]
      /\ UNCHANGED <<phase, inFlight, stage, route, asks, held>>
  BY DEF Granted, Awaits, server
<1>2. wants' \in [Calls -> SUBSET Rows] /\ locks' \in [Calls -> SUBSET Rows]
  BY <1>1 DEF GatewayInv, GatewayTypeOK
<1>3. GatewayTypeOK'
  BY <1>1, <1>2 DEF GatewayInv, GatewayTypeOK
<1>4. \A d \in Calls : /\ locks'[d] = IF d = c THEN locks[c] \cup wants[c] ELSE locks[d]
                       /\ wants'[d] = IF d = c THEN {} ELSE wants[d]
  BY <1>1 DEF GatewayInv, GatewayTypeOK
<1>5. held[c] # 0
  BY <1>1 DEF GatewayInv, Grip
<1>6. \A d \in Calls : Grip(d)'
  BY <1>1, <1>4, <1>5 DEF GatewayInv, Grip
<1>7. OneHolder'
  BY <1>1, <1>4 DEF GatewayInv, OneHolder
<1>8. Acquired' <= MaxConns'
  BY <1>1, PoolKept DEF GatewayInv, GatewayTypeOK
<1> QED
  BY <1>1, <1>3, <1>6, <1>7, <1>8 DEF GatewayInv, Inside

LEMMA ReleaseKeeps ==
    ASSUME GatewayInv, NEW c \in Calls, Release(c) PROVE GatewayInv'
<1> DEFINE where == IF held[c] = 1 THEN "handling" ELSE "using"
<1>1. /\ stage[c] = "using" /\ To(c, where)
      /\ held' = [held EXCEPT ![c] = @ - 1]
      /\ wants[c] = {} /\ (IF held[c] = 1 THEN LetsGo(c) ELSE UNCHANGED rowLocks)
      /\ UNCHANGED <<server, route, asks>>
  BY DEF Release
<1>2. /\ stage' \in [Calls -> Stages]
      /\ Cardinality(Inside)' = Cardinality(Inside)
  <2>1. where \in Stages /\ where # "out" /\ stage[c] # "out"
    BY <1>1 DEF Stages
  <2> QED
    BY <1>1, <2>1, Counted DEF GatewayInv
<1>3. held[c] \in {1, 2} /\ \A d \in Calls : held[d] \in 0 .. 2
  BY <1>1 DEF GatewayInv, Grip, GatewayTypeOK
<1>4. /\ held' \in [Calls -> 0 .. 2] /\ held'[c] = held[c] - 1
      /\ \A d \in Calls : d # c => held'[d] = held[d]
  BY <1>1, <1>3 DEF GatewayInv, GatewayTypeOK
<1>5. GatewayTypeOK'
  BY <1>1, <1>2, <1>4, LocksStay DEF GatewayInv, GatewayTypeOK, server
<1>6. \A d \in Calls : Grip(d)'
  <2>1. \A d \in Calls : stage'[d] = IF d = c THEN where ELSE stage[d]
    BY <1>1 DEF GatewayInv, GatewayTypeOK, To
  <2>2. \A d \in Calls : d # c => locks'[d] = locks[d] /\ wants'[d] = wants[d]
    BY <1>1 DEF GatewayInv, GatewayTypeOK, LetsGo, rowLocks
  <2>3. wants'[c] = {} /\ (held[c] = 1 => locks'[c] = {})
    BY <1>1 DEF GatewayInv, GatewayTypeOK, LetsGo, rowLocks
  <2> QED
    BY <1>1, <1>3, <1>4, <2>1, <2>2, <2>3 DEF GatewayInv, Grip
<1>7. Acquired' <= MaxConns'
  BY <1>3, <1>4, PoolKept
<1> QED
  BY <1>1, <1>2, <1>5, <1>6, <1>7, LocksStay DEF GatewayInv, server

LEMMA FailKeeps ==
    ASSUME GatewayInv, NEW c \in Calls, stage[c] # "out", Fail(c) PROVE GatewayInv'
<1>1. /\ To(c, "handling") /\ asks' = [asks EXCEPT ![c] = 0]
      /\ held' = [held EXCEPT ![c] = 0] /\ LetsGo(c) /\ UNCHANGED <<server, route>>
  BY DEF Fail
<1>2. /\ stage' \in [Calls -> Stages]
      /\ Cardinality(Inside)' = Cardinality(Inside)
  BY <1>1, Counted DEF GatewayInv, Stages
<1>3. GatewayTypeOK'
  <2>1. held' \in [Calls -> 0 .. 2]
    BY <1>1 DEF GatewayInv, GatewayTypeOK
  <2>2. asks' \in [Calls -> 0 .. MaxAsks + 1]
    BY <1>1, GatewaySizes DEF GatewayInv, GatewayTypeOK
  <2> QED
    BY <1>1, <1>2, <2>1, <2>2, LocksStay DEF GatewayInv, GatewayTypeOK, server
<1>4. \A d \in Calls : Grip(d)'
  BY <1>1 DEF GatewayInv, GatewayTypeOK, Grip, To, LetsGo
<1>5. Acquired' <= MaxConns'
  BY <1>1, PoolKept DEF GatewayInv, GatewayTypeOK
<1> QED
  BY <1>1, <1>2, <1>3, <1>4, <1>5, LocksStay DEF GatewayInv, server

\* A call that ends by a return or a panic has given back what it held.
LEMMA LeaveKeeps ==
    ASSUME GatewayInv, NEW c \in Calls, stage[c] # "out", Leave(c),
           inFlight' = inFlight - 1, phase' = phase,
           held' = [held EXCEPT ![c] = 0], LetsGo(c)
    PROVE  GatewayInv'
<1>1. /\ To(c, "out") /\ asks' = [asks EXCEPT ![c] = 0]
      /\ route' = [route EXCEPT ![c] = "query"]
  BY DEF Leave
<1>2. /\ stage' \in [Calls -> Stages]
      /\ Cardinality(Inside)' = Cardinality(Inside) - 1
  BY <1>1, Counted DEF GatewayInv, Stages
<1>3. inFlight' \in Nat
  <2>1. c \in Inside
    BY DEF Inside
  <2>2. Inside # {} /\ Cardinality(Inside) # 0
    BY <2>1, CallsAreFinite, FS_EmptySet
  <2> QED
    BY <2>2, CallsAreFinite DEF GatewayInv
<1>4. GatewayTypeOK'
  <2>1. held' \in [Calls -> 0 .. 2] /\ route' \in [Calls -> Routes]
    BY <1>1 DEF GatewayInv, GatewayTypeOK, Routes
  <2>2. asks' \in [Calls -> 0 .. MaxAsks + 1]
    BY <1>1, GatewaySizes DEF GatewayInv, GatewayTypeOK
  <2> QED
    BY <1>2, <1>3, <2>1, <2>2, LocksStay DEF GatewayInv, GatewayTypeOK
<1>5. \A d \in Calls : Grip(d)'
  BY <1>1 DEF GatewayInv, GatewayTypeOK, Grip, To, LetsGo
<1>6. Acquired' <= MaxConns'
  BY PoolKept DEF GatewayInv, GatewayTypeOK
<1> QED
  BY <1>2, <1>4, <1>5, <1>6, LocksStay DEF GatewayInv

LEMMA BecomeKeeps ==
    ASSUME GatewayInv, NEW p \in Phases, Become(p) PROVE GatewayInv'
<1> QED
  BY DEF GatewayInv, GatewayTypeOK, OneHolder, Grip, Inside, Acquired, CheckedOut, MaxConns,
         Become, rowLocks

LEMMA GatewayStepKeeps == GatewayInv /\ [GatewayNext]_gatewayVars => GatewayInv'
<1> SUFFICES ASSUME GatewayInv, [GatewayNext]_gatewayVars PROVE GatewayInv'
  OBVIOUS
<1>1. CASE \E c \in Calls, r \in Routes : Arrive(c, r)
  BY <1>1, ArriveKeeps
<1>2. CASE \E c \in Calls : Ask(c) \/ AskAgain(c)
  BY <1>2, AskKeeps
<1>3. CASE \E c \in Calls : Acquire(c)
  BY <1>3, AcquireKeeps
<1>4. CASE \E c \in Calls : Release(c)
  BY <1>4, ReleaseKeeps
<1>5. CASE \E c \in Calls : \/ ClientGone(c) \/ ProbeTimesOut(c)
                            \/ Rejected(c) \/ DeadlockFound(c)
  <2>1. PICK c \in Calls : Fail(c) /\ stage[c] # "out"
    BY <1>5 DEF ClientGone, ProbeTimesOut, Rejected, DeadlockFound, Busy, GatewayInv, Grip
  <2> QED
    BY <2>1, FailKeeps
<1>6. CASE \E c \in Calls : Return(c)
  <2>1. PICK c \in Calls : Return(c)
    BY <1>6
  <2>2. stage[c] # "out" /\ held[c] = 0
    BY <2>1 DEF Return, GatewayInv, Grip
  <2>3. held' = [held EXCEPT ![c] = 0]
    BY <2>1, <2>2 DEF Return, GatewayInv, GatewayTypeOK
  <2>4. LetsGo(c)
    BY <2>1, <2>2 DEF Return, GatewayInv, GatewayTypeOK, Grip, LetsGo, rowLocks
  <2> QED
    BY <2>1, <2>2, <2>3, <2>4, LeaveKeeps DEF Return
<1>7. CASE \E c \in Calls : Panic(c)
  <2>1. PICK c \in Calls : Panic(c)
    BY <1>7
  <2> QED
    BY <2>1, LeaveKeeps DEF Panic, Deferred
<1>8. CASE Signal \/ ListenError \/ Drained \/ DrainTimeout \/ Exit
  BY <1>8, BecomeKeeps DEF Signal, ListenError, Drained, DrainTimeout, Exit, Phases
<1>9. CASE \E c \in Calls, x \in Rows : LockRow(c, x)
  BY <1>9, LockKeeps
<1>10. CASE \E c \in Calls : Granted(c)
  BY <1>10, GrantKeeps
<1>11. CASE UNCHANGED gatewayVars
  BY <1>11 DEF gatewayVars, GatewayInv, GatewayTypeOK, OneHolder, Grip, Inside, Acquired,
               CheckedOut, MaxConns
<1> QED
  BY <1>1, <1>2, <1>3, <1>4, <1>5, <1>6, <1>7, <1>8, <1>9, <1>10, <1>11 DEF GatewayNext

-----------------------------------------------------------------------------
\* The server, its calls and its gauge always hold values of their types.
THEOREM GatewayTypeCorrect == GatewaySpec => []GatewayTypeOK
<1>1. GatewayInv => GatewayTypeOK
  BY DEF GatewayInv
<1> QED
  BY <1>1, GatewayInitHolds, GatewayStepKeeps, PTL DEF GatewaySpec

\* Where every connection is with a call that waits and none of them is a nested
\* retreat, each waits for a row of another: PostgreSQL sees a deadlock.
LEMMA HaltNeedsRetreat ==
    ASSUME GatewayInv, Stuck PROVE Deadlocks # {} \/ \E c \in Calls : Nested(c)
<1> SUFFICES ASSUME \A c \in Calls : ~Nested(c) PROVE Deadlocks # {}
  OBVIOUS
<1> DEFINE S == {c \in Calls : held[c] > 0}
<1>1. \A c \in Calls : held[c] \in 0 .. 2
  BY DEF GatewayInv, GatewayTypeOK
<1>2. S # {}
  <2>1. CheckedOut # {}
    BY FS_EmptySet, GatewaySizes DEF Stuck, Acquired
  <2>2. PICK p \in Calls \X {1, 2} : p[2] <= held[p[1]]
    BY <2>1 DEF CheckedOut
  <2>3. p[1] \in Calls /\ p[2] \in {1, 2}
    BY <2>2
  <2> QED
    BY <1>1, <2>2, <2>3
<1>3. ASSUME NEW c \in S PROVE \E d \in S : Awaits(c, d)
  <2>1. stage[c] # "waiting"
    BY <1>1, <1>3 DEF GatewayInv, Grip, Nested
  <2>2. PICK d \in Calls : Awaits(c, d)
    BY <1>3, <2>1 DEF Stuck, Waits
  <2>3. held[d] # 0
    BY <2>2 DEF Awaits, GatewayInv, Grip
  <2> QED
    BY <1>1, <2>2, <2>3
<1>4. S \in (SUBSET Calls) \ {{}}
  BY <1>2
<1> QED
  BY <1>3, <1>4 DEF Deadlocks

\* However calls end, they are counted out and leave no connection and no lock
\* behind; and the pool does not come to a halt that PostgreSQL will not end but
\* for a retreat that asks for a second connection while it has one.
THEOREM NothingLeaks == GatewaySpec => []ConnectionsComeBack
<1>1. GatewayInv => ConnectionsComeBack
  BY HaltNeedsRetreat DEF GatewayInv, OneHolder, ConnectionsComeBack, Grip, Inside
<1> QED
  BY <1>1, GatewayInitHolds, GatewayStepKeeps, PTL DEF GatewaySpec

-----------------------------------------------------------------------------
(* Accounts: whoever leaves the list of administrators is none a token's life
   later, for any addresses, requests, restarts and lists. *)

\* The history is not ahead of the clock, and up to it for who is listed now.
Dated ==
    \A e \in Emails :
        /\ lastListed[e] <= time
        /\ e \in adminEmails => lastListed[e] = time

\* An administrator's token was issued while its address was on the list.
Backed(t) ==
    t.role = "admin" /\ t.email \notin notDemoted =>
        lastListed[t.email] >= 0 /\ t.expires <= lastListed[t.email] + JWTTTL

\* Who is logging in has an account: none is ever deleted.
Known == \A r \in Logins : login[r] # NoLogin => users[login[r].email] # NoAccount

AccountsInv == AccountsTypeOK /\ Dated /\ Known /\ \A t \in tokens : Backed(t)

LEMMA AccountsInitHolds == AccountsInit => AccountsInv
<1> QED
  BY AccountsConstants
  DEF AccountsInit, AccountsInv, AccountsTypeOK, Dated, Backed, Known

\* A list that is read now, or is still there, makes nobody's history older.
LEMMA ListingKeeps ==
    ASSUME AccountsInv, NEW now \in 0 .. LastTick, time' = now, time <= now,
           NEW list \in SUBSET Emails, adminEmails' = list, Listing(now, list),
           UNCHANGED <<tokens, notDemoted>>
    PROVE  /\ Dated' /\ \A t \in tokens : Backed(t)'
           /\ lastListed' \in [Emails -> Nat \cup {-1}]
<1>1. /\ lastListed \in [Emails -> Nat \cup {-1}] /\ tokens \in SUBSET Token
      /\ time \in Nat /\ now \in Nat /\ JWTTTL \in Nat
  BY AccountsConstants DEF AccountsInv, AccountsTypeOK
<1>2. /\ lastListed' \in [Emails -> Nat \cup {-1}]
      /\ \A e \in Emails : lastListed'[e] = IF e \in list THEN now ELSE lastListed[e]
  BY <1>1 DEF Listing
<1>3. \A e \in Emails : lastListed[e] <= lastListed'[e] /\ lastListed'[e] <= now
  BY <1>1, <1>2 DEF AccountsInv, Dated
<1>4. Dated'
  BY <1>2, <1>3 DEF Dated
<1>5. ASSUME NEW t \in tokens PROVE Backed(t)'
  <2>1. Backed(t) /\ t.email \in Emails /\ t.expires \in Nat
    BY <1>1 DEF AccountsInv, Token
  <2>2. lastListed[t.email] \in Int /\ lastListed'[t.email] \in Int
    BY <1>1, <1>2, <2>1
  <2> QED
    BY <1>1, <1>3, <2>1, <2>2 DEF Backed
<1> QED
  BY <1>2, <1>4, <1>5

LEMMA TimeKeeps == AccountsInv /\ TimePasses => AccountsInv'
<1> SUFFICES ASSUME AccountsInv, TimePasses PROVE AccountsInv'
  OBVIOUS
<1>1. /\ time + 1 \in 0 .. LastTick /\ time' = time + 1 /\ time <= time + 1
      /\ adminEmails \in SUBSET Emails /\ adminEmails' = adminEmails
      /\ Listing(time + 1, adminEmails) /\ UNCHANGED <<tokens, notDemoted>>
  BY AccountsConstants DEF AccountsInv, AccountsTypeOK, TimePasses
<1>2. /\ Dated' /\ \A t \in tokens : Backed(t)'
      /\ lastListed' \in [Emails -> Nat \cup {-1}]
  BY <1>1, ListingKeeps
<1> QED
  BY <1>1, <1>2 DEF AccountsInv, AccountsTypeOK, Known, TimePasses

LEMMA RestartKeeps ==
    ASSUME AccountsInv, NEW list \in SUBSET Emails, Restart(list) PROVE AccountsInv'
<1>1. /\ time \in 0 .. LastTick /\ time' = time /\ time <= time
      /\ adminEmails' = list /\ Listing(time, list) /\ UNCHANGED <<tokens, notDemoted>>
  BY AccountsConstants DEF AccountsInv, AccountsTypeOK, Restart
<1>2. /\ Dated' /\ \A t \in tokens : Backed(t)'
      /\ lastListed' \in [Emails -> Nat \cup {-1}]
  BY <1>1, ListingKeeps
<1>3. restarts' \in 0 .. MaxRestarts
  BY AccountsConstants DEF AccountsInv, AccountsTypeOK, Restart
<1> QED
  BY <1>1, <1>2, <1>3 DEF AccountsInv, AccountsTypeOK, Known, Restart

\* A session for the role that the list gives, or for one that could not be
\* taken back, is in order.
LEMMA IssueKeeps ==
    ASSUME AccountsInv, NEW e \in Emails, NEW role \in Roles, Issue(e, role),
           role = RoleFor(e) \/ role = "user" \/ e \in notDemoted',
           notDemoted \subseteq notDemoted', UNCHANGED process
    PROVE  /\ Dated' /\ \A t \in tokens' : Backed(t)'
           /\ tokens' \in SUBSET Token
<1> DEFINE new == [email |-> e, role |-> role, expires |-> time + JWTTTL]
<1>1. /\ time' = time /\ lastListed' = lastListed /\ adminEmails' = adminEmails
      /\ tokens' = tokens \cup {new}
      /\ time \in Nat /\ JWTTTL \in Nat /\ tokens \in SUBSET Token
  BY AccountsConstants DEF AccountsInv, AccountsTypeOK, process, Issue
<1>2. new \in Token
  BY <1>1 DEF Token
<1>3. Dated'
  BY <1>1 DEF AccountsInv, Dated
<1>4. Backed(new)'
  <2>1. role = "admin" /\ e \notin notDemoted' => e \in adminEmails
    BY DEF RoleFor
  <2>2. e \in adminEmails => lastListed[e] = time
    BY DEF AccountsInv, Dated
  <2> QED
    BY <1>1, <2>1, <2>2 DEF Backed
<1>5. ASSUME NEW t \in tokens PROVE Backed(t)'
  BY <1>1 DEF AccountsInv, Backed
<1> QED
  BY <1>1, <1>2, <1>3, <1>4, <1>5

LEMMA RegisterKeeps ==
    ASSUME AccountsInv, NEW e \in Emails, NEW p \in Passwords, NEW q \in Passwords,
           Register(e, p, q)
    PROVE  AccountsInv'
<1>1. RoleFor(e) \in Roles
  BY DEF RoleFor, Roles
<1>2. /\ Dated' /\ \A t \in tokens' : Backed(t)'
      /\ tokens' \in SUBSET Token
  BY <1>1, IssueKeeps DEF Register
<1>3. users' \in [Emails -> Account \cup {NoAccount}] /\ users'[e] \in Account
  BY <1>1 DEF AccountsInv, AccountsTypeOK, Register, Account
<1>4. Known'
  BY DEF AccountsInv, AccountsTypeOK, Known, Register
<1> QED
  BY <1>2, <1>3, <1>4 DEF AccountsInv, AccountsTypeOK, Register, process

LEMMA LoginReadKeeps ==
    ASSUME AccountsInv, NEW r \in Logins, NEW e \in Emails, NEW p \in Passwords,
           GetUserAuthByEmail(r, e, p)
    PROVE  AccountsInv'
<1>1. users[e] \in Account
  BY DEF AccountsInv, AccountsTypeOK, GetUserAuthByEmail
<1>2. [email |-> e, role |-> users[e].role] \in Login
  BY <1>1 DEF Account, Login
<1> QED
  BY <1>2 DEF AccountsInv, AccountsTypeOK, Dated, Backed, Known, GetUserAuthByEmail, process

\* What a login has read is an address and a role; the login is over then.
LEMMA LoginEnds ==
    ASSUME AccountsInv, NEW r \in Logins, login[r] # NoLogin, LoggedIn(r)
    PROVE  /\ login[r].email \in Emails /\ login[r].role \in Roles
           /\ users[login[r].email] \in Account
           /\ login' \in [Logins -> Login \cup {NoLogin}]
           /\ \A q \in Logins : login'[q] # NoLogin => login'[q] = login[q]
<1>1. login[r] \in Login
  BY DEF AccountsInv, AccountsTypeOK
<1> QED
  BY <1>1 DEF AccountsInv, AccountsTypeOK, Known, LoggedIn, Login

LEMMA KeepRoleKeeps ==
    ASSUME AccountsInv, NEW r \in Logins, KeepRole(r) PROVE AccountsInv'
<1>1. /\ login[r].email \in Emails /\ login[r].role \in Roles
      /\ login' \in [Logins -> Login \cup {NoLogin}]
      /\ \A q \in Logins : login'[q] # NoLogin => login'[q] = login[q]
  BY LoginEnds DEF KeepRole
<1>2. /\ Dated' /\ \A t \in tokens' : Backed(t)'
      /\ tokens' \in SUBSET Token
  BY <1>1, IssueKeeps DEF KeepRole
<1> QED
  BY <1>1, <1>2 DEF AccountsInv, AccountsTypeOK, Known, KeepRole, process

LEMMA UpdateKeeps ==
    ASSUME AccountsInv, NEW r \in Logins, UpdateUserRole(r) PROVE AccountsInv'
<1> DEFINE e == login[r].email
<1>1. /\ e \in Emails /\ users[e] \in Account
      /\ login' \in [Logins -> Login \cup {NoLogin}]
      /\ \A q \in Logins : login'[q] # NoLogin => login'[q] = login[q]
  BY LoginEnds DEF UpdateUserRole
<1>2. RoleFor(e) \in Roles
  BY DEF RoleFor, Roles
<1>3. /\ Dated' /\ \A t \in tokens' : Backed(t)'
      /\ tokens' \in SUBSET Token
  BY <1>1, <1>2, IssueKeeps DEF UpdateUserRole
<1>4. users' \in [Emails -> Account \cup {NoAccount}] /\ users'[e] \in Account
  BY <1>1, <1>2 DEF AccountsInv, AccountsTypeOK, UpdateUserRole, Account
<1>5. users'[e] # NoAccount /\ \A d \in Emails : d # e => users'[d] = users[d]
  BY <1>1, <1>4, AccountsConstants DEF AccountsInv, AccountsTypeOK, UpdateUserRole, Account, Roles
<1>6. Known'
  BY <1>1, <1>5 DEF AccountsInv, AccountsTypeOK, Known, Login
<1> QED
  BY <1>1, <1>3, <1>4, <1>6 DEF AccountsInv, AccountsTypeOK, UpdateUserRole, process

LEMMA UpdateFailsKeeps ==
    ASSUME AccountsInv, NEW r \in Logins, UpdateUserRoleFails(r) PROVE AccountsInv'
<1> DEFINE e == login[r].email
<1>1. /\ e \in Emails /\ login[r].role \in Roles
      /\ login' \in [Logins -> Login \cup {NoLogin}]
      /\ \A q \in Logins : login'[q] # NoLogin => login'[q] = login[q]
  BY LoginEnds DEF UpdateUserRoleFails
<1>2. /\ notDemoted \subseteq notDemoted' /\ notDemoted' \in SUBSET Emails
      /\ login[r].role = "user" \/ e \in notDemoted'
  BY <1>1 DEF AccountsInv, AccountsTypeOK, UpdateUserRoleFails, Roles
<1>3. /\ Dated' /\ \A t \in tokens' : Backed(t)'
      /\ tokens' \in SUBSET Token
  BY <1>1, <1>2, IssueKeeps DEF UpdateUserRoleFails
<1> QED
  BY <1>1, <1>2, <1>3 DEF AccountsInv, AccountsTypeOK, Known, UpdateUserRoleFails, process

LEMMA DiesKeeps ==
    ASSUME AccountsInv, NEW r \in Logins, LoginDies(r) PROVE AccountsInv'
<1>1. /\ login' \in [Logins -> Login \cup {NoLogin}]
      /\ \A q \in Logins : login'[q] # NoLogin => login'[q] = login[q]
  BY LoginEnds DEF LoginDies
<1> QED
  BY <1>1 DEF AccountsInv, AccountsTypeOK, Dated, Backed, Known, LoginDies, process

LEMMA AccountsStepKeeps == AccountsInv /\ [AccountsNext]_accountsVars => AccountsInv'
<1> SUFFICES ASSUME AccountsInv, [AccountsNext]_accountsVars PROVE AccountsInv'
  OBVIOUS
<1>1. CASE TimePasses
  BY <1>1, TimeKeeps
<1>2. CASE \E list \in SUBSET Emails : Restart(list)
  BY <1>2, RestartKeeps
<1>3. CASE \E e \in Emails, p, q \in Passwords : Register(e, p, q)
  BY <1>3, RegisterKeeps
<1>4. CASE \E r \in Logins, e \in Emails, p \in Passwords : GetUserAuthByEmail(r, e, p)
  BY <1>4, LoginReadKeeps
<1>5. CASE \E r \in Logins : KeepRole(r)
  BY <1>5, KeepRoleKeeps
<1>6. CASE \E r \in Logins : UpdateUserRole(r)
  BY <1>6, UpdateKeeps
<1>7. CASE \E r \in Logins : UpdateUserRoleFails(r)
  BY <1>7, UpdateFailsKeeps
<1>8. CASE \E r \in Logins : LoginDies(r)
  BY <1>8, DiesKeeps
<1>9. CASE UNCHANGED accountsVars
  BY <1>9 DEF accountsVars, AccountsInv, AccountsTypeOK, Dated, Backed, Known
<1> QED
  BY <1>1, <1>2, <1>3, <1>4, <1>5, <1>6, <1>7, <1>8, <1>9 DEF AccountsNext

-----------------------------------------------------------------------------
\* The process, the table, logins, tokens and history always hold values of
\* their types.
THEOREM AccountsTypeCorrect == AccountsSpec => []AccountsTypeOK
<1>1. AccountsInv => AccountsTypeOK
  BY DEF AccountsInv
<1> QED
  BY <1>1, AccountsInitHolds, AccountsStepKeeps, PTL DEF AccountsSpec

\* Nobody passes RequireAdmin a token's life after they were last on the list
\* of a running process, but for those the table refused to take a role from.
THEOREM RolesLapse == AccountsSpec => []AdminsLapse
<1>1. AccountsInv => AdminsLapse
  <2> SUFFICES ASSUME AccountsInv, NEW t \in tokens,
                      RequireAdmin(t), t.email \notin notDemoted
               PROVE  lastListed[t.email] >= 0 /\ time < lastListed[t.email] + JWTTTL
    BY DEF AdminsLapse
  <2>1. /\ t.role = "admin" /\ time < t.expires /\ t \in Token /\ Backed(t)
        /\ time \in Nat /\ JWTTTL \in Nat
        /\ lastListed \in [Emails -> Nat \cup {-1}]
    BY AccountsConstants DEF RequireAdmin, RequireAuth, AccountsInv, AccountsTypeOK
  <2>2. t.expires \in Nat /\ lastListed[t.email] \in Int
    BY <2>1 DEF Token
  <2> QED
    BY <2>1, <2>2 DEF Backed
<1> QED
  BY <1>1, AccountsInitHolds, AccountsStepKeeps, PTL DEF AccountsSpec

-----------------------------------------------------------------------------
(* Rankings: achievements are deserved, however old the rank they are given for,
   for any players, requests, scores and length of the board. *)

Earned(p, k) ==
    /\ k = "first_piece" => score[p] > 0
    /\ k = "speed_demon" => p \in solved \cap wasFast
    /\ k = "jigsaw_king" => p \in reigned

\* What a request is about to give was deserved when it read.
DueEarned ==
    \A r \in Readers : reading[r] # NoReading =>
        \A p \in Players, k \in Keys : <<p, k>> \in reading[r].due => Earned(p, k)

\* The history has everybody who is fast, or first, now.
HistoryIsFull ==
    /\ fast \subseteq solved \cap wasFast
    /\ Leaders(score) \subseteq reigned

RankingsInv ==
    /\ RankingsTypeOK
    /\ DueEarned
    /\ HistoryIsFull
    /\ \A p \in Players, k \in Keys : <<p, k>> \in achievements => Earned(p, k)

LEMMA RankingsInitHolds == RankingsInit => RankingsInv
<1> SUFFICES ASSUME RankingsInit PROVE RankingsInv
  OBVIOUS
<1>1. RankingsTypeOK
  BY RankingsConstants DEF RankingsInit, RankingsTypeOK
<1>2. DueEarned
  BY DEF RankingsInit, DueEarned
<1>3. HistoryIsFull
  BY DEF RankingsInit, HistoryIsFull, Leaders
<1> QED
  BY <1>1, <1>2, <1>3 DEF RankingsInit, RankingsInv

\* The rank of GetRank is 1 only for a player who leads, with a score.
LEMMA FirstRankLeads ==
    ASSUME RankingsTypeOK, NEW p \in Players, GetRank(p) = 1
    PROVE  p \in Leaders(score)
<1> DEFINE ahead == {q \in Players : score[q] > score[p]}
<1>1. score \in [Players -> Nat]
  BY RankingsConstants DEF RankingsTypeOK
<1>2. score[p] # 0 /\ 1 + Cardinality(ahead) = 1
  BY DEF GetRank
<1>3. IsFiniteSet(ahead)
  BY RankingsConstants, FS_Subset
<1>4. Cardinality(ahead) = 0
  BY <1>2, <1>3, FS_CardinalityType
<1>5. ahead = {}
  BY <1>3, <1>4, FS_EmptySet
<1> QED
  BY <1>1, <1>2, <1>5 DEF Leaders

\* So is the first of the leaderboard, if it has a score.
LEMMA TopLeads ==
    ASSUME RankingsTypeOK, NEW p \in Players, Place(p) = 1, score[p] > 0
    PROVE  p \in Leaders(score)
<1> DEFINE ahead == {q \in Players : Before(q, p)}
<1>1. score \in [Players -> Nat]
  BY RankingsConstants DEF RankingsTypeOK
<1>2. IsFiniteSet(ahead)
  BY RankingsConstants, FS_Subset
<1>3. Cardinality(ahead) = 0
  BY <1>2, FS_CardinalityType DEF Place
<1>4. ahead = {}
  BY <1>2, <1>3, FS_EmptySet
<1> QED
  BY <1>1, <1>4 DEF Leaders, Before

LEMMA FinishKeeps ==
    ASSUME RankingsInv, NEW p \in Players, NEW pieces \in 0 .. MaxScore,
           NEW completed \in BOOLEAN, NEW quick \in BOOLEAN,
           FinishResult(p, pieces, completed, quick)
    PROVE  RankingsInv'
<1>1. RankingsTypeOK /\ MaxScore \in Nat
  BY RankingsConstants DEF RankingsInv
<1>2. /\ score' = [score EXCEPT ![p] = @ + pieces] /\ score[p] + pieces <= MaxScore
      /\ solved' = IF completed THEN solved \cup {p} ELSE solved
      /\ fast' = IF quick THEN fast \cup {p} ELSE fast
      /\ quick => completed
      /\ reigned' = reigned \cup Leaders(score')
      /\ wasFast' = wasFast \cup fast'
      /\ achievements' = achievements /\ reading' = reading
  BY DEF FinishResult
<1>3. \A q \in Players : /\ score'[q] \in 0 .. MaxScore /\ score'[q] >= score[q]
                         /\ score[q] \in Nat
  BY <1>1, <1>2 DEF RankingsTypeOK
<1>4. score' \in [Players -> 0 .. MaxScore]
  BY <1>1, <1>2, <1>3 DEF RankingsTypeOK
<1>5. /\ solved \subseteq solved' /\ solved' \subseteq Players
      /\ fast' \subseteq solved' /\ wasFast' \subseteq Players
  BY <1>1, <1>2 DEF RankingsTypeOK
<1>6. RankingsTypeOK'
  BY <1>1, <1>2, <1>4, <1>5 DEF RankingsTypeOK, Leaders
<1>7. \A q \in Players, k \in Keys : Earned(q, k) => Earned(q, k)'
  BY <1>2, <1>3, <1>5 DEF Earned
<1>8. DueEarned'
  BY <1>2, <1>7 DEF RankingsInv, DueEarned
<1>9. HistoryIsFull'
  BY <1>2, <1>5 DEF HistoryIsFull
<1> QED
  BY <1>2, <1>6, <1>7, <1>8, <1>9 DEF RankingsInv

LEMMA EditKeeps ==
    ASSUME RankingsInv, NEW players \in SUBSET solved, EditSeconds(players)
    PROVE  RankingsInv'
<1>1. /\ fast' \subseteq fast \cup players /\ wasFast' = wasFast \cup fast'
      /\ UNCHANGED <<score, solved, achievements, reading, reigned>>
  BY DEF EditSeconds
<1>2. fast' \subseteq solved' /\ wasFast' \subseteq Players
  BY <1>1 DEF RankingsInv, RankingsTypeOK
<1>3. HistoryIsFull'
  BY <1>1, <1>2 DEF RankingsInv, HistoryIsFull, Leaders
<1>4. RankingsTypeOK'
  BY <1>1, <1>2 DEF RankingsInv, RankingsTypeOK
<1>5. \A q \in Players, k \in Keys : Earned(q, k) => Earned(q, k)'
  BY <1>1 DEF Earned
<1>6. DueEarned'
  BY <1>1, <1>5 DEF RankingsInv, DueEarned
<1> QED
  BY <1>1, <1>3, <1>4, <1>5, <1>6 DEF RankingsInv

\* A request that reads keeps the rest, and has read what is deserved.
LEMMA StatsReadKeeps ==
    ASSUME RankingsInv, NEW r \in Readers, UNCHANGED <<truth, achievements>>,
           NEW new \in Reading \cup {NoReading}, reading' = [reading EXCEPT ![r] = new],
           new # NoReading => \A p \in Players, k \in Keys :
                                  <<p, k>> \in new.due => Earned(p, k)
    PROVE  RankingsInv'
<1>1. /\ score' = score /\ solved' = solved /\ fast' = fast
      /\ reigned' = reigned /\ wasFast' = wasFast
      /\ achievements' = achievements
  BY DEF truth
<1>2. /\ reading \in [Readers -> Reading \cup {NoReading}]
      /\ reading' \in [Readers -> Reading \cup {NoReading}]
      /\ \A s \in Readers : reading'[s] = IF s = r THEN new ELSE reading[s]
  BY DEF RankingsInv, RankingsTypeOK
<1>3. \A p \in Players, k \in Keys : Earned(p, k)' <=> Earned(p, k)
  BY <1>1 DEF Earned
<1>4. DueEarned'
  BY <1>2, <1>3 DEF RankingsInv, DueEarned
<1> QED
  BY <1>1, <1>2, <1>3, <1>4 DEF RankingsInv, RankingsTypeOK, HistoryIsFull, Leaders

LEMMA StatsKeeps ==
    ASSUME RankingsInv, NEW r \in Readers, NEW p \in Players, GetAggregateStats(r, p)
    PROVE  RankingsInv'
<1> DEFINE due == (IF score[p] > 0 THEN {<<p, "first_piece">>} ELSE {})
                      \cup (IF p \in fast THEN {<<p, "speed_demon">>} ELSE {})
           new == [page |-> "stats", me |-> p, step |-> "rank", due |-> due]
<1>1. new \in Reading
  BY DEF Reading, Keys
<1>2. \A q \in Players, k \in Keys : <<q, k>> \in due => Earned(q, k)
  BY DEF RankingsInv, HistoryIsFull, Earned
<1>3. reading' = [reading EXCEPT ![r] = new] /\ UNCHANGED <<truth, achievements>>
  BY DEF GetAggregateStats, Read
<1> HIDE DEF due
<1> QED
  BY <1>1, <1>2, <1>3, StatsReadKeeps

LEMMA RankKeeps ==
    ASSUME RankingsInv, NEW r \in Readers, RankOfMine(r) PROVE RankingsInv'
<1> DEFINE p   == reading[r].me
           due == reading[r].due
                      \cup (IF GetRank(p) = 1 THEN {<<p, "jigsaw_king">>} ELSE {})
           new == [page |-> "stats", me |-> p, step |-> "award", due |-> due]
<1>1. /\ reading[r] # NoReading /\ reading[r] \in Reading
      /\ reading' = [reading EXCEPT ![r] = new] /\ UNCHANGED <<truth, achievements>>
  BY DEF RankOfMine, Read, RankingsInv, RankingsTypeOK
<1>2. p \in Players /\ reading[r].due \in SUBSET (Players \X Keys)
  BY <1>1 DEF Reading
<1>3. new \in Reading
  BY <1>2 DEF Reading, Keys
<1>4. \A q \in Players, k \in Keys : <<q, k>> \in due => Earned(q, k)
  <2>1. \A q \in Players, k \in Keys : <<q, k>> \in reading[r].due => Earned(q, k)
    BY <1>1 DEF RankingsInv, DueEarned
  <2>2. GetRank(p) = 1 => p \in reigned
    BY <1>2, FirstRankLeads DEF RankingsInv, HistoryIsFull
  <2> QED
    BY <2>1, <2>2 DEF Earned
<1> HIDE DEF due
<1> QED
  BY <1>1, <1>3, <1>4, StatsReadKeeps

LEMMA BoardKeeps ==
    ASSUME RankingsInv, NEW r \in Readers, NEW p \in Players, ReadLeaderboard(r, p)
    PROVE  RankingsInv'
<1> DEFINE due == King(GetLeaderboard)
           new == [page |-> "board", me |-> p, step |-> "award", due |-> due]
<1>1. /\ reading' = [reading EXCEPT ![r] = new] /\ UNCHANGED <<truth, achievements>>
  BY DEF ReadLeaderboard, Read
<1>2. due \in SUBSET (Players \X Keys)
  BY DEF King, GetLeaderboard, Keys
<1>3. new \in Reading
  BY <1>2 DEF Reading
<1>4. \A q \in Players, k \in Keys : <<q, k>> \in due => Earned(q, k)
  <2> SUFFICES ASSUME NEW q \in Players, NEW k \in Keys, <<q, k>> \in due
               PROVE  Earned(q, k)
    OBVIOUS
  <2>1. k = "jigsaw_king" /\ Place(q) = 1 /\ score[q] > 0
    BY DEF King
  <2>2. q \in reigned
    BY <2>1, TopLeads DEF RankingsInv, HistoryIsFull
  <2> QED
    BY <2>1, <2>2 DEF Earned
<1> HIDE DEF due
<1> QED
  BY <1>1, <1>3, <1>4, StatsReadKeeps

LEMMA AwardKeeps ==
    ASSUME RankingsInv, NEW r \in Readers, NEW award \in Players \X Keys,
           AwardAchievement(r, award)
    PROVE  RankingsInv'
<1>1. PICK p \in Players, k \in Keys : award = <<p, k>>
  OBVIOUS
<1>2. /\ reading[r] # NoReading /\ award \in reading[r].due
      /\ reading' = [reading EXCEPT ![r].due = @ \ {award}]
      /\ achievements' \in {achievements, achievements \cup {award}}
      /\ score' = score /\ solved' = solved /\ fast' = fast
      /\ reigned' = reigned /\ wasFast' = wasFast
  BY DEF AwardAchievement, truth
<1>3. Earned(p, k)
  BY <1>1, <1>2 DEF RankingsInv, DueEarned
<1>4. /\ reading \in [Readers -> Reading \cup {NoReading}] /\ reading[r] \in Reading
  BY <1>2 DEF RankingsInv, RankingsTypeOK
<1>5. [reading[r] EXCEPT !.due = @ \ {award}] \in Reading
  BY <1>4 DEF Reading
<1>6. /\ reading' \in [Readers -> Reading \cup {NoReading}]
      /\ \A s \in Readers : s # r => reading'[s] = reading[s]
      /\ reading'[r].due \subseteq reading[r].due
  BY <1>2, <1>4, <1>5 DEF Reading
<1>7. \A q \in Players, j \in Keys : Earned(q, j)' <=> Earned(q, j)
  BY <1>2 DEF Earned
<1>8. RankingsTypeOK'
  BY <1>2, <1>6 DEF RankingsInv, RankingsTypeOK
<1>9. DueEarned'
  BY <1>2, <1>6, <1>7 DEF RankingsInv, DueEarned
<1>10. HistoryIsFull'
  BY <1>2 DEF RankingsInv, HistoryIsFull, Leaders
<1>11. \A q \in Players, j \in Keys : <<q, j>> \in achievements' => Earned(q, j)'
  BY <1>1, <1>2, <1>3, <1>7 DEF RankingsInv
<1> QED
  BY <1>8, <1>9, <1>10, <1>11 DEF RankingsInv

LEMMA RankingsStepKeeps == RankingsInv /\ [RankingsNext]_rankingsVars => RankingsInv'
<1> SUFFICES ASSUME RankingsInv, [RankingsNext]_rankingsVars PROVE RankingsInv'
  OBVIOUS
<1>1. CASE \E p \in Players, pieces \in 0 .. MaxScore, completed, quick \in BOOLEAN :
               FinishResult(p, pieces, completed, quick)
  BY <1>1, FinishKeeps
<1>2. CASE \E players \in SUBSET solved : EditSeconds(players)
  BY <1>2, EditKeeps
<1>3. CASE \E r \in Readers, p \in Players : GetAggregateStats(r, p)
  BY <1>3, StatsKeeps
<1>4. CASE \E r \in Readers, p \in Players : ReadLeaderboard(r, p)
  BY <1>4, BoardKeeps
<1>5. CASE \E r \in Readers : RankOfMine(r)
  BY <1>5, RankKeeps
<1>6. CASE \E r \in Readers : Answer(r)
  <2>1. PICK r \in Readers : Answer(r)
    BY <1>6
  <2>2. reading' = [reading EXCEPT ![r] = NoReading] /\ UNCHANGED <<truth, achievements>>
    BY <2>1 DEF Answer
  <2> QED
    BY <2>2, StatsReadKeeps
<1>7. CASE \E r \in Readers, award \in Players \X Keys : AwardAchievement(r, award)
  BY <1>7, AwardKeeps
<1>8. CASE UNCHANGED rankingsVars
  BY <1>8 DEF rankingsVars, RankingsInv, RankingsTypeOK, DueEarned, HistoryIsFull, Leaders, Earned
<1> QED
  BY <1>1, <1>2, <1>3, <1>4, <1>5, <1>6, <1>7, <1>8 DEF RankingsNext

-----------------------------------------------------------------------------
\* Scores, achievements, requests and history always hold values of their types.
THEOREM RankingsTypeCorrect == RankingsSpec => []RankingsTypeOK
<1>1. RankingsInv => RankingsTypeOK
  BY DEF RankingsInv
<1> QED
  BY <1>1, RankingsInitHolds, RankingsStepKeeps, PTL DEF RankingsSpec

\* Whatever is read late, given late or given again: an achievement there is
\* was deserved at some time, a speed_demon by the seconds its challenge had then.
THEOREM AwardsWereDeserved == RankingsSpec => []AchievementsWereEarned
<1>1. RankingsInv => AchievementsWereEarned
  BY DEF RankingsInv, AchievementsWereEarned, Earned, Keys
<1> QED
  BY <1>1, RankingsInitHolds, RankingsStepKeeps, PTL DEF RankingsSpec

-----------------------------------------------------------------------------
(* The library: what is stored and what has a row, for any batches, uploads *)
(* and limits; then the reader who leafs through a list that changes        *)

ShelvesTyped ==
    /\ stored \in 0 .. MaxFiles
    /\ images \in Seq(Image)
    /\ collection \in Seq(1 .. MaxFiles)
    /\ upload \in [Uploads -> Upload \cup {NoUpload}]
    /\ orphaned \in Nat

\* Each row has a file of its own, and so will have each that is being saved.
RowsHaveFiles ==
    /\ \A i \in Ids : images[i].file \in 1 .. stored
    /\ \A i, j \in Ids : images[i].file = images[j].file => i = j

SavesHaveFiles ==
    \A u \in Uploads : At(u, "save") =>
        /\ upload[u].item \in 1 .. stored
        /\ \A i \in Ids : images[i].file # upload[u].item
        /\ \A v \in Uploads : At(v, "save") /\ upload[v].item = upload[u].item => v = u

AddsHaveRows == \A u \in Uploads : At(u, "add") => upload[u].item \in Ids

Accounted ==
    IsFiniteSet(BeingSaved) /\ stored = Len(images) + orphaned + Cardinality(BeingSaved)

Collected == ToSet(collection) \subseteq Ids /\ IsInjective(collection)

ShelvesInv ==
    ShelvesTyped /\ RowsHaveFiles /\ SavesHaveFiles /\ AddsHaveRows /\ Accounted /\ Collected

LEMMA LibrarySizes ==
    ASSUME ShelvesInv
    PROVE  /\ Len(images) \in Nat /\ Ids = 1 .. Len(images) /\ Len(images) <= stored
           /\ stored <= MaxFiles /\ stored \in Nat /\ MaxFiles \in Nat
           /\ orphaned \in Nat /\ Cardinality(BeingSaved) \in Nat
           /\ Ids \subseteq 1 .. MaxFiles
<1>1. Len(images) \in Nat /\ Ids = 1 .. Len(images) /\ stored \in 0 .. MaxFiles
      /\ orphaned \in Nat
  BY DEF ShelvesInv, ShelvesTyped, Ids
<1>2. MaxFiles \in Nat
  BY LibraryConstants
<1>3. Cardinality(BeingSaved) \in Nat
  BY FS_CardinalityType DEF ShelvesInv, Accounted
<1>4. stored = Len(images) + orphaned + Cardinality(BeingSaved)
  BY DEF ShelvesInv, Accounted
<1> QED
  BY <1>1, <1>2, <1>3, <1>4

\* What one request's step makes of it, when it is e.
Makes(u, e) ==
    /\ upload' \in [Uploads -> Upload \cup {NoUpload}]
    /\ upload'[u] = e
    /\ \A v \in Uploads : v # u => upload'[v] = upload[v]

LEMMA MakesOne ==
    ASSUME ShelvesTyped, NEW u \in Uploads, NEW e \in Upload \cup {NoUpload},
           upload' = [upload EXCEPT ![u] = e]
    PROVE  Makes(u, e)
  BY DEF ShelvesTyped, Makes

\* Who is saving, then.
LEMMA SavingIs ==
    ASSUME ShelvesInv, NEW u \in Uploads, NEW e, Makes(u, e)
    PROVE  /\ e # NoUpload /\ e.step = "save" => BeingSaved' = BeingSaved \cup {u}
           /\ ~(e # NoUpload /\ e.step = "save") => BeingSaved' = BeingSaved \ {u}
           /\ IsFiniteSet(BeingSaved)' /\ Cardinality(BeingSaved)' \in Nat
           /\ u \in BeingSaved <=> At(u, "save")
           /\ Cardinality(BeingSaved \cup {u}) =
                  IF At(u, "save") THEN Cardinality(BeingSaved)
                  ELSE Cardinality(BeingSaved) + 1
           /\ Cardinality(BeingSaved \ {u}) =
                  IF At(u, "save") THEN Cardinality(BeingSaved) - 1
                  ELSE Cardinality(BeingSaved)
<1>1. e # NoUpload /\ e.step = "save" => BeingSaved' = BeingSaved \cup {u}
  BY DEF Makes, BeingSaved, At
<1>2. ~(e # NoUpload /\ e.step = "save") => BeingSaved' = BeingSaved \ {u}
  BY DEF Makes, BeingSaved, At
<1>3. IsFiniteSet(BeingSaved)
  BY DEF ShelvesInv, Accounted
<1>4. u \in BeingSaved <=> At(u, "save")
  BY DEF BeingSaved
<1>5. /\ IsFiniteSet(BeingSaved \cup {u}) /\ IsFiniteSet(BeingSaved \ {u})
      /\ Cardinality(BeingSaved \cup {u}) =
             IF u \in BeingSaved THEN Cardinality(BeingSaved) ELSE Cardinality(BeingSaved) + 1
      /\ Cardinality(BeingSaved \ {u}) =
             IF u \in BeingSaved THEN Cardinality(BeingSaved) - 1 ELSE Cardinality(BeingSaved)
  BY <1>3, FS_AddElement, FS_RemoveElement
<1>6. IsFiniteSet(BeingSaved)' /\ Cardinality(BeingSaved)' \in Nat
  BY <1>1, <1>2, <1>5, FS_CardinalityType
<1> QED
  BY <1>1, <1>2, <1>4, <1>5, <1>6

LEMMA UploadIs ==
    ASSUME ShelvesTyped, NEW u \in Uploads, upload[u] # NoUpload
    PROVE  /\ upload[u] \in Upload /\ upload[u].purpose \in Purposes /\ upload[u].left \in Nat
           /\ upload[u].step \in {"store", "save", "add"} /\ upload[u].item \in 0 .. MaxFiles
  BY DEF ShelvesTyped, Upload

LEMMA Moved ==
    ASSUME NEW r \in Upload, NEW step \in {"store", "save", "add"}, NEW item \in 0 .. MaxFiles
    PROVE  LET e == [r EXCEPT !.step = step, !.item = item]
           IN  e \in Upload /\ e.step = step /\ e.item = item
<1> DEFINE e == [r EXCEPT !.step = step, !.item = item]
<1>1. e \in Upload
  BY DEF Upload
<1>2. e.step = step /\ e.item = item
  BY DEF Upload
<1> QED
  BY <1>1, <1>2

LEMMA NextFileIs ==
    ASSUME ShelvesTyped, NEW u \in Uploads, upload[u] # NoUpload, NextFile(u)
    PROVE  \E e \in Upload \cup {NoUpload} : Makes(u, e) /\ (e # NoUpload => e.step = "store")
<1> DEFINE next == [upload[u] EXCEPT !.left = upload[u].left - 1, !.step = "store", !.item = 0]
           e == IF upload[u].left > 1 THEN next ELSE NoUpload
<1>1. upload[u] \in Upload /\ upload[u].left \in Nat
  BY UploadIs
<1>2. ASSUME upload[u].left > 1 PROVE next \in Upload /\ next.step = "store"
  <2>l. upload[u].left - 1 \in Nat
    BY <1>1, <1>2
  <2>w. PICK r \in Upload, left \in Nat : r = upload[u] /\ left = upload[u].left - 1
    BY <1>1, <2>l, Zenon
  <2>1. 0 \in 0 .. MaxFiles
    BY LibraryConstants
  <2>2. next = [r EXCEPT !.left = left, !.step = "store", !.item = 0]
    BY <2>w
  <2>3. [r EXCEPT !.left = left, !.step = "store", !.item = 0] \in Upload
    BY <2>1 DEF Upload
  <2>4. [r EXCEPT !.left = left, !.step = "store", !.item = 0].step = "store"
    BY DEF Upload
  <2> QED
    BY <2>2, <2>3, <2>4, Zenon
<1>3. upload' = [upload EXCEPT ![u] = e]
  BY DEF NextFile
<1> HIDE DEF next
<1>4. e \in Upload \cup {NoUpload} /\ (e # NoUpload => e.step = "store")
  BY <1>2
<1> HIDE DEF e
<1> QED
  BY <1>3, <1>4, MakesOne

\* A request that leaves the files and their rows alone: it saves nothing now,
\* and had lost nothing, or what it has lost is counted.
LEMMA RequestMoves ==
    ASSUME ShelvesInv, UNCHANGED <<stored, images>>,
           collection' \in Seq(1 .. MaxFiles), Collected', NEW u \in Uploads,
           NEW e \in Upload \cup {NoUpload}, Makes(u, e),
           e # NoUpload => e.step = "store" \/ (e.step = "add" /\ e.item \in Ids),
           orphaned' = IF At(u, "save") THEN orphaned + 1 ELSE orphaned
    PROVE  ShelvesInv'
<1>1. UNCHANGED <<stored, images>> /\ Ids' = Ids
  BY DEF Ids
<1>2. ShelvesTyped'
  BY <1>1 DEF ShelvesInv, ShelvesTyped, Makes
<1>3. \A v \in Uploads, step \in {"save", "add"} :
          At(v, step)' /\ (step = "save" \/ v # u) =>
              v # u /\ At(v, step) /\ upload'[v] = upload[v]
  BY DEF Makes, At
<1>4. RowsHaveFiles'
  BY <1>1 DEF ShelvesInv, RowsHaveFiles
<1>5. SavesHaveFiles'
  BY <1>1, <1>3 DEF ShelvesInv, SavesHaveFiles
<1>6. AddsHaveRows'
  BY <1>1, <1>3 DEF ShelvesInv, AddsHaveRows, Makes, At
<1>7. Accounted'
  <2>1. BeingSaved' = BeingSaved \ {u} /\ IsFiniteSet(BeingSaved)'
        /\ Cardinality(BeingSaved \ {u}) =
               IF At(u, "save") THEN Cardinality(BeingSaved) - 1
               ELSE Cardinality(BeingSaved)
    BY SavingIs
  <2>2. stored = Len(images) + orphaned + Cardinality(BeingSaved)
    BY DEF ShelvesInv, Accounted
  <2>3. stored' = Len(images)' + orphaned' + Cardinality(BeingSaved \ {u})
    BY <1>1, <2>1, <2>2, LibrarySizes
  <2> QED
    BY <2>1, <2>3 DEF Accounted
<1> QED
  BY <1>2, <1>4, <1>5, <1>6, <1>7 DEF ShelvesInv

LEMMA RequestKeeps ==
    ASSUME ShelvesInv, NEW u \in Uploads,
           \/ \E purpose \in Purposes, n \in BatchSizes : Bring(u, purpose, n)
           \/ FileFails(u) \/ CreateImageFails(u) \/ UploadDies(u)
           \/ \E i \in Ids : PickImage(u, i)
    PROVE  ShelvesInv'
<1>0. ShelvesTyped /\ MaxFiles \in Nat /\ Ids \subseteq 1 .. MaxFiles
  BY LibrarySizes DEF ShelvesInv
<1>s. UNCHANGED shelves
  BY DEF Bring, FileFails, CreateImageFails, UploadDies, PickImage
<1>c. UNCHANGED <<stored, images>> /\ collection' \in Seq(1 .. MaxFiles) /\ Collected'
  BY <1>s DEF shelves, ShelvesInv, ShelvesTyped, Collected, Ids
<1>1. ASSUME NEW purpose \in Purposes, NEW n \in BatchSizes, Bring(u, purpose, n)
      PROVE  ShelvesInv'
  <2> DEFINE e == [purpose |-> purpose, left |-> n, step |-> "store", item |-> 0]
  <2>1. e \in Upload /\ e.step = "store"
    BY <1>0, LibraryConstants DEF Upload
  <2>2. upload' = [upload EXCEPT ![u] = e] /\ orphaned' = orphaned
        /\ ~At(u, "save")
    BY <1>1 DEF Bring, At
  <2> HIDE DEF e
  <2>3. Makes(u, e)
    BY <1>0, <2>1, <2>2, MakesOne
  <2> QED
    BY <2>1, <2>2, <2>3, <1>c, RequestMoves
<1>2. ASSUME NEW i \in Ids, PickImage(u, i)
      PROVE  ShelvesInv'
  <2> DEFINE e == [purpose |-> "collection", left |-> 1, step |-> "add", item |-> i]
  <2>1. e \in Upload /\ e.step = "add" /\ e.item = i
    BY <1>0 DEF Upload, Purposes
  <2>2. upload' = [upload EXCEPT ![u] = e] /\ orphaned' = orphaned
        /\ ~At(u, "save")
    BY <1>2 DEF PickImage, At
  <2> HIDE DEF e
  <2>3. Makes(u, e)
    BY <1>0, <2>1, <2>2, MakesOne
  <2> QED
    BY <2>1, <2>2, <2>3, <1>c, RequestMoves
<1>3. CASE FileFails(u)
  <2>1. upload[u] # NoUpload /\ NextFile(u) /\ ~At(u, "save") /\ orphaned' = orphaned
    BY <1>3 DEF FileFails, At
  <2>2. PICK e \in Upload \cup {NoUpload} : Makes(u, e) /\ (e # NoUpload => e.step = "store")
    BY <1>0, <2>1, NextFileIs
  <2> QED
    BY <2>1, <2>2, <1>c, RequestMoves
<1>4. CASE CreateImageFails(u)
  <2>1. /\ upload[u] # NoUpload /\ NextFile(u) /\ At(u, "save")
        /\ orphaned' = orphaned + 1
    BY <1>4 DEF CreateImageFails, At
  <2>2. PICK e \in Upload \cup {NoUpload} : Makes(u, e) /\ (e # NoUpload => e.step = "store")
    BY <1>0, <2>1, NextFileIs
  <2> QED
    BY <2>1, <2>2, <1>c, RequestMoves
<1>5. CASE UploadDies(u)
  <2>1. /\ upload' = [upload EXCEPT ![u] = NoUpload]
        /\ orphaned' = IF At(u, "save") THEN orphaned + 1 ELSE orphaned
    BY <1>5 DEF UploadDies, StopsAt, At
  <2>2. Makes(u, NoUpload)
    BY <1>0, <2>1, MakesOne
  <2> QED
    BY <2>1, <2>2, <1>c, RequestMoves
<1> QED
  BY <1>1, <1>2, <1>3, <1>4, <1>5

LEMMA StoreKeeps ==
    ASSUME ShelvesInv, NEW u \in Uploads, StoreFile(u)
    PROVE  ShelvesInv'
<1>0. /\ ShelvesTyped /\ stored \in Nat /\ MaxFiles \in Nat /\ stored < MaxFiles
      /\ stored' = stored + 1
      /\ Ids' = Ids /\ UNCHANGED <<images, collection, orphaned>>
      /\ upload[u] # NoUpload /\ ~At(u, "save")
  BY LibrarySizes DEF StoreFile, ShelvesInv, At, Ids
<1> DEFINE e == [upload[u] EXCEPT !.step = "save", !.item = stored + 1]
<1>1. e \in Upload /\ e # NoUpload /\ e.step = "save" /\ e.item = stored + 1
  <2>1. upload[u] \in Upload
    BY <1>0, UploadIs
  <2>2. stored + 1 \in 0 .. MaxFiles
    BY <1>0
  <2>3. e \in Upload /\ e.step = "save" /\ e.item = stored + 1
    BY <2>1, <2>2, Moved
  <2> HIDE DEF e
  <2> QED
    BY <2>3, NothingElse
<1>2. upload' = [upload EXCEPT ![u] = e]
  BY <1>0 DEF StoreFile, ShelvesTyped
<1> HIDE DEF e
<1>3. Makes(u, e)
  BY <1>0, <1>1, <1>2, MakesOne
<1>4. ShelvesTyped'
  BY <1>0, <1>3 DEF ShelvesTyped, Makes
<1>5. RowsHaveFiles' /\ Collected'
  BY <1>0 DEF ShelvesInv, RowsHaveFiles, Collected
<1>6. \A v \in Uploads, step \in {"save", "add"} :
          At(v, step)' => \/ v # u /\ At(v, step) /\ upload'[v] = upload[v]
                          \/ v = u /\ step = "save" /\ upload'[v].item = stored + 1
  BY <1>1, <1>3 DEF Makes, At
<1>7. \A i \in Ids : images[i].file \in 1 .. stored
  BY DEF ShelvesInv, RowsHaveFiles
<1>8. \A v \in Uploads : At(v, "save") => upload[v].item \in 1 .. stored
  BY DEF ShelvesInv, SavesHaveFiles
<1>9. SavesHaveFiles'
  <2> SUFFICES ASSUME NEW v \in Uploads, At(v, "save")'
               PROVE  /\ upload'[v].item \in 1 .. stored + 1
                      /\ \A i \in Ids : images[i].file # upload'[v].item
                      /\ \A w \in Uploads : At(w, "save")' /\ upload'[w].item = upload'[v].item
                                                => w = v
    BY <1>0 DEF SavesHaveFiles
  <2>1. CASE v = u
    <3>1. upload'[v].item = stored + 1
      BY <1>6, <2>1
    <3>2. \A i \in Ids : images[i].file # stored + 1
      BY <1>0, <1>7
    <3>3. \A w \in Uploads : At(w, "save") => upload[w].item # stored + 1
      BY <1>0, <1>8
    <3> QED
      BY <1>0, <1>6, <2>1, <3>1, <3>2, <3>3
  <2>2. CASE v # u
    <3>1. At(v, "save") /\ upload'[v] = upload[v]
      BY <1>6, <2>2
    <3>2. /\ upload[v].item \in 1 .. stored
          /\ \A i \in Ids : images[i].file # upload[v].item
          /\ \A w \in Uploads : At(w, "save") /\ upload[w].item = upload[v].item => w = v
      BY <3>1 DEF ShelvesInv, SavesHaveFiles
    <3>3. upload[v].item # stored + 1 /\ upload[v].item \in 1 .. stored + 1
      BY <1>0, <3>2
    <3> QED
      BY <1>6, <3>1, <3>2, <3>3
  <2> QED
    BY <2>1, <2>2
<1>10. AddsHaveRows'
  BY <1>0, <1>6 DEF ShelvesInv, AddsHaveRows
<1>11. Accounted'
  <2>1. BeingSaved' = BeingSaved \cup {u} /\ IsFiniteSet(BeingSaved)'
        /\ Cardinality(BeingSaved \cup {u}) = Cardinality(BeingSaved) + 1
    BY <1>0, <1>1, <1>3, SavingIs
  <2>2. stored = Len(images) + orphaned + Cardinality(BeingSaved)
    BY DEF ShelvesInv, Accounted
  <2>3. stored' = Len(images)' + orphaned' + Cardinality(BeingSaved \cup {u})
    BY <1>0, <2>1, <2>2, LibrarySizes
  <2> QED
    BY <2>1, <2>3 DEF Accounted
<1> QED
  BY <1>4, <1>5, <1>9, <1>10, <1>11 DEF ShelvesInv

\* A file that storage has and nobody knows of is counted as lost at once.
LEMMA LostFileKeeps ==
    ASSUME ShelvesInv, NEW u \in Uploads, StoredUnknown(u)
    PROVE  ShelvesInv'
<1>0. /\ ShelvesTyped /\ stored \in Nat /\ MaxFiles \in Nat /\ stored < MaxFiles
      /\ stored' = stored + 1 /\ orphaned' = orphaned + 1
      /\ Ids' = Ids /\ UNCHANGED <<images, collection>>
      /\ upload[u] # NoUpload /\ ~At(u, "save") /\ NextFile(u)
  BY LibrarySizes DEF StoredUnknown, ShelvesInv, At, Ids
<1>1. PICK e \in Upload \cup {NoUpload} : Makes(u, e) /\ (e # NoUpload => e.step = "store")
  BY <1>0, NextFileIs
<1>2. ShelvesTyped'
  <2>1. stored' \in 0 .. MaxFiles /\ orphaned' \in Nat
    BY <1>0, LibrarySizes
  <2> QED
    BY <1>0, <1>1, <2>1 DEF ShelvesTyped, Makes
<1>3. RowsHaveFiles' /\ Collected'
  <2>1. 1 .. stored \subseteq 1 .. stored'
    BY <1>0
  <2> QED
    BY <1>0, <2>1 DEF ShelvesInv, RowsHaveFiles, Collected
<1>4. \A v \in Uploads, step \in {"save", "add"} :
          At(v, step)' => v # u /\ At(v, step) /\ upload'[v] = upload[v]
  BY <1>1 DEF Makes, At
<1>5. SavesHaveFiles'
  <2> SUFFICES ASSUME NEW v \in Uploads, At(v, "save")'
               PROVE  /\ upload'[v].item \in 1 .. stored'
                      /\ \A i \in Ids : images[i].file # upload'[v].item
                      /\ \A w \in Uploads : At(w, "save")' /\ upload'[w].item = upload'[v].item
                                                => w = v
    BY <1>0 DEF SavesHaveFiles
  <2>1. At(v, "save") /\ upload'[v] = upload[v]
    BY <1>4
  <2>2. /\ upload[v].item \in 1 .. stored
        /\ \A i \in Ids : images[i].file # upload[v].item
        /\ \A w \in Uploads : At(w, "save") /\ upload[w].item = upload[v].item => w = v
    BY <2>1 DEF ShelvesInv, SavesHaveFiles
  <2>3. upload[v].item \in 1 .. stored'
    BY <1>0, <2>2
  <2> QED
    BY <1>4, <2>1, <2>2, <2>3
<1>6. AddsHaveRows'
  BY <1>0, <1>4 DEF ShelvesInv, AddsHaveRows
<1>7. Accounted'
  <2>1. BeingSaved' = BeingSaved \ {u} /\ IsFiniteSet(BeingSaved)'
        /\ Cardinality(BeingSaved \ {u}) = Cardinality(BeingSaved)
    BY <1>0, <1>1, SavingIs
  <2>2. stored = Len(images) + orphaned + Cardinality(BeingSaved)
    BY DEF ShelvesInv, Accounted
  <2>3. stored' = Len(images)' + orphaned' + Cardinality(BeingSaved \ {u})
    BY <1>0, <2>1, <2>2, LibrarySizes, SMTT(30)
  <2> QED
    BY <2>1, <2>3 DEF Accounted
<1> QED
  BY <1>2, <1>3, <1>5, <1>6, <1>7 DEF ShelvesInv

LEMMA SaveKeeps ==
    ASSUME ShelvesInv, NEW u \in Uploads, NEW matches \in BOOLEAN, CreateImage(u, matches)
    PROVE  ShelvesInv'
<1> DEFINE n == Len(images)
           image == [file    |-> upload[u].item,
                     library |-> upload[u].purpose = "library",
                     matches |-> matches]
<1>0. /\ ShelvesTyped /\ stored' = stored /\ UNCHANGED <<collection, orphaned>>
      /\ images' = Append(images, image)
      /\ upload[u] # NoUpload /\ At(u, "save")
  BY DEF CreateImage, ShelvesInv, At
<1>1. upload[u] \in Upload /\ upload[u].item \in 1 .. stored
  BY <1>0, UploadIs DEF ShelvesInv, SavesHaveFiles
<1>2. image \in Image /\ image.file = upload[u].item
  <2>1. upload[u].item \in 1 .. MaxFiles
    BY <1>1, LibrarySizes
  <2> QED
    BY <2>1 DEF Image
<1> HIDE DEF image
<1>3. /\ images' \in Seq(Image) /\ Len(images') = n + 1 /\ images'[n + 1] = image
      /\ \A i \in 1 .. n : images'[i] = images[i]
  BY <1>0, <1>2 DEF ShelvesTyped
<1>4. /\ Ids = 1 .. n /\ Ids' = 1 .. n + 1 /\ n \in Nat /\ stored \in Nat /\ stored <= MaxFiles
      /\ stored = n + orphaned + Cardinality(BeingSaved) /\ orphaned \in Nat
      /\ Cardinality(BeingSaved) \in Nat /\ MaxFiles \in Nat
  BY <1>3, LibrarySizes DEF Ids, ShelvesInv, Accounted
<1>5. BeingSaved # {} /\ IsFiniteSet(BeingSaved)
  BY <1>0 DEF BeingSaved, ShelvesInv, Accounted
<1>6. n + 1 <= MaxFiles
  <2>1. Cardinality(BeingSaved) # 0
    BY <1>5, FS_EmptySet
  <2> QED
    BY <1>4, <2>1
<1>7. \E e \in Upload \cup {NoUpload} :
          Makes(u, e) /\ (e # NoUpload => e.step = "store"
                                          \/ (e.step = "add" /\ e.item = n + 1))
  <2>1. CASE upload[u].purpose = "collection"
    <3> DEFINE e == [upload[u] EXCEPT !.step = "add", !.item = n + 1]
    <3>1. e \in Upload /\ e.step = "add" /\ e.item = n + 1
      <4>1. n + 1 \in 0 .. MaxFiles
        BY <1>4, <1>6
      <4> QED
        BY <1>1, <4>1, Moved
    <3>2. upload' = [upload EXCEPT ![u] = e]
      BY <1>0, <1>3, <2>1 DEF CreateImage, ShelvesTyped
    <3> HIDE DEF e
    <3> QED
      BY <1>0, <3>1, <3>2, MakesOne
  <2>2. CASE upload[u].purpose # "collection"
    <3>1. NextFile(u)
      BY <2>2 DEF CreateImage
    <3> QED
      BY <1>0, <3>1, NextFileIs
  <2> QED
    BY <2>1, <2>2
<1>8. PICK e \in Upload \cup {NoUpload} :
          Makes(u, e) /\ (e # NoUpload => e.step = "store"
                                          \/ (e.step = "add" /\ e.item = n + 1))
  BY <1>7
<1> HIDE DEF n
<1>9. ShelvesTyped'
  BY <1>0, <1>3, <1>8 DEF ShelvesTyped, Makes
<1>10. RowsHaveFiles'
  <2>1. \A i \in Ids : images[i].file # image.file
    BY <1>0, <1>2 DEF ShelvesInv, SavesHaveFiles
  <2>2. \A i \in Ids' : \/ i = n + 1 /\ images'[i] = image
                        \/ i \in Ids /\ i # n + 1 /\ images'[i] = images[i]
    BY <1>3, <1>4
  <2>3. \A i \in Ids' : images'[i].file \in 1 .. stored
    BY <1>1, <1>2, <2>2 DEF ShelvesInv, RowsHaveFiles
  <2>4. \A i, j \in Ids' : images'[i].file = images'[j].file => i = j
    BY <2>1, <2>2 DEF ShelvesInv, RowsHaveFiles
  <2> QED
    BY <1>0, <2>3, <2>4 DEF RowsHaveFiles
<1>11. \A v \in Uploads, step \in {"save", "add"} :
          At(v, step)' /\ (step = "save" \/ v # u) =>
              v # u /\ At(v, step) /\ upload'[v] = upload[v]
  BY <1>8 DEF Makes, At
<1>12. SavesHaveFiles'
  <2> SUFFICES ASSUME NEW v \in Uploads, At(v, "save")'
               PROVE  /\ upload'[v].item \in 1 .. stored
                      /\ \A i \in Ids' : images'[i].file # upload'[v].item
                      /\ \A w \in Uploads : At(w, "save")' /\ upload'[w].item = upload'[v].item
                                                => w = v
    BY <1>0 DEF SavesHaveFiles
  <2>1. v # u /\ At(v, "save") /\ upload'[v] = upload[v]
    BY <1>11
  <2>2. /\ upload[v].item \in 1 .. stored
        /\ \A i \in Ids : images[i].file # upload[v].item
        /\ \A w \in Uploads : At(w, "save") /\ upload[w].item = upload[v].item => w = v
    BY <2>1 DEF ShelvesInv, SavesHaveFiles
  <2>3. image.file # upload[v].item
    BY <1>0, <1>2, <2>1, <2>2
  <2>4. \A i \in Ids' : images'[i] = image \/ (i \in Ids /\ images'[i] = images[i])
    BY <1>3, <1>4
  <2> QED
    BY <1>11, <2>1, <2>2, <2>3, <2>4
<1>13. AddsHaveRows'
  <2> SUFFICES ASSUME NEW v \in Uploads, At(v, "add")' PROVE upload'[v].item \in Ids'
    BY DEF AddsHaveRows
  <2>1. CASE v = u
    <3>1. upload'[v].item = n + 1
      BY <1>8, <2>1 DEF Makes, At
    <3> QED
      BY <1>4, <3>1
  <2>2. CASE v # u
    <3>1. upload'[v].item \in Ids
      BY <1>11, <2>2 DEF ShelvesInv, AddsHaveRows
    <3> QED
      BY <1>4, <3>1
  <2> QED
    BY <2>1, <2>2
<1>14. Accounted'
  <2>1. BeingSaved' = BeingSaved \ {u} /\ IsFiniteSet(BeingSaved)'
        /\ Cardinality(BeingSaved \ {u}) = Cardinality(BeingSaved) - 1
    BY <1>0, <1>8, SavingIs
  <2>2. stored = (n + 1) + orphaned + (Cardinality(BeingSaved) - 1)
    BY <1>4
  <2>3. stored' = Len(images)' + orphaned' + Cardinality(BeingSaved \ {u})
    BY <1>0, <1>3, <2>1, <2>2
  <2> QED
    BY <2>1, <2>3 DEF Accounted
<1>15. Collected'
  BY <1>0, <1>4 DEF ShelvesInv, Collected
<1> QED
  BY <1>9, <1>10, <1>12, <1>13, <1>14, <1>15 DEF ShelvesInv

\* Where a picture is in a collection that has it once.
PlaceOf(c, i) == CHOOSE at \in DOMAIN c : c[at] = i

LEMMA PlaceIs ==
    ASSUME NEW c, IsInjective(c), NEW i \in ToSet(c)
    PROVE  /\ PlaceOf(c, i) \in DOMAIN c /\ c[PlaceOf(c, i)] = i
           /\ \A at \in DOMAIN c : c[at] = i => at = PlaceOf(c, i)
<1>1. \E at \in DOMAIN c : c[at] = i
  BY DEF ToSet
<1>2. PlaceOf(c, i) \in DOMAIN c /\ c[PlaceOf(c, i)] = i
  BY <1>1 DEF PlaceOf
<1> QED
  BY <1>2 DEF IsInjective

\* Taking the picture at a place away moves those after it.
LEMMA TakenOut ==
    ASSUME NEW S, NEW c \in Seq(S), IsInjective(c), NEW i \in ToSet(c),
           NEW d, d = RemoveAt(c, PlaceOf(c, i))
    PROVE  /\ d \in Seq(S) /\ IsInjective(d) /\ ToSet(d) = ToSet(c) \ {i}
           /\ \A j \in ToSet(d) :
                  PlaceOf(d, j) = IF PlaceOf(c, j) < PlaceOf(c, i) THEN PlaceOf(c, j)
                                  ELSE PlaceOf(c, j) - 1
<1>1. PICK at \in 1 .. Len(c) : at = PlaceOf(c, i) /\ c[at] = i
  BY PlaceIs
<1> DEFINE n == Len(c)
           left == SubSeq(c, 1, at - 1)
           right == SubSeq(c, at + 1, n)
<1>2. n \in Nat /\ at \in 1 .. n /\ DOMAIN c = 1 .. n
  OBVIOUS
<1>3. d = left \o right
  BY <1>1 DEF RemoveAt
<1>4. /\ left \in Seq(S) /\ Len(left) = at - 1
      /\ \A k \in 1 .. at - 1 : left[k] = c[k]
  BY <1>2
<1>5. /\ right \in Seq(S) /\ Len(right) = n - at
      /\ \A k \in 1 .. n - at : right[k] = c[at + k]
  <2>1. \A k \in at + 1 .. n : c[k] \in S
    BY <1>2
  <2>2. /\ right \in Seq(S)
        /\ Len(right) = IF at + 1 <= n THEN n - (at + 1) + 1 ELSE 0
        /\ \A k \in 1 .. n - (at + 1) + 1 : right[k] = c[(at + 1) + k - 1]
    BY <1>2, <2>1, SubSeqProperties
  <2> HIDE DEF right
  <2>3. ASSUME NEW k \in 1 .. n - at PROVE right[k] = c[at + k]
    <3>1. k \in 1 .. n - (at + 1) + 1 /\ (at + 1) + k - 1 = at + k
      BY <1>2
    <3> QED
      BY <2>2, <3>1
  <2>4. Len(right) = n - at
    <3>1. (IF at + 1 <= n THEN n - (at + 1) + 1 ELSE 0) = n - at
      <4> HIDE DEF n
      <4> QED
        BY <1>2
    <3> QED
      BY <2>2, <3>1
  <2> QED
    BY <2>2, <2>3, <2>4
<1> HIDE DEF left, right
<1>c. /\ left \o right \in Seq(S) /\ Len(left \o right) = Len(left) + Len(right)
      /\ \A k \in 1 .. Len(left) + Len(right) :
             (left \o right)[k] = IF k <= Len(left) THEN left[k] ELSE right[k - Len(left)]
  BY <1>4, <1>5, ConcatProperties
<1>6. /\ d \in Seq(S) /\ Len(d) = n - 1
      /\ \A k \in 1 .. n - 1 : d[k] = IF k <= at - 1 THEN left[k] ELSE right[k - (at - 1)]
  BY <1>2, <1>3, <1>4, <1>5, <1>c
<1>7. ASSUME NEW k \in 1 .. n - 1
      PROVE  d[k] = IF k < at THEN c[k] ELSE c[k + 1]
  <2>1. CASE k < at
    BY <1>2, <1>4, <1>6, <2>1
  <2>2. CASE ~(k < at)
    <3>1. k - (at - 1) \in 1 .. n - at /\ at + (k - (at - 1)) = k + 1 /\ ~(k <= at - 1)
      BY <1>2, <2>2
    <3> QED
      BY <1>5, <1>6, <2>2, <3>1
  <2> QED
    BY <2>1, <2>2
<1> DEFINE From(k) == IF k < at THEN k ELSE k + 1
<1>8. /\ \A k \in 1 .. n - 1 : From(k) \in 1 .. n /\ From(k) # at /\ d[k] = c[From(k)]
      /\ \A k, l \in 1 .. n - 1 : From(k) = From(l) => k = l
  BY <1>2, <1>7
<1>9. DOMAIN d = 1 .. n - 1
  BY <1>6
<1>10. IsInjective(d)
  <2> SUFFICES ASSUME NEW k \in 1 .. n - 1, NEW l \in 1 .. n - 1, d[k] = d[l]
               PROVE  k = l
    BY <1>9 DEF IsInjective
  <2>1. /\ From(k) \in DOMAIN c /\ d[k] = c[From(k)]
        /\ From(l) \in DOMAIN c /\ d[l] = c[From(l)]
    BY <1>2, <1>8
  <2>2. From(k) = From(l) => k = l
    BY <1>8
  <2> HIDE DEF From
  <2> QED
    BY <2>1, <2>2 DEF IsInjective
<1>11. ASSUME NEW j \in ToSet(c), j # i
       PROVE  LET k == IF PlaceOf(c, j) < at THEN PlaceOf(c, j) ELSE PlaceOf(c, j) - 1
              IN  k \in DOMAIN d /\ d[k] = j
  <2>1. PICK p \in 1 .. n : p = PlaceOf(c, j) /\ c[p] = j
    BY <1>2, PlaceIs
  <2>2. p # at
    BY <1>1, <1>11, <2>1
  <2>3. CASE p < at
    BY <1>2, <1>7, <1>9, <2>1, <2>3
  <2>4. CASE ~(p < at)
    <3>1. p - 1 \in 1 .. n - 1 /\ ~(p - 1 < at) /\ (p - 1) + 1 = p
      BY <1>2, <2>2, <2>4
    <3>2. d[p - 1] = j
      BY <1>7, <2>1, <3>1
    <3> QED
      BY <1>9, <2>1, <2>4, <3>1, <3>2
  <2> QED
    BY <2>3, <2>4
<1>12. ToSet(d) = ToSet(c) \ {i}
  <2>1. ASSUME NEW k \in 1 .. n - 1 PROVE d[k] \in ToSet(c) /\ d[k] # i
    <3>1. From(k) \in DOMAIN c /\ From(k) # at /\ d[k] = c[From(k)]
      BY <1>2, <1>8
    <3> HIDE DEF From
    <3> QED
      BY <1>1, <1>2, <3>1 DEF IsInjective, ToSet
  <2>2. \A j \in ToSet(d) : j \in ToSet(c) /\ j # i
    BY <1>9, <2>1 DEF ToSet
  <2>3. \A j \in ToSet(c) \ {i} : \E k \in DOMAIN d : d[k] = j
    BY <1>11
  <2>4. \A j \in ToSet(c) \ {i} : j \in ToSet(d)
    BY <2>3 DEF ToSet
  <2> QED
    BY <2>2, <2>4
<1>13. ASSUME NEW j \in ToSet(d)
       PROVE  PlaceOf(d, j) = IF PlaceOf(c, j) < at THEN PlaceOf(c, j)
                              ELSE PlaceOf(c, j) - 1
  <2>1. j \in ToSet(c) /\ j # i
    BY <1>12
  <2>2. PICK k \in DOMAIN d : d[k] = j /\ k = IF PlaceOf(c, j) < at THEN PlaceOf(c, j)
                                              ELSE PlaceOf(c, j) - 1
    BY <1>11, <2>1
  <2>3. k = PlaceOf(d, j)
    BY <1>10, <2>2, PlaceIs
  <2> QED
    BY <2>2, <2>3
<1> QED
  BY <1>1, <1>6, <1>10, <1>12, <1>13

LEMMA PutIn ==
    ASSUME NEW S, NEW c \in Seq(S), IsInjective(c), NEW i \in S, i \notin ToSet(c),
           NEW d, d = Append(c, i)
    PROVE  /\ d \in Seq(S) /\ IsInjective(d)
           /\ \A j : j \in ToSet(d) <=> j \in ToSet(c) \/ j = i
<1>1. /\ Len(c) \in Nat /\ DOMAIN c = 1 .. Len(c) /\ DOMAIN d = 1 .. Len(c) + 1
      /\ d \in Seq(S) /\ d[Len(c) + 1] = i /\ \A k \in 1 .. Len(c) : d[k] = c[k]
  OBVIOUS
<1>2. \A k \in DOMAIN c : c[k] # i
  BY DEF ToSet
<1>3. \A k \in DOMAIN d : \/ k \in DOMAIN c /\ d[k] = c[k]
                          \/ k = Len(c) + 1 /\ d[k] = i
  BY <1>1
<1>4. IsInjective(d)
  BY <1>2, <1>3 DEF IsInjective
<1>5. \A k \in DOMAIN c : k \in DOMAIN d /\ d[k] = c[k]
  BY <1>1
<1>6. Len(c) + 1 \in DOMAIN d /\ d[Len(c) + 1] = i
  BY <1>1
<1>7. \A j : j \in ToSet(d) <=> j \in ToSet(c) \/ j = i
  BY <1>3, <1>5, <1>6 DEF ToSet
<1> QED
  BY <1>1, <1>4, <1>7

LEMMA PlacesStay ==
    ASSUME NEW S, NEW c \in Seq(S), IsInjective(c), NEW i \in S, i \notin ToSet(c),
           NEW d, d = Append(c, i), NEW j \in ToSet(c)
    PROVE  PlaceOf(d, j) = PlaceOf(c, j)
<1>1. PlaceOf(c, j) \in DOMAIN c /\ c[PlaceOf(c, j)] = j
  BY PlaceIs
<1>2. PlaceOf(c, j) \in DOMAIN d /\ d[PlaceOf(c, j)] = j
  BY <1>1
<1>3. IsInjective(d)
  BY PutIn
<1>4. j \in ToSet(d)
  BY <1>2 DEF ToSet
<1> QED
  BY <1>2, <1>3, <1>4, PlaceIs

LEMMA AddKeeps ==
    ASSUME ShelvesInv, NEW u \in Uploads, AddToCollection(u)
    PROVE  ShelvesInv'
<1>0. /\ ShelvesTyped /\ upload[u].item \in Ids /\ Ids \subseteq 1 .. MaxFiles
      /\ UNCHANGED <<stored, images>> /\ orphaned' = orphaned /\ ~At(u, "save")
      /\ collection \in Seq(1 .. MaxFiles) /\ ToSet(collection) \subseteq Ids
      /\ IsInjective(collection) /\ Ids' = Ids
  BY LibrarySizes DEF AddToCollection, ShelvesInv, AddsHaveRows, At, ShelvesTyped, Collected, Ids
<1>1. Makes(u, NoUpload)
  BY <1>0, MakesOne DEF AddToCollection, StopsAt
<1>2. collection' \in Seq(1 .. MaxFiles) /\ Collected'
  <2>1. CASE upload[u].item \in ToSet(collection)
    BY <1>0, <2>1 DEF AddToCollection, Added, Collected
  <2>2. CASE upload[u].item \notin ToSet(collection)
    <3>w. PICK i \in 1 .. MaxFiles : i = upload[u].item
      BY <1>0
    <3>c. PICK S, c, d : /\ S = 1 .. MaxFiles /\ c = collection /\ d = collection'
                         /\ c \in Seq(S) /\ i \in S
      BY <1>0, <3>w
    <3>1. d = Append(c, i) /\ i \notin ToSet(c) /\ IsInjective(c)
      BY <1>0, <2>2, <3>w, <3>c DEF AddToCollection, Added
    <3>2. c \in Seq(S) /\ i \in S
      BY <3>c
    <3>3. d \in Seq(S) /\ IsInjective(d)
          /\ \A j : j \in ToSet(d) => j \in ToSet(c) \/ j = i
      BY <3>1, <3>2, PutIn
    <3> QED
      BY <1>0, <3>w, <3>c, <3>3 DEF Collected
  <2> QED
    BY <2>1, <2>2
<1> QED
  BY <1>0, <1>1, <1>2, RequestMoves

LEMMA RemovalKeeps ==
    ASSUME ShelvesInv, NEW i \in Ids, RemoveFromCollection(i)
    PROVE  ShelvesInv'
<1>0. /\ UNCHANGED <<stored, images, upload, orphaned>>
      /\ collection \in Seq(1 .. MaxFiles) /\ ToSet(collection) \subseteq Ids
      /\ IsInjective(collection) /\ Ids' = Ids /\ i \in ToSet(collection)
  BY DEF RemoveFromCollection, ShelvesInv, ShelvesTyped, Collected, Ids
<1>1. collection' = RemoveAt(collection, PlaceOf(collection, i))
  BY DEF RemoveFromCollection, AddedAt, PlaceOf
<1>2. /\ collection' \in Seq(1 .. MaxFiles) /\ IsInjective(collection')
      /\ ToSet(collection') = ToSet(collection) \ {i}
  BY <1>0, <1>1, TakenOut
<1>3. ShelvesTyped' /\ Collected'
  BY <1>0, <1>2 DEF ShelvesInv, ShelvesTyped, Collected
<1>4. BeingSaved' = BeingSaved /\ \A u \in Uploads : \A s : At(u, s)' = At(u, s)
  BY <1>0 DEF BeingSaved, At
<1> QED
  BY <1>0, <1>3, <1>4 DEF ShelvesInv, RowsHaveFiles, SavesHaveFiles, AddsHaveRows, Accounted

\* A row that changes keeps its file, and the others stay as they are.
LEMMA RowChanges ==
    ASSUME ShelvesInv, NEW i \in Ids, SetImageLibrary(i) \/ SetImageTitle(i)
    PROVE  /\ UNCHANGED <<stored, collection, upload, orphaned>>
           /\ images' \in Seq(Image) /\ Len(images') = Len(images) /\ Ids' = Ids
           /\ \A j \in Ids : images'[j].file = images[j].file
           /\ \A j \in Ids \ {i} : images'[j] = images[j]
           /\ images[i].library
           /\ \/ SetImageLibrary(i) /\ ~images'[i].library
              \/ /\ SetImageTitle(i) /\ images'[i].library
                 /\ images'[i].matches = ~images[i].matches
<1>1. images \in Seq(Image) /\ images[i] \in Image /\ i \in 1 .. Len(images)
  BY DEF ShelvesInv, ShelvesTyped, Ids
<1>2. CASE SetImageLibrary(i)
  <2> DEFINE e == [images[i] EXCEPT !.library = FALSE, !.matches = FALSE]
  <2>1. e \in Image /\ e.file = images[i].file /\ ~e.library
    BY <1>1 DEF Image
  <2>2. images' = [images EXCEPT ![i] = e]
    BY <1>1, <1>2 DEF SetImageLibrary
  <2> HIDE DEF e
  <2>3. images' \in Seq(Image) /\ Len(images') = Len(images) /\ images'[i] = e
        /\ \A j \in Ids \ {i} : images'[j] = images[j]
    BY <1>1, <2>1, <2>2 DEF Ids
  <2> QED
    BY <1>1, <1>2, <2>1, <2>3 DEF SetImageLibrary, Ids
<1>3. CASE SetImageTitle(i)
  <2> DEFINE e == [images[i] EXCEPT !.matches = ~images[i].matches]
  <2>1. e \in Image /\ e.file = images[i].file /\ e.library = images[i].library
        /\ e.matches = ~images[i].matches
    BY <1>1 DEF Image
  <2>2. images' = [images EXCEPT ![i] = e]
    BY <1>1, <1>3 DEF SetImageTitle
  <2> HIDE DEF e
  <2>3. images' \in Seq(Image) /\ Len(images') = Len(images) /\ images'[i] = e
        /\ \A j \in Ids \ {i} : images'[j] = images[j]
    BY <1>1, <2>1, <2>2 DEF Ids
  <2> QED
    BY <1>1, <1>3, <2>1, <2>3 DEF SetImageTitle, Ids
<1> QED
  BY <1>2, <1>3

LEMMA RowKeeps ==
    ASSUME ShelvesInv, NEW i \in Ids, SetImageLibrary(i) \/ SetImageTitle(i)
    PROVE  ShelvesInv'
<1>1. /\ UNCHANGED <<stored, collection, upload, orphaned>>
      /\ images' \in Seq(Image) /\ Len(images') = Len(images) /\ Ids' = Ids
      /\ \A j \in Ids : images'[j].file = images[j].file
  BY RowChanges
<1>2. BeingSaved' = BeingSaved /\ \A u \in Uploads : \A s : At(u, s)' = At(u, s)
  BY <1>1 DEF BeingSaved, At
<1>3. ShelvesTyped' /\ Collected'
  BY <1>1 DEF ShelvesInv, ShelvesTyped, Collected
<1>4. RowsHaveFiles' /\ SavesHaveFiles'
  BY <1>1, <1>2 DEF ShelvesInv, RowsHaveFiles, SavesHaveFiles
<1>5. AddsHaveRows' /\ Accounted'
  BY <1>1, <1>2 DEF ShelvesInv, AddsHaveRows, Accounted
<1> QED
  BY <1>3, <1>4, <1>5 DEF ShelvesInv

LEMMA ShelvesStep == ShelvesInv /\ [LibraryNext]_libraryVars => ShelvesInv'
<1> SUFFICES ASSUME ShelvesInv, [LibraryNext]_libraryVars PROVE ShelvesInv'
  OBVIOUS
<1>1. CASE UNCHANGED <<stored, images, collection, upload, orphaned>>
  <2>1. UNCHANGED <<stored, images, collection, upload, orphaned>>
    BY <1>1
  <2>2. BeingSaved' = BeingSaved /\ Ids' = Ids /\ \A u \in Uploads : \A s : At(u, s)' = At(u, s)
    BY <2>1 DEF BeingSaved, At, Ids
  <2> QED
    BY <2>1, <2>2 DEF ShelvesInv, ShelvesTyped, RowsHaveFiles, SavesHaveFiles, AddsHaveRows,
       Accounted, Collected
<1> QED
  BY <1>1, RequestKeeps, StoreKeeps, LostFileKeeps, SaveKeeps, AddKeeps, RemovalKeeps, RowKeeps
     DEF LibraryNext, libraryVars, shelves, OpenList, ReadPage, CloseList

LEMMA ShelvesInit == LibraryInit => ShelvesInv
<1> SUFFICES ASSUME LibraryInit PROVE ShelvesInv
  OBVIOUS
<1>1. ShelvesTyped
  BY LibraryConstants DEF LibraryInit, ShelvesTyped
<1>2. Len(images) = 0 /\ Ids = {} /\ BeingSaved = {} /\ ToSet(collection) = {}
      /\ DOMAIN collection = {}
  BY DEF LibraryInit, Ids, BeingSaved, At, ToSet
<1>3. RowsHaveFiles /\ SavesHaveFiles /\ AddsHaveRows /\ Collected
  BY <1>2 DEF LibraryInit, RowsHaveFiles, SavesHaveFiles, AddsHaveRows, Collected, At, IsInjective
<1>4. Accounted
  BY <1>2, FS_EmptySet DEF LibraryInit, Accounted
<1> QED
  BY <1>1, <1>3, <1>4 DEF ShelvesInv

LEMMA RowsAreCounted == ASSUME ShelvesInv PROVE PicturesAreThere
<1>1. Len(images) \in Nat /\ Ids = 1 .. Len(images)
  BY LibrarySizes
<1> DEFINE f == [i \in Ids |-> images[i].file]
<1>2. f \in Injection(Ids, FilesWithRow) /\ f \in Surjection(Ids, FilesWithRow)
  BY DEF FilesWithRow, ShelvesInv, RowsHaveFiles, Injection, IsInjective, Surjection
<1>3. IsFiniteSet(Ids) /\ Cardinality(Ids) = Len(images)
  <2>1. PICK n \in Nat : n = Len(images)
    BY <1>1
  <2>2. IsFiniteSet(1 .. n) /\ Cardinality(1 .. n) = IF 1 > n THEN 0 ELSE n - 1 + 1
    BY 1 \in Int, n \in Int, FS_Interval
  <2>3. Cardinality(1 .. n) = n
    BY <2>2
  <2> QED
    BY <1>1, <2>1, <2>2, <2>3
<1> HIDE DEF f
<1>4. Cardinality(FilesWithRow) = Cardinality(Ids)
  BY <1>2, <1>3, FS_Surjection
<1>5. FilesWithRow \subseteq 1 .. stored
  BY DEF FilesWithRow, ShelvesInv, RowsHaveFiles
<1> QED
  BY <1>3, <1>4, <1>5 DEF PicturesAreThere, ShelvesInv, Collected, Accounted

-----------------------------------------------------------------------------
(* The reader.  Of what has not been seen, only so much has slipped behind   *)
(* the offset as was taken away: a row taken away lets one other slip by,    *)
(* for no two pictures are in one row, and a row that is added lets none.    *)

\* Of the pictures in U, those that a window from off on does not reach.
Behind(U, row, off) == {i \in U : row[i] <= off}

LEMMA OneSlips ==
    ASSUME NEW L, IsFiniteSet(L), NEW U \in SUBSET L, NEW x, NEW off \in Nat, NEW removed \in Nat,
           NEW row \in [L -> Nat], \A i, j \in L : row[i] = row[j] => i = j,
           NEW new \in [L \ {x} -> Nat],
           \A i \in L \ {x} : new[i] = row[i] \/ new[i] = row[i] - 1,
           Cardinality(Behind(U, row, off)) <= removed
    PROVE  Cardinality(Behind(U \ {x}, new, off)) <=
               IF removed < Cardinality(U) THEN removed + 1 ELSE removed
<1> DEFINE B == Behind(U, row, off)
           N == Behind(U \ {x}, new, off)
<1>1. B \in SUBSET U /\ N \in SUBSET U /\ \A i \in U : i \in L
  BY DEF Behind
<1>2. /\ IsFiniteSet(U) /\ IsFiniteSet(B) /\ IsFiniteSet(N)
      /\ Cardinality(U) \in Nat /\ Cardinality(B) \in Nat /\ Cardinality(N) \in Nat
      /\ Cardinality(N) <= Cardinality(U)
  BY <1>1, FS_Subset, FS_CardinalityType
<1>3. Cardinality(N) <= Cardinality(B) + 1
  <2>1. CASE \A i \in N : i \in B
    <3>1. Cardinality(N) <= Cardinality(B)
      BY <1>2, <2>1, FS_Subset
    <3> QED
      BY <1>2, <3>1
  <2>2. ASSUME NEW e \in N, e \notin B PROVE Cardinality(N) <= Cardinality(B) + 1
    <3>1. \A i \in N : i \notin B => row[i] = off + 1
      <4>1. \A i \in N : i \in U /\ i \in L \ {x} /\ new[i] <= off
        BY DEF Behind
      <4>2. \A i \in U : i \notin B => ~(row[i] <= off)
        BY DEF Behind
      <4> HIDE DEF B, N
      <4> QED
        BY <4>1, <4>2
    <3>2. \A i \in N : i \in B \cup {e}
      BY <1>1, <2>2, <3>1
    <3>3. /\ IsFiniteSet(B \cup {e}) /\ Cardinality(B \cup {e}) = Cardinality(B) + 1
      BY <1>2, <2>2, FS_AddElement
    <3>4. Cardinality(N) <= Cardinality(B \cup {e})
      BY <3>2, <3>3, FS_Subset
    <3> QED
      BY <3>3, <3>4
  <2> QED
    BY <2>1, <2>2
<1> HIDE DEF B, N
<1>4. Cardinality(B) <= removed
  BY DEF B
<1>5. Cardinality(N) <= IF removed < Cardinality(U) THEN removed + 1 ELSE removed
  BY <1>2, <1>3, <1>4
<1> QED
  BY <1>5 DEF N

\* Rows without a picture between them: some picture is in each.
LEMMA RowsFill ==
    ASSUME NEW L, IsFiniteSet(L), NEW row \in [L -> 1 .. Cardinality(L)],
           \A i, j \in L : row[i] = row[j] => i = j, NEW k \in 1 .. Cardinality(L)
    PROVE  \E i \in L : row[i] = k
<1>1. Cardinality(L) \in Nat
  BY FS_CardinalityType
<1>w. PICK n : n = Cardinality(L)
  OBVIOUS
<1>t. PICK T : T = 1 .. n
  OBVIOUS
<1>2. IsFiniteSet(T) /\ Cardinality(T) = Cardinality(L)
  BY <1>1, <1>w, <1>t, FS_Interval
<1>3. row \in Injection(L, T)
  BY <1>w, <1>t DEF Injection, IsInjective
<1>4. row \in Surjection(L, T)
  BY <1>2, <1>3, FS_Injection
<1>5. k \in T
  BY <1>w, <1>t
<1> QED
  BY <1>4, <1>5 DEF Surjection

\* Beyond the first cap rows there are no more pictures than rows.
LEMMA FewBeyond ==
    ASSUME NEW L, IsFiniteSet(L), NEW row \in [L -> 1 .. Cardinality(L)],
           \A i, j \in L : row[i] = row[j] => i = j, NEW cap \in Nat,
           NEW U \in SUBSET L, \A i \in U : row[i] > cap
    PROVE  Cardinality(U) <= IF Cardinality(L) > cap THEN Cardinality(L) - cap ELSE 0
<1>1. Cardinality(L) \in Nat
  BY FS_CardinalityType
<1>w. PICK n \in Nat : n = Cardinality(L)
  BY <1>1
<1>t. PICK T : T = (cap + 1) .. n
  OBVIOUS
<1>2. IsFiniteSet(T) /\ Cardinality(T) = IF n > cap THEN n - cap ELSE 0
  BY <1>t, FS_Interval
<1> DEFINE f == [i \in U |-> row[i]]
<1>3. \A i \in U : i \in L /\ row[i] \in 1 .. n /\ row[i] > cap
  BY <1>w
<1>4. \A i \in U : row[i] \in T
  BY <1>3, <1>t
<1>5. f \in Injection(U, T)
  BY <1>3, <1>4 DEF Injection, IsInjective
<1> HIDE DEF f
<1>6. Cardinality(U) <= Cardinality(T)
  BY <1>2, <1>5, FS_Injection
<1> QED
  BY <1>2, <1>6, <1>w

-----------------------------------------------------------------------------
\* What orders a list.
Key(list, i) == IF list = "collection" THEN PlaceOf(collection, i) ELSE i

KeysHold ==
    \A list \in Lists :
        /\ Listed(list) \subseteq Ids
        /\ \A i \in Listed(list) : Key(list, i) \in Nat
        /\ \A i, j \in Listed(list) : Key(list, i) = Key(list, j) => i = j
        /\ \A i : NotOlder(list, i) = {j \in Listed(list) : Key(list, j) >= Key(list, i)}

LEMMA KeysAre == ShelvesInv => KeysHold
<1> SUFFICES ASSUME ShelvesInv, NEW list \in Lists
             PROVE  /\ Listed(list) \subseteq Ids
                    /\ \A i \in Listed(list) : Key(list, i) \in Nat
                    /\ \A i, j \in Listed(list) : Key(list, i) = Key(list, j) => i = j
                    /\ \A i : NotOlder(list, i) =
                                   {j \in Listed(list) : Key(list, j) >= Key(list, i)}
  BY DEF KeysHold
<1>1. CASE list = "collection"
  <2>1. /\ Listed(list) = ToSet(collection) /\ \A i : Key(list, i) = PlaceOf(collection, i)
        /\ IsInjective(collection) /\ ToSet(collection) \subseteq Ids
    BY <1>1 DEF Listed, Key, ShelvesInv, Collected
  <2>2. DOMAIN collection \subseteq Nat
    BY DEF ShelvesInv, ShelvesTyped
  <2>3. ASSUME NEW i \in ToSet(collection)
        PROVE  /\ PlaceOf(collection, i) \in DOMAIN collection
               /\ collection[PlaceOf(collection, i)] = i
    BY <2>1, PlaceIs
  <2>4. \A i : AddedAt(i) = PlaceOf(collection, i)
    BY DEF AddedAt, PlaceOf
  <2>5. \A i : NotOlder(list, i) = {j \in Listed(list) : Key(list, j) >= Key(list, i)}
    BY <1>1, <2>1, <2>4 DEF NotOlder
  <2>6. \A i, j \in ToSet(collection) :
            PlaceOf(collection, i) = PlaceOf(collection, j) => i = j
    BY <2>3
  <2> QED
    BY <2>1, <2>2, <2>3, <2>5, <2>6
<1>2. CASE list # "collection"
  <2>1. Listed(list) \subseteq Ids /\ Ids \subseteq Nat /\ \A i : Key(list, i) = i
    BY <1>2, LibrarySizes DEF Listed, Key
  <2>2. \A i : NotOlder(list, i) = {j \in Listed(list) : Key(list, j) >= Key(list, i)}
    BY <1>2 DEF NotOlder, Key
  <2>3. /\ \A i \in Listed(list) : Key(list, i) \in Nat
        /\ \A i, j \in Listed(list) : Key(list, i) = Key(list, j) => i = j
    <3>1. ASSUME NEW i \in Listed(list) PROVE Key(list, i) \in Nat /\ Key(list, i) = i
      BY <2>1
    <3> QED
      BY <3>1
  <2> QED
    BY <2>1, <2>2, <2>3
<1> QED
  BY <1>1, <1>2

\* The rows of a list are 1, 2, 3 and so on.
RowsAre ==
    \A list \in Lists :
        /\ Listed(list) \subseteq Ids /\ IsFiniteSet(Listed(list))
        /\ Cardinality(Listed(list)) \in Nat
        /\ \A i \in Listed(list) :
               /\ NotOlder(list, i) \subseteq Listed(list) /\ IsFiniteSet(NotOlder(list, i))
               /\ Row(list, i) = Cardinality(NotOlder(list, i))
               /\ Row(list, i) \in 1 .. Cardinality(Listed(list))
        /\ \A i, j \in Listed(list) : Row(list, i) = Row(list, j) => i = j

LEMMA RowsCount == ShelvesInv => RowsAre
<1> SUFFICES ASSUME ShelvesInv, NEW list \in Lists
             PROVE  /\ Listed(list) \subseteq Ids /\ IsFiniteSet(Listed(list))
                    /\ Cardinality(Listed(list)) \in Nat
                    /\ \A i \in Listed(list) :
                           /\ NotOlder(list, i) \subseteq Listed(list)
                           /\ IsFiniteSet(NotOlder(list, i))
                           /\ Row(list, i) = Cardinality(NotOlder(list, i))
                           /\ Row(list, i) \in 1 .. Cardinality(Listed(list))
                    /\ \A i, j \in Listed(list) : Row(list, i) = Row(list, j) => i = j
  BY DEF RowsAre
<1>1. /\ Listed(list) \subseteq Ids
      /\ \A i \in Listed(list) : Key(list, i) \in Nat
      /\ \A i, j \in Listed(list) : Key(list, i) = Key(list, j) => i = j
      /\ \A i : NotOlder(list, i) = {j \in Listed(list) : Key(list, j) >= Key(list, i)}
  BY KeysAre DEF KeysHold
<1>2. IsFiniteSet(Listed(list)) /\ Cardinality(Listed(list)) \in Nat
  <2>1. IsFiniteSet(Ids)
    BY LibrarySizes, FS_Interval
  <2> QED
    BY <1>1, <2>1, FS_Subset, FS_CardinalityType
<1>3. ASSUME NEW i \in Listed(list)
      PROVE  /\ NotOlder(list, i) \subseteq Listed(list) /\ i \in NotOlder(list, i)
             /\ IsFiniteSet(NotOlder(list, i))
             /\ Row(list, i) = Cardinality(NotOlder(list, i))
             /\ Row(list, i) \in 1 .. Cardinality(Listed(list))
  <2>1. NotOlder(list, i) \subseteq Listed(list) /\ i \in NotOlder(list, i)
    BY <1>1
  <2>2. IsFiniteSet(NotOlder(list, i)) /\ Cardinality(NotOlder(list, i)) \in Nat
        /\ Cardinality(NotOlder(list, i)) <= Cardinality(Listed(list))
    BY <1>2, <2>1, FS_Subset, FS_CardinalityType
  <2>3. Cardinality(NotOlder(list, i)) # 0
    BY <2>1, <2>2, FS_EmptySet
  <2> QED
    BY <1>2, <2>1, <2>2, <2>3 DEF Row
<1>4. ASSUME NEW i \in Listed(list), NEW j \in Listed(list),
             Row(list, i) = Row(list, j), Key(list, i) <= Key(list, j)
      PROVE  i = j
  <2>1. NotOlder(list, j) \subseteq NotOlder(list, i)
    BY <1>1, <1>4
  <2>2. NotOlder(list, j) = NotOlder(list, i)
    BY <1>3, <1>4, <2>1, FS_Subset
  <2>3. i \in NotOlder(list, j)
    BY <1>3, <2>2
  <2>4. Key(list, i) >= Key(list, j)
    BY <1>1, <2>3
  <2> QED
    BY <1>1, <1>4, <2>4
<1>5. \A i, j \in Listed(list) : Key(list, i) <= Key(list, j) \/ Key(list, j) <= Key(list, i)
  BY <1>1
<1> QED
  BY <1>1, <1>2, <1>3, <1>4, <1>5

-----------------------------------------------------------------------------
\* What a step does to a list, if anything.
Grows(list) ==
    /\ Listed(list) \subseteq Listed(list)'
    /\ \A i \in Listed(list) : NotOlder(list, i) \subseteq NotOlder(list, i)'

Loses(list, x) ==
    /\ Listed(list)' = Listed(list) \ {x}
    /\ \A i \in Listed(list) \ {x} : NotOlder(list, i)' = NotOlder(list, i) \ {x}

\* The library's own list ends at the cap when no limit is asked for.
Uncovered(list, limit) ==
    IF limit = 0 /\ list = "library" /\ Cardinality(Listed(list)) > LibraryCap
    THEN Cardinality(Listed(list)) - LibraryCap ELSE 0

Slipped(list, unseen, off) == {i \in unseen : Row(list, i) <= off}

Follows(w) ==
    /\ w.unseen \subseteq Listed(w.list)
    /\ w.page >= 1 /\ (w.limit = 0 => w.page = 1)
    /\ ~w.done => Cardinality(Slipped(w.list, w.unseen, Offset(w))) <= w.removed
    /\ w.done => Cardinality(w.unseen) <= w.removed + Uncovered(w.list, w.limit)

LEMMA WalkIs ==
    ASSUME NEW w \in Walk
    PROVE  /\ w.list \in Lists /\ w.limit \in Nat /\ w.page \in Nat /\ w.done \in BOOLEAN
           /\ w.unseen \subseteq 1 .. MaxFiles /\ w.removed \in Nat /\ w.removed <= MaxFiles
           /\ w.page >= 1 => Offset(w) \in Nat
<1>1. /\ w.list \in Lists /\ w.limit \in Nat /\ w.page \in Nat /\ w.done \in BOOLEAN
      /\ w.unseen \subseteq 1 .. MaxFiles /\ w.removed \in Nat /\ w.removed <= MaxFiles
  BY LibraryConstants DEF Walk
<1>2. ASSUME w.page >= 1 PROVE (w.page - 1) * w.limit \in Nat
  <2>1. w.page - 1 \in Nat
    BY <1>1, <1>2
  <2> QED
    BY <1>1, <2>1
<1> QED
  BY <1>1, <1>2 DEF Offset

LEMMA GrowthHidesNothing ==
    ASSUME RowsAre, RowsAre', NEW w \in Walk, Follows(w), NEW list, list = w.list, Grows(list)
    PROVE  Follows(w)'
<1>0. list \in Lists /\ w.removed \in Nat /\ w.limit \in Nat /\ w.page >= 1 /\ Offset(w) \in Nat
  BY WalkIs DEF Follows
<1>u. PICK U, off : U = w.unseen /\ off = Offset(w) /\ off \in Nat
  BY <1>0
<1>1. U \subseteq Listed(list) /\ U \subseteq Listed(list)'
  BY <1>u DEF Follows, Grows
<1>2. ASSUME NEW i \in Listed(list) PROVE Row(list, i) <= Row(list, i)' /\ Row(list, i) \in Nat
                                          /\ Row(list, i)' \in Nat
  <2>1. i \in Listed(list)' /\ NotOlder(list, i) \subseteq NotOlder(list, i)'
    BY DEF Grows
  <2>2. /\ IsFiniteSet(NotOlder(list, i)') /\ Row(list, i)' = Cardinality(NotOlder(list, i)')
        /\ Row(list, i)' \in Nat
    BY <1>0, <2>1 DEF RowsAre
  <2>3. Row(list, i) = Cardinality(NotOlder(list, i)) /\ Row(list, i) \in Nat
    BY <1>0 DEF RowsAre
  <2> QED
    BY <2>1, <2>2, <2>3, FS_Subset
<1>3. Slipped(list, U, off)' \subseteq Slipped(list, U, off)
  <2> SUFFICES ASSUME NEW i \in U, Row(list, i)' <= off PROVE Row(list, i) <= off
    BY DEF Slipped
  <2>1. /\ Row(list, i) <= Row(list, i)' /\ Row(list, i) \in Nat
        /\ Row(list, i)' \in Nat
    BY <1>1, <1>2
  <2> QED
    BY <1>u, <2>1
<1>4. IsFiniteSet(Slipped(list, U, off))
  <2>1. Slipped(list, U, off) \subseteq Listed(list)
    BY <1>1 DEF Slipped
  <2> QED
    BY <1>0, <2>1, FS_Subset DEF RowsAre
<1>5. /\ Cardinality(Slipped(list, U, off)') <= Cardinality(Slipped(list, U, off))
      /\ Cardinality(Slipped(list, U, off)') \in Nat
      /\ Cardinality(Slipped(list, U, off)) \in Nat
  BY <1>3, <1>4, FS_Subset, FS_CardinalityType
<1>6. Cardinality(Listed(list)) <= Cardinality(Listed(list)')
      /\ Cardinality(Listed(list)) \in Nat /\ Cardinality(Listed(list)') \in Nat
  BY <1>0, FS_Subset DEF Grows, RowsAre
<1>7. Uncovered(list, w.limit) <= Uncovered(list, w.limit)'
      /\ Uncovered(list, w.limit) \in Nat /\ Uncovered(list, w.limit)' \in Nat
  BY <1>6, LibraryConstants DEF Uncovered
<1>8. Cardinality(U) \in Nat
  <2>1. IsFiniteSet(U)
    BY <1>0, <1>1, FS_Subset DEF RowsAre
  <2> QED
    BY <2>1, FS_CardinalityType
<1>9. ASSUME ~w.done PROVE Cardinality(Slipped(list, U, off)') <= w.removed
  <2>1. Cardinality(Slipped(list, U, off)) <= w.removed
    BY <1>9, <1>u DEF Follows
  <2> QED
    BY <1>0, <1>5, <2>1
<1>10. ASSUME w.done PROVE Cardinality(U) <= w.removed + Uncovered(list, w.limit)'
  <2>1. Cardinality(U) <= w.removed + Uncovered(list, w.limit)
    BY <1>10, <1>u DEF Follows
  <2> QED
    BY <1>0, <1>7, <1>8, <2>1
<1>11. w.limit = 0 => w.page = 1
  BY DEF Follows
<1>12. Offset(w)' = off
  BY <1>u DEF Offset
<1> QED
  BY <1>0, <1>1, <1>9, <1>10, <1>11, <1>12, <1>u DEF Follows

\* What the reader's account is after a picture has been taken away.
LEMMA LossLetsOneSlip ==
    ASSUME RowsAre, RowsAre', NEW w \in Walk, Follows(w), NEW list, list = w.list,
           NEW x, Loses(list, x),
           NEW v, v = [w EXCEPT !.unseen = @ \ {x},
                                !.removed = IF @ < Cardinality(w.unseen) THEN @ + 1 ELSE @]
    PROVE  v \in Walk /\ v.list = list /\ Follows(v)'
<1>0. /\ list \in Lists /\ w.removed \in Nat /\ w.limit \in Nat /\ w.page \in Nat /\ w.page >= 1
      /\ w.done \in BOOLEAN /\ Offset(w) \in Nat /\ w.removed <= MaxFiles
      /\ w.unseen \subseteq 1 .. MaxFiles /\ (w.limit = 0 => w.page = 1) /\ MaxFiles \in Nat
  BY WalkIs, LibraryConstants DEF Follows
<1>u. PICK U, L, off : /\ U = w.unseen /\ off = Offset(w) /\ L = Listed(list)
                       /\ off \in Nat /\ U \subseteq L
  BY <1>0 DEF Follows
<1>1. /\ IsFiniteSet(L) /\ IsFiniteSet(U) /\ Cardinality(U) \in Nat /\ Cardinality(L) \in Nat
      /\ IsFiniteSet(U \ {x}) /\ Cardinality(U \ {x}) \in Nat
      /\ Cardinality(U \ {x}) <= Cardinality(U)
  <2>1. IsFiniteSet(L)
    BY <1>0, <1>u DEF RowsAre
  <2>2. IsFiniteSet(U) /\ Cardinality(U) \in Nat /\ Cardinality(L) \in Nat
    BY <1>u, <2>1, FS_Subset, FS_CardinalityType
  <2>3. U \ {x} \in SUBSET U
    OBVIOUS
  <2> QED
    BY <2>1, <2>2, <2>3, FS_Subset, FS_CardinalityType
<1>2. Cardinality(U) <= MaxFiles
  <2>t. PICK m, T : m = MaxFiles /\ m \in Nat /\ T = 1 .. m
    BY <1>0
  <2>1. IsFiniteSet(T) /\ Cardinality(T) = m
    BY <2>t, FS_Interval
  <2>2. U \subseteq T
    BY <1>0, <1>u, <2>t
  <2> QED
    BY <2>t, <2>1, <2>2, FS_Subset
<1>r. PICK r : r = IF w.removed < Cardinality(U) THEN w.removed + 1 ELSE w.removed
  OBVIOUS
<1>3. r \in 0 .. MaxFiles /\ r \in Nat
  BY <1>0, <1>1, <1>2, <1>r
<1>4. v = [w EXCEPT !.unseen = U \ {x}, !.removed = r]
  BY <1>u, <1>r
<1>5. /\ v \in Walk
      /\ v.list = w.list /\ v.limit = w.limit /\ v.page = w.page /\ v.done = w.done
      /\ v.unseen = U \ {x} /\ v.removed = r
  <2>1. U \ {x} \in SUBSET (1 .. MaxFiles)
    BY <1>0, <1>u
  <2>2. v \in Walk
    BY <1>3, <1>4, <2>1 DEF Walk
  <2>3. /\ v.list = w.list /\ v.limit = w.limit /\ v.page = w.page /\ v.done = w.done
        /\ v.unseen = U \ {x} /\ v.removed = r
    BY <1>4 DEF Walk
  <2> QED
    BY <2>2, <2>3
<1> DEFINE row == [i \in L |-> Row(list, i)]
           new == [i \in L \ {x} |-> Row(list, i)']
<1>6. Listed(list)' = L \ {x}
  BY <1>u DEF Loses
<1>7. ASSUME NEW i \in L \ {x}
      PROVE  Row(list, i)' \in Nat /\ (Row(list, i)' = Row(list, i) \/ Row(list, i)' = Row(list, i) - 1)
  <2>1. i \in Listed(list) /\ i \in Listed(list)'
    BY <1>6, <1>u
  <2>2. NotOlder(list, i)' = NotOlder(list, i) \ {x}
    BY <1>7, <1>u DEF Loses
  <2>3. /\ Row(list, i) = Cardinality(NotOlder(list, i)) /\ Row(list, i) \in Nat
        /\ IsFiniteSet(NotOlder(list, i))
    BY <1>0, <2>1 DEF RowsAre
  <2>4. Row(list, i)' = Cardinality(NotOlder(list, i)') /\ Row(list, i)' \in Nat
    BY <1>0, <2>1 DEF RowsAre
  <2>5. Cardinality(NotOlder(list, i) \ {x}) = Cardinality(NotOlder(list, i))
        \/ Cardinality(NotOlder(list, i) \ {x}) = Cardinality(NotOlder(list, i)) - 1
    BY <2>3, FS_RemoveElement
  <2>6. Row(list, i)' = Cardinality(NotOlder(list, i) \ {x})
    BY <2>2, <2>4, Zenon
  <2> QED
    BY <2>3, <2>4, <2>5, <2>6
<1>8. /\ row \in [L -> Nat] /\ (\A i, j \in L : row[i] = row[j] => i = j)
      /\ new \in [L \ {x} -> Nat]
      /\ \A i \in L \ {x} : new[i] = row[i] \/ new[i] = row[i] - 1
  <2>1. /\ \A i \in L : Row(list, i) \in Nat
        /\ \A i, j \in L : Row(list, i) = Row(list, j) => i = j
    BY <1>0, <1>u DEF RowsAre
  <2> QED
    BY <1>7, <2>1
<1>9. /\ Slipped(list, U, off) = Behind(U, row, off)
      /\ Slipped(list, U \ {x}, off)' = Behind(U \ {x}, new, off)
  BY <1>u DEF Slipped, Behind
<1> HIDE DEF row, new
<1>10. ASSUME ~w.done PROVE Cardinality(Slipped(list, U \ {x}, off)') <= r
  <2>1. Cardinality(Slipped(list, U, off)) <= w.removed
    BY <1>10, <1>u DEF Follows
  <2>2. Cardinality(Behind(U, row, off)) <= w.removed
    BY <1>9, <2>1
  <2>3. Cardinality(Behind(U \ {x}, new, off)) <= r
    <3>1. U \in SUBSET L /\ off \in Nat /\ IsFiniteSet(L)
      BY <1>1, <1>u
    <3>2. PICK removed \in Nat : removed = w.removed
      BY <1>0
    <3>3. Cardinality(Behind(U, row, off)) <= removed
      BY <2>2, <3>2
    <3>4. Cardinality(Behind(U \ {x}, new, off)) <=
              IF removed < Cardinality(U) THEN removed + 1 ELSE removed
      BY <1>8, <3>1, <3>3, OneSlips
    <3> QED
      BY <1>r, <3>2, <3>4
  <2> QED
    BY <1>9, <2>3
<1>11. ASSUME w.done PROVE Cardinality(U \ {x}) <= r + Uncovered(list, w.limit)'
  <2>1. Cardinality(U) <= w.removed + Uncovered(list, w.limit)
    BY <1>11, <1>u DEF Follows
  <2>2. Cardinality(L \ {x}) \in Nat /\ Cardinality(L \ {x}) >= Cardinality(L) - 1
    <3>1. /\ IsFiniteSet(L \ {x})
          /\ Cardinality(L \ {x}) = IF x \in L THEN Cardinality(L) - 1 ELSE Cardinality(L)
      BY <1>1, FS_RemoveElement
    <3>2. Cardinality(L \ {x}) \in Nat
      BY <3>1, FS_CardinalityType
    <3> QED
      BY <1>1, <3>1, <3>2
  <2>3. Cardinality(Listed(list)') = Cardinality(L \ {x})
    BY <1>6, Zenon
  <2>4. /\ Uncovered(list, w.limit) \in Nat /\ Uncovered(list, w.limit)' \in Nat
        /\ Uncovered(list, w.limit)' >= Uncovered(list, w.limit) - 1
    BY <1>0, <1>1, <1>u, <2>2, <2>3, LibraryConstants DEF Uncovered
  <2> QED
    BY <1>0, <1>1, <1>r, <2>1, <2>4
<1>12. Offset(v)' = off /\ U \ {x} \subseteq Listed(list)'
  BY <1>5, <1>6, <1>u DEF Offset
<1> QED
  BY <1>0, <1>5, <1>10, <1>11, <1>12 DEF Follows

-----------------------------------------------------------------------------
WalkInv == walk = NoWalk \/ \E w \in Walk : walk = w /\ Follows(w)

\* A step of the reader, the lists staying as they are.
LEMMA ReadKeeps ==
    ASSUME ShelvesInv, NEW w \in Walk, Follows(w), ~w.done, NEW v,
           v = [w EXCEPT !.unseen = @ \ Window(w),
                         !.page = IF HasMore(w) THEN @ + 1 ELSE @,
                         !.done = ~HasMore(w)]
    PROVE  v \in Walk /\ Follows(v)
<1>0. /\ w.list \in Lists /\ w.removed \in Nat /\ w.limit \in Nat /\ w.page \in Nat /\ w.page >= 1
      /\ Offset(w) \in Nat /\ w.unseen \subseteq 1 .. MaxFiles /\ (w.limit = 0 => w.page = 1)
  BY WalkIs DEF Follows
<1>a. RowsAre
  BY RowsCount
<1>u. PICK list, U, L, off, n : /\ list = w.list /\ U = w.unseen /\ L = Listed(list)
                                /\ off = Offset(w) /\ n = Cardinality(L)
  OBVIOUS
<1>1. /\ list \in Lists /\ off \in Nat /\ U \subseteq L /\ n \in Nat /\ IsFiniteSet(L)
      /\ \A i \in L : Row(list, i) \in 1 .. n
      /\ \A i, j \in L : Row(list, i) = Row(list, j) => i = j
  BY <1>0, <1>a, <1>u DEF RowsAre, Follows
<1>w. PICK seen, left : seen = Window(w) /\ left = U \ seen
  OBVIOUS
<1>2. seen = {i \in L : Row(list, i) - off \in 1 .. RowsPerPage(w)}
  BY <1>u, <1>w DEF Window
<1>h. PICK more \in BOOLEAN : more = HasMore(w)
  BY DEF HasMore
<1>3. v = [w EXCEPT !.unseen = left, !.page = IF more THEN w.page + 1 ELSE w.page,
                    !.done = ~more]
  BY <1>u, <1>w, <1>h
<1>p. PICK page : page = IF more THEN w.page + 1 ELSE w.page
  OBVIOUS
<1>4. /\ v \in Walk
      /\ v.list = list /\ v.limit = w.limit /\ v.page = page /\ v.done = ~more
      /\ v.unseen = left /\ v.removed = w.removed
  <2>1. left \in SUBSET (1 .. MaxFiles) /\ page \in Nat
    BY <1>0, <1>p, <1>u, <1>w
  <2>2. v \in Walk
    BY <1>3, <1>p, <2>1 DEF Walk
  <2>3. /\ v.list = w.list /\ v.limit = w.limit /\ v.page = page /\ v.done = ~more
        /\ v.unseen = left /\ v.removed = w.removed
    BY <1>3, <1>p DEF Walk
  <2> QED
    BY <1>u, <2>2, <2>3
<1>5. left \subseteq L /\ IsFiniteSet(left) /\ Cardinality(left) \in Nat
  <2>1. left \subseteq L
    BY <1>1, <1>w
  <2> QED
    BY <1>1, <2>1, FS_Subset, FS_CardinalityType
<1>6. /\ Slipped(list, U, off) \subseteq L /\ IsFiniteSet(Slipped(list, U, off))
      /\ Cardinality(Slipped(list, U, off)) <= w.removed
      /\ Cardinality(Slipped(list, U, off)) \in Nat
  <2>1. Slipped(list, U, off) \subseteq L
    BY <1>1 DEF Slipped
  <2>2. Cardinality(Slipped(list, U, off)) <= w.removed
    BY <1>u DEF Follows
  <2> QED
    BY <1>1, <2>1, <2>2, FS_Subset, FS_CardinalityType
<1>7. CASE w.limit > 0 /\ more
  <2>1. RowsPerPage(w) = w.limit
    BY <1>7 DEF RowsPerPage
  <2>2. Offset(v) = off + w.limit
    <3>1. PICK k \in Nat, l \in Nat : k = w.page - 1 /\ l = w.limit
      BY <1>0
    <3>2. (k + 1) * l = k * l + l
      OBVIOUS
    <3>3. v.page - 1 = k + 1 /\ v.limit = l
      BY <1>0, <1>4, <1>7, <1>p, <3>1
    <3>4. \A a, b, c, d : a = b /\ c = d => a * c = b * d
      OBVIOUS
    <3>5. (v.page - 1) * v.limit = (k + 1) * l /\ (w.page - 1) * w.limit = k * l
      BY <3>1, <3>3, <3>4, Zenon
    <3> QED
      BY <1>u, <3>1, <3>2, <3>5 DEF Offset
  <2>3. Slipped(list, left, off + w.limit) \subseteq Slipped(list, U, off)
    <3>1. ASSUME NEW i \in left, Row(list, i) <= off + w.limit
          PROVE  i \in U /\ Row(list, i) <= off
      <4>1. i \in U /\ i \in L /\ i \notin seen
        BY <1>5, <1>w
      <4>2. Row(list, i) - off \notin 1 .. w.limit /\ Row(list, i) \in Nat
        BY <1>1, <1>2, <2>1, <4>1
      <4> QED
        BY <1>0, <1>1, <3>1, <4>1, <4>2
    <3> QED
      BY <3>1 DEF Slipped
  <2>4. Cardinality(Slipped(list, left, off + w.limit)) <= w.removed
    <3>1. Cardinality(Slipped(list, left, off + w.limit)) <= Cardinality(Slipped(list, U, off))
          /\ Cardinality(Slipped(list, left, off + w.limit)) \in Nat
      BY <1>6, <2>3, FS_Subset, FS_CardinalityType
    <3> QED
      BY <1>0, <1>6, <3>1
  <2> QED
    <3>1. v.unseen \subseteq Listed(v.list) /\ ~v.done /\ v.limit # 0
      <4>1. v.list = list /\ L = Listed(list) /\ v.unseen = left /\ left \subseteq L
        BY <1>4, <1>5, <1>u
      <4>2. v.unseen \subseteq Listed(v.list)
        BY <4>1, Zenon
      <4> QED
        <5>1. v.limit # 0
          BY <1>0, <1>4, <1>7
        <5>2. ~v.done
          BY <1>4, <1>7, Zenon
        <5> QED
          BY <4>2, <5>1, <5>2
    <3>2. v.page >= 1
      BY <1>0, <1>4, <1>7, <1>p
    <3>3. Cardinality(Slipped(v.list, v.unseen, Offset(v))) <= v.removed
      BY <1>4, <2>2, <2>4, Zenon
    <3> QED
      BY <1>4, <3>1, <3>2, <3>3 DEF Follows
<1>8. CASE w.limit > 0 /\ ~more
  <2>1. RowsPerPage(w) = w.limit
    BY <1>8 DEF RowsPerPage
  <2>2. left \subseteq Slipped(list, U, off)
    <3>1. ASSUME NEW i \in left, Row(list, i) > off PROVE FALSE
      <4>1. i \in U /\ i \in L /\ i \notin seen /\ Row(list, i) \in 1 .. n
        BY <1>1, <1>5, <1>w
      <4>2. Row(list, i) - off \notin 1 .. w.limit
        BY <1>2, <2>1, <4>1
      <4>3. off + w.limit < Row(list, i)
        BY <1>0, <1>1, <3>1, <4>1, <4>2
      <4>4. off + 1 \in 1 .. n
        BY <1>0, <1>1, <1>8, <4>1, <4>3
      <4> DEFINE row == [j \in L |-> Row(list, j)]
      <4>5. /\ row \in [L -> 1 .. Cardinality(L)] /\ off + 1 \in 1 .. Cardinality(L)
            /\ \A j, k \in L : row[j] = row[k] => j = k
        BY <1>1, <1>u, <4>4
      <4> HIDE DEF row
      <4>6. PICK j \in L : row[j] = off + 1
        BY <1>1, <4>5, RowsFill
      <4>7. j \in seen
        <5>1. Row(list, j) = off + 1
          BY <4>6 DEF row
        <5>2. Row(list, j) - off \in 1 .. w.limit
          BY <1>0, <1>1, <1>8, <5>1
        <5> QED
          BY <1>2, <2>1, <5>2
      <4>8. Total(w) = n
        BY <1>u, <1>w, <4>7 DEF Total
      <4>9. HasMore(w)
        BY <1>0, <1>1, <1>8, <1>u, <4>1, <4>3, <4>8 DEF HasMore
      <4> QED
        BY <1>8, <1>h, <4>9
    <3>2. \A i \in left : i \in U /\ Row(list, i) \in Nat
      BY <1>1, <1>5, <1>w
    <3> QED
      BY <1>1, <3>1, <3>2 DEF Slipped
  <2>3. Cardinality(left) <= w.removed
    <3>1. Cardinality(left) <= Cardinality(Slipped(list, U, off))
      BY <1>6, <2>2, FS_Subset
    <3> QED
      BY <1>0, <1>5, <1>6, <3>1
  <2>4. Uncovered(list, w.limit) = 0
    BY <1>8 DEF Uncovered
  <2> QED
    <3>1. v.unseen \subseteq Listed(v.list) /\ v.done /\ v.limit # 0
      <4>1. v.list = list /\ L = Listed(list) /\ v.unseen = left /\ left \subseteq L
        BY <1>4, <1>5, <1>u
      <4>2. v.unseen \subseteq Listed(v.list)
        BY <4>1, Zenon
      <4> QED
        <5>1. v.limit # 0
          BY <1>0, <1>4, <1>8
        <5>2. v.done
          BY <1>4, <1>8, Zenon
        <5> QED
          BY <4>2, <5>1, <5>2
    <3>2. v.page >= 1
      BY <1>0, <1>4, <1>8, <1>p
    <3>3. Cardinality(v.unseen) <= v.removed + Uncovered(v.list, v.limit)
      <4>1. Cardinality(left) <= w.removed + 0
        BY <1>0, <2>3
      <4> QED
        BY <1>4, <2>4, <4>1, Zenon
    <3> QED
      BY <1>4, <3>1, <3>2, <3>3 DEF Follows
<1>9. CASE w.limit = 0
  <2>1. ~more /\ off = 0
    <3>1. ~more
      <4>1. ~(w.limit > 0)
        BY <1>9
      <4> QED
        BY <1>h, <4>1 DEF HasMore
    <3>2. (1 - 1) * 0 = 0
      OBVIOUS
    <3>3. w.page = 1
      BY <1>0, <1>9
    <3> QED
      BY <1>9, <1>u, <3>1, <3>2, <3>3 DEF Offset
  <2> DEFINE row == [j \in L |-> Row(list, j)]
  <2>2. /\ row \in [L -> 1 .. Cardinality(L)]
        /\ \A j, k \in L : row[j] = row[k] => j = k
    BY <1>1, <1>u
  <2>3. \A i \in left : i \in L /\ row[i] = Row(list, i) /\ row[i] \in 1 .. n
                        /\ row[i] \notin 1 .. RowsPerPage(w)
    <3>1. \A i \in left : i \in L /\ i \notin seen
      BY <1>5, <1>w
    <3>2. \A i \in L : Row(list, i) - off = Row(list, i)
      BY <1>1, <2>1
    <3> QED
      BY <1>1, <1>2, <3>1, <3>2
  <2>4. Cardinality(left) <= Uncovered(list, w.limit)
    <3>1. CASE list = "library"
      <4>1. RowsPerPage(w) = LibraryCap /\ LibraryCap \in Nat
        BY <1>9, <1>u, <3>1, LibraryConstants DEF RowsPerPage
      <4>2. \A i \in left : row[i] > LibraryCap
        BY <1>1, <2>3, <4>1
      <4> HIDE DEF row
      <4>3. Cardinality(left) <= IF Cardinality(L) > LibraryCap
                                 THEN Cardinality(L) - LibraryCap ELSE 0
        BY <1>1, <1>5, <2>2, <4>1, <4>2, FewBeyond
      <4> QED
        BY <1>9, <1>u, <3>1, <4>3 DEF Uncovered
    <3>2. CASE list = "collection"
      <4>1. RowsPerPage(w) = Len(collection) /\ Len(collection) \in Nat
        BY <1>9, <1>u, <3>2 DEF RowsPerPage, ShelvesInv, ShelvesTyped
      <4>2. n <= Len(collection)
        <5> DEFINE f == [j \in L |-> PlaceOf(collection, j)]
        <5>1. L = ToSet(collection) /\ IsInjective(collection)
              /\ DOMAIN collection = 1 .. Len(collection)
          BY <1>u, <3>2 DEF Listed, ShelvesInv, Collected, ShelvesTyped
        <5>t. PICK T : T = 1 .. Len(collection)
          OBVIOUS
        <5>2. \A j \in L : PlaceOf(collection, j) \in T
                           /\ collection[PlaceOf(collection, j)] = j
          BY <5>1, <5>t, PlaceIs
        <5>3. f \in Injection(L, T)
          BY <5>2 DEF Injection, IsInjective
        <5>4. IsFiniteSet(T) /\ Cardinality(T) = Len(collection)
          BY <4>1, <5>t, FS_Interval
        <5> HIDE DEF f
        <5> QED
          BY <1>u, <5>3, <5>4, FS_Injection
      <4>3. left = {}
        <5>1. ASSUME NEW i \in left PROVE FALSE
          <6>1. row[i] \in 1 .. n /\ row[i] \notin 1 .. Len(collection)
            BY <2>3, <4>1
          <6> HIDE DEF row
          <6> QED
            BY <1>1, <4>1, <4>2, <6>1
        <5> QED
          BY <5>1
      <4>4. Cardinality(left) = 0
        BY <4>3, FS_EmptySet
      <4> QED
        BY <3>2, <4>4 DEF Uncovered
    <3> QED
      BY <1>1, <3>1, <3>2 DEF Lists
  <2>5. Uncovered(list, w.limit) \in Nat
    BY <1>1, <1>u, LibraryConstants DEF Uncovered
  <2> HIDE DEF row
  <2> QED
    <3>1. v.unseen \subseteq Listed(v.list) /\ v.done
      BY <1>4, <1>5, <1>u, <2>1
    <3>2. v.page >= 1 /\ v.page = 1
      BY <1>0, <1>4, <1>9, <1>p, <2>1
    <3>3. Cardinality(v.unseen) <= v.removed + Uncovered(v.list, v.limit)
      <4>1. Cardinality(left) <= w.removed + Uncovered(list, w.limit)
        BY <1>0, <1>5, <2>4, <2>5
      <4> QED
        BY <1>4, <4>1, Zenon
    <3> QED
      BY <1>4, <3>1, <3>2, <3>3 DEF Follows
<1> QED
  BY <1>0, <1>7, <1>8, <1>9

LEMMA KeptKeysGrow ==
    ASSUME KeysHold, KeysHold', NEW list \in Lists, Listed(list) \subseteq Listed(list)',
           \A i \in Listed(list) : Key(list, i)' = Key(list, i)
    PROVE  Grows(list)
<1>1. ASSUME NEW i \in Listed(list), NEW j \in NotOlder(list, i)
      PROVE  j \in NotOlder(list, i)'
  <2>1. j \in Listed(list) /\ Key(list, j) >= Key(list, i)
    BY <1>1 DEF KeysHold
  <2>2. j \in Listed(list)' /\ Key(list, j)' >= Key(list, i)'
    BY <2>1
  <2>3. NotOlder(list, i)' = {k \in Listed(list)' : Key(list, k)' >= Key(list, i)'}
    BY DEF KeysHold
  <2> QED
    BY <2>2, <2>3
<1> QED
  BY <1>1 DEF Grows

LEMMA SameOrderLoses ==
    ASSUME KeysHold, KeysHold', NEW list \in Lists, NEW x,
           Listed(list)' = Listed(list) \ {x},
           \A i, j \in Listed(list) \ {x} :
               Key(list, j)' >= Key(list, i)' <=> Key(list, j) >= Key(list, i)
    PROVE  Loses(list, x)
<1>1. ASSUME NEW i \in Listed(list) \ {x}
      PROVE  NotOlder(list, i)' = NotOlder(list, i) \ {x}
  <2>1. NotOlder(list, i) = {k \in Listed(list) : Key(list, k) >= Key(list, i)}
    BY DEF KeysHold
  <2>2. NotOlder(list, i)' = {k \in Listed(list)' : Key(list, k)' >= Key(list, i)'}
    BY DEF KeysHold
  <2> QED
    BY <1>1, <2>1, <2>2
<1> QED
  BY <1>1 DEF Loses

LEMMA SameShelves ==
    ASSUME NEW list, UNCHANGED <<images, collection>>
    PROVE  Grows(list)
<1>1. Listed(list)' = Listed(list)
  BY DEF Listed, Ids
<1>2. \A i : AddedAt(i)' = AddedAt(i)
  BY DEF AddedAt
<1>3. \A i : NotOlder(list, i)' = NotOlder(list, i)
  BY <1>1, <1>2 DEF NotOlder
<1> QED
  BY <1>1, <1>3 DEF Grows

LEMMA SameLibrary ==
    ASSUME UNCHANGED images
    PROVE  Grows("library")
<1>1. Listed("library")' = Listed("library")
  BY DEF Listed, Ids
<1>2. \A i : NotOlder("library", i)' = NotOlder("library", i)
  BY <1>1 DEF NotOlder
<1> QED
  BY <1>1, <1>2 DEF Grows

LEMMA SameCollection ==
    ASSUME UNCHANGED collection
    PROVE  Grows("collection")
<1>1. Listed("collection")' = Listed("collection")
  BY DEF Listed
<1>2. \A i : AddedAt(i)' = AddedAt(i)
  BY DEF AddedAt
<1>3. \A i : NotOlder("collection", i)' = NotOlder("collection", i)
  BY <1>1, <1>2 DEF NotOlder
<1> QED
  BY <1>1, <1>3 DEF Grows

\* What a step that is not the reader's does to the lists.
LEMMA AdditionGrows ==
    ASSUME ShelvesInv, KeysHold, KeysHold', NEW u \in Uploads,
           AddToCollection(u) \/ \E matches \in BOOLEAN : CreateImage(u, matches)
    PROVE  Grows("collection") /\ Grows("library")
<1>1. CASE AddToCollection(u)
  <2>1. UNCHANGED images
    BY <1>1 DEF AddToCollection
  <2>2. CASE upload[u].item \in ToSet(collection)
    BY <1>1, <2>1, <2>2, SameShelves DEF AddToCollection, Added
  <2>3. CASE upload[u].item \notin ToSet(collection)
    <3>w. PICK i, S, c, d :
              i = upload[u].item /\ S = 1 .. MaxFiles /\ c = collection /\ d = collection'
      OBVIOUS
    <3>1. i \in S /\ c \in Seq(S) /\ IsInjective(c) /\ i \notin ToSet(c)
      BY <1>1, <2>3, <3>w, LibrarySizes
         DEF AddToCollection, At, ShelvesInv, AddsHaveRows, ShelvesTyped, Collected
    <3>2. d = Append(c, i)
      BY <1>1, <2>3, <3>w DEF AddToCollection, Added
    <3>3. /\ \A j : j \in ToSet(d) <=> j \in ToSet(c) \/ j = i
          /\ \A j \in ToSet(c) : PlaceOf(d, j) = PlaceOf(c, j)
      <4>1. c \in Seq(S) /\ i \in S /\ IsInjective(c) /\ i \notin ToSet(c) /\ d = Append(c, i)
        BY <3>1, <3>2
      <4>2. \A j : j \in ToSet(d) <=> j \in ToSet(c) \/ j = i
        BY <4>1, PutIn, Zenon
      <4>3. \A j \in ToSet(c) : PlaceOf(d, j) = PlaceOf(c, j)
        BY <4>1, PlacesStay, ZenonT(30)
      <4> QED
        BY <4>2, <4>3
    <3>4. Listed("collection") = ToSet(c) /\ Listed("collection")' = ToSet(d)
      BY <3>w DEF Listed
    <3>5. \A j : Key("collection", j) = PlaceOf(c, j) /\ Key("collection", j)' = PlaceOf(d, j)
      BY <3>w DEF Key
    <3>6. "collection" \in Lists
      BY DEF Lists
    <3>7. Grows("collection")
      BY <3>3, <3>4, <3>5, <3>6, KeptKeysGrow
    <3> QED
      BY <2>1, <3>7, SameLibrary
  <2> QED
    BY <2>2, <2>3
<1>2. CASE \E matches \in BOOLEAN : CreateImage(u, matches)
  <2>1. PICK image : images' = Append(images, image) /\ UNCHANGED collection
    BY <1>2 DEF CreateImage
  <2>2. images \in Seq(Image) /\ Ids = 1 .. Len(images) /\ Len(images) \in Nat
    BY LibrarySizes DEF ShelvesInv, ShelvesTyped
  <2>3. \A i \in Ids : i \in Ids' /\ images'[i] = images[i]
    BY <2>1, <2>2 DEF Ids
  <2>4. Listed("library") \subseteq Listed("library")'
    BY <2>3 DEF Listed
  <2>5. \A i : Key("library", i) = i /\ Key("library", i)' = i
    BY DEF Key
  <2>6. Grows("library")
    BY <2>4, <2>5, KeptKeysGrow DEF Lists
  <2> QED
    BY <2>1, <2>6, SameCollection
<1> QED
  BY <1>1, <1>2

LEMMA RemovalLoses ==
    ASSUME ShelvesInv, KeysHold, KeysHold', NEW i \in Ids, RemoveFromCollection(i)
    PROVE  Loses("collection", i) /\ Grows("library")
<1>w. PICK S, c, d : S = 1 .. MaxFiles /\ c = collection /\ d = collection'
  OBVIOUS
<1>1. c \in Seq(S) /\ IsInjective(c) /\ i \in ToSet(c)
  BY <1>w DEF RemoveFromCollection, ShelvesInv, ShelvesTyped, Collected
<1>2. d = RemoveAt(c, PlaceOf(c, i))
  BY <1>w DEF RemoveFromCollection, AddedAt, PlaceOf
<1>3. /\ ToSet(d) = ToSet(c) \ {i}
      /\ \A j \in ToSet(d) : PlaceOf(d, j) = IF PlaceOf(c, j) < PlaceOf(c, i) THEN PlaceOf(c, j)
                                             ELSE PlaceOf(c, j) - 1
  BY <1>1, <1>2, TakenOut
<1>4. \A j \in ToSet(c) : /\ PlaceOf(c, j) \in Nat /\ PlaceOf(c, i) \in Nat
                          /\ j # i => PlaceOf(c, j) # PlaceOf(c, i)
  <2>1. DOMAIN c \subseteq Nat
    BY <1>1
  <2>2. ASSUME NEW j \in ToSet(c) PROVE PlaceOf(c, j) \in DOMAIN c /\ c[PlaceOf(c, j)] = j
    BY <1>1, PlaceIs
  <2> QED
    BY <1>1, <2>1, <2>2
<1>5. Listed("collection") = ToSet(c) /\ Listed("collection")' = ToSet(d)
  BY <1>w DEF Listed
<1>6. \A j : Key("collection", j) = PlaceOf(c, j) /\ Key("collection", j)' = PlaceOf(d, j)
  BY <1>w DEF Key
<1>7. ASSUME NEW j \in ToSet(c) \ {i}, NEW k \in ToSet(c) \ {i}
      PROVE  PlaceOf(d, j) >= PlaceOf(d, k) <=> PlaceOf(c, j) >= PlaceOf(c, k)
  <2>1. /\ PlaceOf(d, j) = IF PlaceOf(c, j) < PlaceOf(c, i) THEN PlaceOf(c, j)
                           ELSE PlaceOf(c, j) - 1
        /\ PlaceOf(d, k) = IF PlaceOf(c, k) < PlaceOf(c, i) THEN PlaceOf(c, k)
                           ELSE PlaceOf(c, k) - 1
    BY <1>3
  <2>2. /\ PlaceOf(c, j) \in Nat /\ PlaceOf(c, k) \in Nat /\ PlaceOf(c, i) \in Nat
        /\ PlaceOf(c, j) # PlaceOf(c, i) /\ PlaceOf(c, k) # PlaceOf(c, i)
    BY <1>4
  <2> QED
    BY <2>1, <2>2
<1>8. /\ Listed("collection")' = Listed("collection") \ {i}
      /\ \A k, j \in Listed("collection") \ {i} :
             Key("collection", j)' >= Key("collection", k)'
                 <=> Key("collection", j) >= Key("collection", k)
  BY <1>3, <1>5, <1>6, <1>7
<1>9. Loses("collection", i)
  BY <1>8, SameOrderLoses DEF Lists
<1>10. Grows("library")
  BY SameLibrary DEF RemoveFromCollection
<1> QED
  BY <1>9, <1>10

\* A row that leaves the library, or the search, is taken from the list; one
\* that comes into the search is added to it.
LEMMA RowLosesOrGrows ==
    ASSUME ShelvesInv, KeysHold, KeysHold', NEW i \in Ids, SetImageLibrary(i) \/ SetImageTitle(i)
    PROVE  /\ Grows("collection")
           /\ \/ Loses("library", i) /\ TakenFrom("library", i)
              \/ Grows("library") /\ UNCHANGED walk
<1>1. /\ UNCHANGED collection /\ Ids' = Ids
      /\ \A j \in Ids \ {i} : images'[j] = images[j]
      /\ images[i].library
      /\ \/ SetImageLibrary(i) /\ ~images'[i].library
         \/ /\ SetImageTitle(i) /\ images'[i].library
            /\ images'[i].matches = ~images[i].matches
  BY RowChanges
<1>2. Grows("collection")
  BY <1>1, SameCollection
<1>3. \A j : Key("library", j) = j /\ Key("library", j)' = j
  BY DEF Key
<1>4. "library" \in Lists
  BY DEF Lists
<1>5. /\ Listed("library") = {j \in Ids : images[j].library /\ images[j].matches}
      /\ Listed("library")' = {j \in Ids' : images'[j].library /\ images'[j].matches}
  BY DEF Listed
<1>6. CASE SetImageLibrary(i) /\ ~images'[i].library
  <2>1. Listed("library")' = Listed("library") \ {i}
    BY <1>1, <1>5, <1>6
  <2>2. Loses("library", i)
    BY <1>3, <1>4, <2>1, SameOrderLoses
  <2> QED
    BY <1>2, <1>6, <2>2 DEF SetImageLibrary
<1>7. CASE SetImageTitle(i) /\ images'[i].library /\ images'[i].matches = ~images[i].matches
  <2>1. images[i].matches \in BOOLEAN
    <3>1. images \in Seq(Image) /\ i \in 1 .. Len(images)
      BY DEF ShelvesInv, ShelvesTyped, Ids
    <3>2. images[i] \in Image
      BY <3>1
    <3> QED
      BY <3>2 DEF Image
  <2>2. CASE images[i].matches
    <3>1. Listed("library")' = Listed("library") \ {i}
      BY <1>1, <1>5, <1>7, <2>2
    <3>2. Loses("library", i)
      BY <1>3, <1>4, <3>1, SameOrderLoses
    <3> QED
      BY <1>2, <1>7, <2>2, <3>2 DEF SetImageTitle
  <2>3. CASE ~images[i].matches
    <3>1. Listed("library") \subseteq Listed("library")'
      BY <1>1, <1>5, <1>7, <2>3
    <3>2. Grows("library")
      BY <1>3, <1>4, <3>1, KeptKeysGrow
    <3> QED
      BY <1>2, <1>7, <2>3, <3>2 DEF SetImageTitle
  <2> QED
    BY <2>1, <2>2, <2>3
<1> QED
  BY <1>1, <1>6, <1>7

\* Who opens a list has seen nothing of it, and nothing has slipped by.
LEMMA OpenFollows ==
    ASSUME ShelvesInv, NEW list \in Lists, NEW limit \in Nat, NEW v,
           v = [list |-> list, limit |-> limit, page |-> 1, done |-> FALSE,
                unseen |-> Listed(list), removed |-> 0]
    PROVE  v \in Walk /\ Follows(v)
<1>1. RowsAre /\ Ids \subseteq 1 .. MaxFiles /\ MaxFiles \in Nat
  BY RowsCount, LibrarySizes
<1>2. Listed(list) \subseteq 1 .. MaxFiles /\ \A i \in Listed(list) : Row(list, i) >= 1
                                                                  /\ Row(list, i) \in Nat
  <2>1. Listed(list) \subseteq Ids /\ Cardinality(Listed(list)) \in Nat
        /\ \A i \in Listed(list) : Row(list, i) \in 1 .. Cardinality(Listed(list))
    BY <1>1 DEF RowsAre
  <2>2. ASSUME NEW i \in Listed(list)
        PROVE  i \in 1 .. MaxFiles /\ Row(list, i) >= 1 /\ Row(list, i) \in Nat
    <3>1. Row(list, i) \in 1 .. Cardinality(Listed(list))
      BY <2>1
    <3>2. i \in 1 .. MaxFiles
      BY <1>1, <2>1
    <3>3. Cardinality(Listed(list)) \in Nat
      BY <2>1
    <3> QED
      BY <3>1, <3>2, <3>3
  <2> QED
    BY <2>2
<1>3. v \in Walk
  BY <1>1, <1>2 DEF Walk
<1>4. /\ v.list = list /\ v.limit = limit /\ v.page = 1 /\ ~v.done
      /\ v.unseen = Listed(list) /\ v.removed = 0
  OBVIOUS
<1>5. Offset(v) = 0
  <2>1. (1 - 1) * limit = 0
    OBVIOUS
  <2> QED
    BY <1>4, <2>1 DEF Offset
<1>6. Cardinality(Slipped(v.list, v.unseen, Offset(v))) = 0
  <2>1. Slipped(v.list, v.unseen, Offset(v)) = {}
    BY <1>2, <1>4, <1>5 DEF Slipped
  <2> QED
    BY <2>1, FS_EmptySet
<1> QED
  BY <1>3, <1>4, <1>6 DEF Follows

LEMMA GrowthKeeps ==
    ASSUME RowsAre, RowsAre', WalkInv, UNCHANGED walk, \A list \in Lists : Grows(list)
    PROVE  WalkInv'
<1>1. ASSUME NEW w \in Walk, walk = w, Follows(w)
      PROVE  Follows(w)'
  <2>1. PICK list \in Lists : list = w.list
    BY WalkIs
  <2> QED
    BY <1>1, <2>1, GrowthHidesNothing
<1> QED
  BY <1>1 DEF WalkInv

LEMMA LossKeeps ==
    ASSUME RowsAre, RowsAre', WalkInv, NEW list \in Lists, NEW x, Loses(list, x),
           TakenFrom(list, x), \A other \in Lists \ {list} : Grows(other)
    PROVE  WalkInv'
<1>1. CASE walk = NoWalk
  BY <1>1 DEF TakenFrom, WalkInv
<1>2. ASSUME NEW w \in Walk, walk = w, walk # NoWalk, Follows(w), w.list # list
      PROVE  WalkInv'
  <2>1. PICK other \in Lists \ {list} : other = w.list
    BY <1>2, WalkIs
  <2>2. Follows(w)'
    BY <1>2, <2>1, GrowthHidesNothing
  <2>3. walk' = w
    BY <1>2 DEF TakenFrom
  <2> QED
    BY <2>2, <2>3 DEF WalkInv
<1>3. ASSUME NEW w \in Walk, walk = w, walk # NoWalk, Follows(w), w.list = list
      PROVE  WalkInv'
  <2>w. PICK v : v = walk'
    OBVIOUS
  <2>1. v = [w EXCEPT !.unseen = @ \ {x},
                      !.removed = IF @ < Cardinality(w.unseen) THEN @ + 1 ELSE @]
    BY <1>3, <2>w DEF TakenFrom
  <2>2. v \in Walk /\ Follows(v)'
    BY <1>3, <2>1, LossLetsOneSlip, ZenonT(30)
  <2> QED
    BY <2>2, <2>w DEF WalkInv
<1> QED
  BY <1>1, <1>2, <1>3 DEF WalkInv

\* A step of the reader, after which the lists are as they were.
LEMMA ReaderKeeps ==
    ASSUME ShelvesInv, RowsAre, RowsAre', WalkInv, UNCHANGED shelves,
           \/ \E list \in Lists, limit \in Limits : OpenList(list, limit)
           \/ ReadPage
    PROVE  WalkInv'
<1>1. UNCHANGED <<images, collection>>
  BY DEF shelves
<1>2. PICK v \in Walk : v = walk' /\ Follows(v)
  <2>1. ASSUME NEW list \in Lists, NEW limit \in Limits, OpenList(list, limit)
        PROVE  walk' \in Walk /\ \E v \in Walk : v = walk' /\ Follows(v)
    <3>1. PICK l \in Nat : l = ParsedLimit(limit)
      BY LibraryConstants DEF ParsedLimit
    <3>2. PICK v : v = [list |-> list, limit |-> l, page |-> 1, done |-> FALSE,
                        unseen |-> Listed(list), removed |-> 0]
      OBVIOUS
    <3>3. v \in Walk /\ Follows(v)
      BY <3>2, OpenFollows
    <3>4. v = walk'
      BY <2>1, <3>1, <3>2 DEF OpenList
    <3> QED
      BY <3>3, <3>4
  <2>2. ASSUME ReadPage PROVE \E v \in Walk : v = walk' /\ Follows(v)
    <3>1. PICK w \in Walk : walk = w /\ Follows(w)
      BY <2>2 DEF ReadPage, WalkInv
    <3>2. PICK v : v = [w EXCEPT !.unseen = @ \ Window(w),
                                 !.page = IF HasMore(w) THEN @ + 1 ELSE @,
                                 !.done = ~HasMore(w)]
      OBVIOUS
    <3>3. v = walk' /\ ~w.done
      BY <2>2, <3>1, <3>2 DEF ReadPage
    <3>4. v \in Walk /\ Follows(v)
      BY <3>1, <3>2, <3>3, ReadKeeps
    <3> QED
      BY <3>3, <3>4
  <2> QED
    BY <2>1, <2>2
<1>3. PICK list \in Lists : list = v.list
  BY WalkIs
<1>4. Follows(v)'
  BY <1>1, <1>2, <1>3, SameShelves, GrowthHidesNothing
<1> QED
  BY <1>2, <1>4 DEF WalkInv

LEMMA WalkStep ==
    ASSUME ShelvesInv, ShelvesInv', KeysHold, KeysHold', RowsAre, RowsAre', WalkInv,
           [LibraryNext]_libraryVars
    PROVE  WalkInv'
<1>0. Lists = {"library", "collection"} /\ "library" # "collection"
  BY DEF Lists
<1>1. CASE UNCHANGED <<images, collection, walk>>
  BY <1>1, SameShelves, GrowthKeeps
<1>2. ASSUME NEW u \in Uploads,
             AddToCollection(u) \/ \E matches \in BOOLEAN : CreateImage(u, matches)
      PROVE  WalkInv'
  <2>1. Grows("collection") /\ Grows("library")
    BY <1>2, AdditionGrows
  <2>2. UNCHANGED walk
    BY <1>2 DEF AddToCollection, CreateImage
  <2> QED
    BY <1>0, <2>1, <2>2, GrowthKeeps
<1>3. ASSUME NEW i \in Ids, RemoveFromCollection(i) PROVE WalkInv'
  <2>1. Loses("collection", i) /\ Grows("library") /\ TakenFrom("collection", i)
    BY <1>3, RemovalLoses DEF RemoveFromCollection
  <2> QED
    BY <1>0, <2>1, LossKeeps
<1>4. ASSUME NEW i \in Ids, SetImageLibrary(i) \/ SetImageTitle(i) PROVE WalkInv'
  <2>1. /\ Grows("collection")
        /\ \/ Loses("library", i) /\ TakenFrom("library", i)
           \/ Grows("library") /\ UNCHANGED walk
    BY <1>4, RowLosesOrGrows
  <2>2. CASE Loses("library", i) /\ TakenFrom("library", i)
    BY <1>0, <2>1, <2>2, LossKeeps
  <2>3. CASE Grows("library") /\ UNCHANGED walk
    BY <1>0, <2>1, <2>3, GrowthKeeps
  <2> QED
    BY <2>1, <2>2, <2>3
<1>5. CASE ReadPage \/ \E list \in Lists, limit \in Limits : OpenList(list, limit)
  <2>1. UNCHANGED shelves
    BY <1>5 DEF ReadPage, OpenList
  <2> QED
    BY <1>5, <2>1, ReaderKeeps
<1>6. CASE CloseList
  BY <1>6 DEF CloseList, WalkInv
<1>7. ASSUME NEW u \in Uploads,
             \/ \E purpose \in Purposes, n \in BatchSizes : Bring(u, purpose, n)
             \/ FileFails(u) \/ StoredUnknown(u) \/ StoreFile(u) \/ CreateImageFails(u)
             \/ \E i \in Ids : PickImage(u, i)
             \/ UploadDies(u)
      PROVE  UNCHANGED <<images, collection, walk>>
  BY <1>7 DEF Bring, FileFails, StoredUnknown, StoreFile, CreateImageFails, PickImage, UploadDies, shelves
<1> QED
  BY <1>1, <1>2, <1>3, <1>4, <1>5, <1>6, <1>7 DEF LibraryNext, libraryVars

LibraryInv == ShelvesInv /\ WalkInv

LEMMA LibraryStepKeeps == LibraryInv /\ [LibraryNext]_libraryVars => LibraryInv'
<1>1. ShelvesInv /\ [LibraryNext]_libraryVars => ShelvesInv'
  BY ShelvesStep
<1>2. ShelvesInv => RowsAre /\ KeysHold
  BY RowsCount, KeysAre
<1>3. ShelvesInv' => RowsAre' /\ KeysHold'
  BY RowsCount, KeysAre, PTL
<1> QED
  BY <1>1, <1>2, <1>3, WalkStep DEF LibraryInv

LEMMA LibraryInitKeeps == LibraryInit => LibraryInv
  BY ShelvesInit DEF LibraryInit, LibraryInv, WalkInv

LEMMA LibraryAlways == LibrarySpec => []LibraryInv
  BY LibraryInitKeeps, LibraryStepKeeps, PTL DEF LibrarySpec

\* Storage, the tables of pictures, the requests that bring files and the reader
\* of a list hold values of their types, whatever fails or ends between steps.
THEOREM LibraryTypeCorrect == LibrarySpec => []LibraryTypeOK
<1>1. LibraryInv => LibraryTypeOK
  BY DEF LibraryInv, ShelvesInv, ShelvesTyped, WalkInv, LibraryTypeOK
<1> QED
  BY <1>1, LibraryAlways, PTL

\* Whatever is uploaded, by however many requests, and whatever fails on the way,
\* a picture that is listed has its file; and who leafs through a list while
\* pictures come and go misses no more than were taken away, for any limit.
THEOREM NothingGoesMissing == LibrarySpec => []NothingIsMissing
<1>1. LibraryInv => NothingIsMissing
  <2> SUFFICES ASSUME LibraryInv PROVE NothingIsMissing
    OBVIOUS
  <2>1. PicturesAreThere
    BY RowsAreCounted DEF LibraryInv
  <2>2. WalkMissesNothing
    <3> SUFFICES ASSUME walk # NoWalk, walk.done,
                        walk.limit > 0 \/ Cardinality(Listed(walk.list)) <= LibraryCap
                 PROVE  Cardinality(walk.unseen) <= walk.removed
      BY DEF WalkMissesNothing
    <3>1. PICK w \in Walk : walk = w /\ Follows(w)
      BY DEF LibraryInv, WalkInv
    <3>2. w.removed \in Nat /\ w.limit \in Nat /\ w.list \in Lists
      BY WalkIs
    <3>3. Cardinality(Listed(w.list)) \in Nat
      BY <3>2, RowsCount DEF LibraryInv, RowsAre
    <3>4. Uncovered(w.list, w.limit) = 0
      BY <3>1, <3>2, <3>3, LibraryConstants DEF Uncovered
    <3>5. Cardinality(w.unseen) <= w.removed + Uncovered(w.list, w.limit)
      BY <3>1 DEF Follows
    <3> QED
      BY <3>1, <3>2, <3>4, <3>5
  <2> QED
    BY <2>1, <2>2 DEF NothingIsMissing
<1> QED
  BY <1>1, LibraryAlways, PTL

-----------------------------------------------------------------------------
\* With all the parts at work at once, in any order of their steps, each keeps to
\* its types: none needs another one to stand still.
THEOREM ServiceTypeCorrect ==
    LimiterSpec /\ GatewaySpec /\ LibrarySpec /\ AccountsSpec /\ RankingsSpec
        => []ServiceTypeOK
<1>1. LimiterTypeOK /\ GatewayTypeOK /\ LibraryTypeOK /\ AccountsTypeOK /\ RankingsTypeOK
          => ServiceTypeOK
  BY DEF ServiceTypeOK
<1> QED
  BY <1>1, LimiterTypeCorrect, GatewayTypeCorrect, LibraryTypeCorrect, AccountsTypeCorrect,
     RankingsTypeCorrect, PTL
=============================================================================
