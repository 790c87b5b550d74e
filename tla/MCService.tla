------------------------------- MODULE MCService -------------------------------
(* Small instances, for TLC, of the components that share no state: a behaviour  *)
(* is one of them alone, the others as they are to begin with.                   *)
EXTENDS RateLimiter, Gateway, Library, Accounts, Rankings

CONSTANT RetreatRow \* the progress of the player who retreats

VARIABLE active

components == <<limiterVars, gatewayVars, libraryVars, accountsVars, rankingsVars>>

MCInit ==
    /\ active \in {"limiter", "gateway", "library", "accounts", "rankings"}
    /\ LimiterInit /\ GatewayInit /\ LibraryInit /\ AccountsInit /\ RankingsInit
    /\ active # "accounts" => adminEmails = {}

LimiterStep ==
    /\ active = "limiter" /\ LimiterNext
    /\ UNCHANGED <<active, gatewayVars, libraryVars, accountsVars, rankingsVars>>

\* Of the two rows, retreats have to do with one, and rows are locked while two
\* calls at the most are more than probes.  (What this keeps out, to come in or
\* to ask for a row, no fairness asks for.)  There is one probe at a time.
Probes    == {c \in Calls : route[c] = "probe"}
NoProbes  == {c \in Calls : stage[c] # "out"} \ Probes
AskedFor  == UNION {locks[c] \cup wants[c] : c \in Calls}
SmallGateway ==
    /\ \A c \in Calls : route[c] = "retreat" => locks[c] \cup wants[c] \subseteq {RetreatRow}
    /\ Cardinality(Probes) <= 1
    /\ AskedFor # {} => Cardinality(NoProbes) <= 2

GatewayStep ==
    /\ active = "gateway" /\ GatewayNext /\ SmallGateway'
    /\ UNCHANGED <<active, limiterVars, libraryVars, accountsVars, rankingsVars>>

\* Of the library's pictures, one at the most is not what its reader looks for;
\* one file at the most has lost its row, before anybody reads; and there is a
\* collection only while nobody looks into the library.  Games bring the first
\* picture only, and batches are through before anybody reads.
Unmatched == {i \in Ids : images[i].library /\ ~images[i].matches}
Searching == Unmatched # {} \/ (walk # NoWalk /\ walk.list = "library")
SmallUpload(r) ==
    /\ r.purpose = "game" => Len(images) <= 1
    /\ walk # NoWalk => r.left = 1
SmallLibrary ==
    /\ Cardinality(Unmatched) <= 1
    /\ orphaned <= IF walk = NoWalk THEN 1 ELSE 0
    /\ Searching => collection = <<>>
    /\ \A u \in Uploads : upload[u] = NoUpload \/ SmallUpload(upload[u])

LibraryStep ==
    /\ active = "library" /\ LibraryNext /\ SmallLibrary'
    /\ UNCHANGED <<active, limiterVars, gatewayVars, accountsVars, rankingsVars>>

AccountsStep ==
    /\ active = "accounts" /\ AccountsNext
    /\ UNCHANGED <<active, limiterVars, gatewayVars, libraryVars, rankingsVars>>

\* One of the players at the most is ever fast.
RankingsStep ==
    /\ active = "rankings" /\ RankingsNext /\ Cardinality(wasFast') <= 1
    /\ UNCHANGED <<active, limiterVars, gatewayVars, libraryVars, accountsVars>>

MCNext == LimiterStep \/ GatewayStep \/ LibraryStep \/ AccountsStep \/ RankingsStep

MCSpec == MCInit /\ [][MCNext]_<<active, components>> /\ GatewayFairness

\* Every component's values are of their types.
ServiceTypeOK ==
    LimiterTypeOK /\ GatewayTypeOK /\ LibraryTypeOK /\ AccountsTypeOK /\ RankingsTypeOK
=============================================================================
