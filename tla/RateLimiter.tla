----------------------------- MODULE RateLimiter -----------------------------
(***************************************************************************)
(* Rate limiting of POST /log (internal/server/server.go): the middleware   *)
(* keeps a token bucket per client address in a sync.Map, which a cleanup   *)
(* goroutine prunes.  Nothing but the bucket itself is locked: a request    *)
(* and the cleaner may overtake each other between any two of their steps.  *)
(*                                                                         *)
(* Every time is kept as its age, so Tick makes things older.  The unit is  *)
(* what the limiter takes to earn one token: Burst units are a minute.  Ages *)
(* stop counting where no comparison can tell any more.                    *)
(***************************************************************************)
EXTENDS Naturals, FiniteSets

CONSTANTS
    Addresses,  \* results of GetClientIP
    Requests,   \* goroutines that run the middleware
    Entries,    \* rateLimiterEntry objects: heap cells
    Nil,        \* no entry, no address
    Burst,      \* rate_limit: the burst, and the tokens earned in a minute
    Idle,       \* the 24 hours of cleanupRateLimiters
    Stall       \* bound: no goroutine is held up for longer between two steps

\* There are as many cells as can be in use: memory is not what runs out.
ASSUME LimiterAssumption ==
    /\ Nil \notin Entries \cup Addresses
    /\ Addresses \cap {"waiting", "ranging", "stopped"} = {}
    /\ IsFiniteSet(Addresses) /\ IsFiniteSet(Requests) /\ IsFiniteSet(Entries)
    /\ Cardinality(Addresses) + Cardinality(Requests) <= Cardinality(Entries)
    /\ Burst \in Nat \ {0}
    /\ Idle \in Nat /\ Stall \in Nat
    /\ Burst + 2 * Stall <= Idle    \* a minute and two stalls are less than a day

VARIABLES
    limiters,   \* the sync.Map
    tokens,     \* in each entry's bucket, refilled up to now
    lastSeen,   \* of each entry
    pc,         \* of each request
    ip,         \* its client address
    now,        \* the time it took when it came
    entry,      \* the entry it loaded
    cleaner,    \* "waiting", "ranging", or the address whose entry it deletes
    cleanNow,   \* the time the cleaner took
    toVisit,    \* addresses its Range has yet to visit
    admitted    \* history: how many requests were admitted during the last m + 1 units

reqVars   == <<pc, ip, now, entry>>
cleanVars == <<cleaner, cleanNow, toVisit>>
vars == <<limiters, tokens, lastSeen, reqVars, cleanVars, admitted>>

Oldest == Idle + 2 * Stall + 1
Minute == 0 .. Burst - 1

TypeOK ==
    /\ limiters \in [Addresses -> Entries \cup {Nil}]
    /\ tokens \in [Entries -> 0 .. Burst]
    /\ lastSeen \in [Entries -> 0 .. Oldest]
    /\ pc \in [Requests -> {"idle", "load", "touch", "allow"}]
    /\ ip \in [Requests -> Addresses \cup {Nil}]
    /\ now \in [Requests -> 0 .. Stall]
    /\ entry \in [Requests -> Entries \cup {Nil}]
    /\ cleaner \in {"waiting", "ranging", "stopped"} \cup Addresses
    /\ cleanNow \in 0 .. Stall
    /\ toVisit \subseteq Addresses
    /\ admitted \in [Addresses -> [Minute -> Nat]]

Init ==
    /\ limiters = [a \in Addresses |-> Nil]
    /\ tokens = [e \in Entries |-> Burst]
    /\ lastSeen = [e \in Entries |-> 0]
    /\ pc = [r \in Requests |-> "idle"]
    /\ ip = [r \in Requests |-> Nil]
    /\ now = [r \in Requests |-> 0]
    /\ entry = [r \in Requests |-> Nil]
    /\ cleaner = "waiting" /\ cleanNow = 0 /\ toVisit = {}
    /\ admitted = [a \in Addresses |-> [m \in Minute |-> 0]]

-----------------------------------------------------------------------------
(* The heap and the clock *)

InUse(e) == (\E a \in Addresses : limiters[a] = e) \/ (\E r \in Requests : entry[r] = e)

\* rate.NewLimiter: a new bucket is full.  A cell nothing refers to is free.
NewEntry == CHOOSE e \in Entries : ~InUse(e)
Heap(t, s) ==
    /\ tokens' = [e \in Entries |-> IF InUse(e)' THEN t[e] ELSE Burst]
    /\ lastSeen' = [e \in Entries |-> IF InUse(e)' THEN s[e] ELSE 0]

Active == {r \in Requests : pc[r] # "idle"}
Cleaning == cleaner \notin {"waiting", "stopped"}
AtMost(n, m) == IF n < m THEN n ELSE m

\* One unit passes: every bucket in use earns a token, everything gets older.
Tick ==
    /\ \A r \in Active : now[r] < Stall
    /\ Cleaning => cleanNow < Stall
    /\ now' = [r \in Requests |-> IF r \in Active THEN now[r] + 1 ELSE 0]
    /\ cleanNow' = IF Cleaning THEN cleanNow + 1 ELSE 0
    /\ admitted' = [a \in Addresses |->
                      [m \in Minute |-> IF m = 0 THEN 0 ELSE admitted[a][m - 1]]]
    /\ UNCHANGED <<limiters, pc, ip, entry, cleaner, toVisit>>
    /\ Heap([e \in Entries |-> AtMost(tokens[e] + 1, Burst)],
            [e \in Entries |-> AtMost(lastSeen[e] + 1, Oldest)])

-----------------------------------------------------------------------------
(* rateLimitMiddleware *)

Arrive(r, a) ==
    /\ pc[r] = "idle"
    /\ ip' = [ip EXCEPT ![r] = a]
    /\ pc' = [pc EXCEPT ![r] = "load"]
    /\ UNCHANGED <<limiters, tokens, lastSeen, now, entry, cleanVars, admitted>>

\* LoadOrStore
Load(r) ==
    LET e == IF limiters[ip[r]] = Nil THEN NewEntry ELSE limiters[ip[r]] IN
    /\ pc[r] = "load"
    /\ entry' = [entry EXCEPT ![r] = e]
    /\ limiters' = [limiters EXCEPT ![ip[r]] = e]
    /\ lastSeen' = IF limiters[ip[r]] = Nil THEN [lastSeen EXCEPT ![e] = now[r]] ELSE lastSeen
    /\ pc' = [pc EXCEPT ![r] = "touch"]
    /\ UNCHANGED <<tokens, ip, now, cleanVars, admitted>>

Touched(r) == [lastSeen EXCEPT ![entry[r]] = now[r]]

\* entry.lastSeen = now, without a lock: a late request sets it back.
Touch(r) ==
    /\ pc[r] = "touch"
    /\ lastSeen' = Touched(r)
    /\ pc' = [pc EXCEPT ![r] = "allow"]
    /\ UNCHANGED <<limiters, tokens, ip, now, entry, cleanVars, admitted>>

\* The request leaves the middleware with one token less, or with none there.
Leave(r, taken) ==
    /\ pc[r] = "allow"
    /\ pc' = [pc EXCEPT ![r] = "idle"]
    /\ ip' = [ip EXCEPT ![r] = Nil]
    /\ now' = [now EXCEPT ![r] = 0]
    /\ entry' = [entry EXCEPT ![r] = Nil]
    /\ UNCHANGED <<limiters, cleanVars>>
    /\ Heap([tokens EXCEPT ![entry[r]] = @ - taken], lastSeen)

NoLimit(r) == TRUE                               \* mutant: Allow is called in vain
OneSpared(r) == tokens[entry[r]] > 1             \* mutant: the last token is never used
HasToken(r) == tokens[entry[r]] > 0

\* limiter.Allow(), which has a lock of its own and reads the clock again.
Admit(r) ==
    /\ pc[r] = "allow"
    /\ HasToken(r)
    /\ Leave(r, 1)
    /\ admitted' = [admitted EXCEPT ![ip[r]] = [m \in Minute |-> @[m] + 1]]

Refuse(r) ==
    /\ pc[r] = "allow"
    /\ ~HasToken(r)
    /\ Leave(r, 0)
    /\ UNCHANGED admitted

RequestStep(r) == Load(r) \/ Touch(r) \/ Admit(r) \/ Refuse(r)

-----------------------------------------------------------------------------
(* cleanupRateLimiters *)

StartCleanup ==
    /\ cleaner = "waiting"
    /\ cleaner' = "ranging"
    /\ toVisit' = {a \in Addresses : limiters[a] # Nil}
    /\ UNCHANGED <<limiters, tokens, lastSeen, reqVars, cleanNow, admitted>>

StillFresh(e) == lastSeen[e] <= cleanNow + Idle  \* mutant: the comparison is turned
NeverExpires(e) == FALSE                         \* mutant: cleanup keeps everything
\* now.Sub(entry.lastSeen) > 24*time.Hour, for the cleaner's now.
Expired(e) == lastSeen[e] > cleanNow + Idle

Examine(a) ==
    /\ cleaner = "ranging"
    /\ a \in toVisit
    /\ toVisit' = toVisit \ {a}
    /\ cleaner' = IF limiters[a] # Nil /\ Expired(limiters[a]) THEN a ELSE "ranging"
    /\ UNCHANGED <<limiters, tokens, lastSeen, reqVars, cleanNow, admitted>>

\* Whatever the map holds for the address by now is deleted.
Delete(a) ==
    /\ cleaner = a
    /\ limiters' = [limiters EXCEPT ![a] = Nil]
    /\ cleaner' = "ranging"
    /\ UNCHANGED <<reqVars, cleanNow, toVisit, admitted>>
    /\ Heap(tokens, lastSeen)

EndCleanup ==
    /\ cleaner = "ranging"
    /\ toVisit = {}
    /\ cleaner' = "waiting"
    /\ cleanNow' = 0
    /\ UNCHANGED <<limiters, tokens, lastSeen, reqVars, toVisit, admitted>>

CleanerStep ==
    \/ StartCleanup
    \/ \E a \in Addresses : Examine(a) \/ Delete(a)
    \/ EndCleanup

\* Shutdown closed shutdownChan.
StopCleaner ==
    /\ cleaner = "waiting"
    /\ cleaner' = "stopped"
    /\ UNCHANGED <<limiters, tokens, lastSeen, reqVars, cleanNow, toVisit, admitted>>

-----------------------------------------------------------------------------
Next ==
    \/ Tick
    \/ \E r \in Requests : (\E a \in Addresses : Arrive(r, a)) \/ RequestStep(r)
    \/ CleanerStep
    \/ StopCleaner

Spec == Init /\ [][Next]_vars

\* Time passes, requests run, the ticker fires until the server shuts down.
FairSpec ==
    /\ Spec
    /\ WF_vars(Tick)
    /\ \A r \in Requests : WF_vars(RequestStep(r))
    /\ WF_vars(CleanerStep)

-----------------------------------------------------------------------------
(* Properties *)

LastMinute(a) == admitted[a][Burst - 1]

\* However requests and cleanup race, an address gets no more within a minute
\* than two full buckets, the tokens earned meanwhile, and what the bucket that
\* was deleted earns for requests that still hold it: a cleanup can give a
\* returning client one bucket too many, never a second one.  README.md:147 calls
\* rate_limit the "max requests per minute per IP"; already a full bucket and what
\* it earns while it is emptied are about twice that.
AdmissionBound ==
    \A a \in Addresses : LastMinute(a) <= 2 * Burst + (Burst - 1) + Stall

\* A client is refused only if its full allowance was admitted during the last
\* minute: neither the unlocked lastSeen nor a cleanup takes tokens away.
RefusedOnlyWhenBusy ==
    [][\A r \in Requests :
        (pc[r] = "allow" /\ pc'[r] = "idle" /\ admitted' = admitted) =>
            LastMinute(ip[r]) >= Burst]_vars

\* The limiter of an address that stops calling goes away.
LimitersReclaimed ==
    \A a \in Addresses :
        <>[](\A r \in Requests : ip[r] # a) =>
            <>[](cleaner = "stopped" \/ limiters[a] = Nil)
=============================================================================
