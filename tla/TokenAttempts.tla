---------------------------- MODULE TokenAttempts ----------------------------
(***************************************************************************)
(* TokenValidationRateLimiter of internal/security/token.go: per key, the   *)
(* failed validations are counted in an entry with its own mutex; entries  *)
(* live in a sync.Map that a cleanup goroutine prunes.  A caller takes the  *)
(* time, then the entry, then the entry's lock, so it may work with an old  *)
(* time on an entry that has left the map.  (No handler uses the limiter    *)
(* yet; callers are whoever calls CheckAndRecordAttempt.)                  *)
(***************************************************************************)
EXTENDS Naturals, FiniteSets

CONSTANTS
    Keys,           \* "IP or IP:siteID"
    Callers,        \* goroutines that call CheckAndRecordAttempt
    Entries,        \* validationAttempts objects: heap cells
    NoEntry,
    MaxAttempts,    \* maxAttempts
    BlockDuration,  \* blockDuration
    Window,         \* the ten minutes of cleanup
    LastCall,       \* bound: calls begin no later
    MaxTime         \* bound on the clock

ASSUME AttemptsAssumption ==
    /\ NoEntry \notin Entries
    /\ IsFiniteSet(Keys) /\ IsFiniteSet(Callers) /\ IsFiniteSet(Entries)
    \* one for each key, and one for each caller to hold on to
    /\ Cardinality(Keys) + Cardinality(Callers) <= Cardinality(Entries)
    /\ MaxAttempts \in Nat
    /\ BlockDuration \in Nat
    /\ Window \in Nat
    /\ LastCall \in Nat
    /\ MaxTime \in Nat \ {0}

VARIABLES
    clock,
    attempts,       \* the sync.Map: the entry of each key
    entry,          \* the validationAttempts objects
    pc,             \* of each caller
    arg,            \* its arguments, and the time it took
    attempt,        \* the entry it loaded
    cleaner,        \* the cleanup goroutine
    cleanNow,       \* the time cleanup took
    toVisit         \* keys its Range has yet to visit

callVars  == <<pc, arg, attempt>>
cleanVars == <<cleaner, cleanNow, toVisit>>
vars == <<clock, attempts, entry, callVars, cleanVars>>

Times == 0 .. MaxTime

\* validationAttempts, and how many failures it let through since the last
\* success (a history variable).  A zero time.Time is 0.
Entry == [count : Nat, firstFail : Times, blockedUntil : 0 .. LastCall + BlockDuration,
          letThrough : Nat]
Zero == [count |-> 0, firstFail |-> 0, blockedUntil |-> 0, letThrough |-> 0]

NoCall == [key |-> NoEntry]

TypeOK ==
    /\ clock \in Times
    /\ attempts \in [Keys -> Entries \cup {NoEntry}]
    /\ entry \in [Entries -> Entry]
    /\ pc \in [Callers -> {"idle", "load", "lock"}]
    /\ arg \in [Callers -> {NoCall} \cup [key : Keys, success : BOOLEAN, now : Times]]
    /\ attempt \in [Callers -> Entries \cup {NoEntry}]
    /\ cleaner \in {"waiting", "ranging"} \cup Keys
    /\ cleanNow \in Times
    /\ toVisit \subseteq Keys

\* The zero time.Time lies before every clock value: the clock starts at 1.
Init ==
    /\ clock = 1
    /\ attempts = [k \in Keys |-> NoEntry]
    /\ entry = [e \in Entries |-> Zero]
    /\ pc = [c \in Callers |-> "idle"]
    /\ arg = [c \in Callers |-> NoCall]
    /\ attempt = [c \in Callers |-> NoEntry]
    /\ cleaner = "waiting"
    /\ cleanNow = 0
    /\ toVisit = {}

Tick ==
    /\ clock < MaxTime
    /\ clock' = clock + 1
    /\ UNCHANGED <<attempts, entry, callVars, cleanVars>>

-----------------------------------------------------------------------------
(* CheckAndRecordAttempt *)

Call(c, k, success) ==
    /\ pc[c] = "idle"
    /\ clock <= LastCall
    /\ arg' = [arg EXCEPT ![c] = [key |-> k, success |-> success, now |-> clock]]
    /\ pc' = [pc EXCEPT ![c] = "load"]
    /\ UNCHANGED <<clock, attempts, entry, attempt, cleanVars>>

InUse(e) == (\E k \in Keys : attempts[k] = e) \/ (\E c \in Callers : attempt[c] = e)

\* The heap: a new entry is zero, whichever cell it gets, and an entry that
\* neither the map nor a caller refers to is gone.
NewEntry == CHOOSE e \in Entries : ~InUse(e)
Update(f) == entry' = [e \in Entries |-> IF InUse(e)' THEN f[e] ELSE Zero]

\* LoadOrStore(key, &validationAttempts{})
LoadOrStore(c) ==
    LET k == arg[c].key IN
    /\ pc[c] = "load"
    /\ pc' = [pc EXCEPT ![c] = "lock"]
    /\ \/ /\ attempts[k] # NoEntry
          /\ attempt' = [attempt EXCEPT ![c] = attempts[k]]
          /\ UNCHANGED attempts
       \/ /\ attempts[k] = NoEntry
          /\ attempt' = [attempt EXCEPT ![c] = NewEntry]
          /\ attempts' = [attempts EXCEPT ![k] = NewEntry]
    /\ UNCHANGED <<clock, entry, arg, cleanVars>>

Return(c) ==
    /\ pc' = [pc EXCEPT ![c] = "idle"]
    /\ arg' = [arg EXCEPT ![c] = NoCall]
    /\ attempt' = [attempt EXCEPT ![c] = NoEntry]
    /\ UNCHANGED <<clock, attempts, cleanVars>>

Blocked(c) == arg[c].now < entry[attempt[c]].blockedUntil

\* return true: the key is blocked, whatever the outcome of the validation.
RefuseBlocked(c) ==
    /\ pc[c] = "lock"
    /\ Blocked(c)
    /\ Return(c)
    /\ Update(entry)

\* return false: a success clears the entry.
RecordSuccess(c) ==
    /\ pc[c] = "lock"
    /\ ~Blocked(c)
    /\ arg[c].success
    /\ Return(c)
    /\ Update([entry EXCEPT ![attempt[c]] = Zero])

BlocksOneLate(n) == n > MaxAttempts              \* mutant: > for >=
Blocks(n) == n >= MaxAttempts

BlockGrows(t, n) == t + n * BlockDuration        \* mutant: longer for every failure
BlockEnd(t, n) == t + BlockDuration

\* return true when the count reaches the limit, and false below it.
RecordFailure(c) ==
    LET e == entry[attempt[c]]
        n == e.count + 1 IN
    /\ pc[c] = "lock"
    /\ ~Blocked(c)
    /\ ~arg[c].success
    /\ Return(c)
    /\ Update([entry EXCEPT ![attempt[c]] =
         [count        |-> n,
          firstFail    |-> IF e.count = 0 THEN arg[c].now ELSE e.firstFail,
          blockedUntil |-> IF Blocks(n) THEN BlockEnd(arg[c].now, n) ELSE e.blockedUntil,
          letThrough   |-> IF Blocks(n) THEN e.letThrough ELSE e.letThrough + 1]])

CallerStep(c) ==
    \/ LoadOrStore(c)
    \/ RefuseBlocked(c)
    \/ RecordSuccess(c)
    \/ RecordFailure(c)

-----------------------------------------------------------------------------
(* cleanup, started by the ticker *)

StartCleanup ==
    /\ cleaner = "waiting"
    /\ cleaner' = "ranging"
    /\ cleanNow' = clock
    /\ toVisit' = Keys
    /\ UNCHANGED <<clock, attempts, entry, callVars>>

OnlySuccessful(e) ==                             \* mutant: old failures are kept
    cleanNow > e.blockedUntil /\ e.count = 0
Removable(e) ==
    /\ cleanNow > e.blockedUntil
    /\ e.count = 0 \/ cleanNow - e.firstFail > Window

\* The entry is examined under its lock, which is then released: if it is to
\* go, the cleaner holds nothing when it comes to delete it.
Examine(k) ==
    /\ cleaner = "ranging"
    /\ k \in toVisit
    /\ toVisit' = toVisit \ {k}
    /\ cleaner' = IF attempts[k] # NoEntry /\ Removable(entry[attempts[k]]) THEN k ELSE "ranging"
    /\ UNCHANGED <<clock, attempts, entry, callVars, cleanNow>>

Delete(k) ==
    /\ cleaner = k
    /\ attempts' = [attempts EXCEPT ![k] = NoEntry]
    /\ cleaner' = "ranging"
    /\ UNCHANGED <<clock, callVars, cleanNow, toVisit>>
    /\ Update(entry)

EndCleanup ==
    /\ cleaner = "ranging"
    /\ toVisit = {}
    /\ cleaner' = "waiting"
    /\ cleanNow' = 0
    /\ UNCHANGED <<clock, attempts, entry, callVars, toVisit>>

CleanerStep ==
    \/ StartCleanup
    \/ \E k \in Keys : Examine(k) \/ Delete(k)
    \/ EndCleanup

-----------------------------------------------------------------------------
Next ==
    \/ Tick
    \/ \E c \in Callers :
        \/ \E k \in Keys, success \in BOOLEAN : Call(c, k, success)
        \/ CallerStep(c)
    \/ CleanerStep

Spec == Init /\ [][Next]_vars

\* Time passes, the ticker fires, a caller gets the lock of its entry.
FairSpec ==
    /\ Spec
    /\ WF_vars(Tick)
    /\ WF_vars(CleanerStep)
    /\ \A c \in Callers : WF_vars(CallerStep(c))

-----------------------------------------------------------------------------
(* Properties *)

\* An entry lets at most MaxAttempts - 1 failures through between two
\* successes, however many callers race for it and however often a block
\* expires in between.
FailuresAreBounded ==
    \A e \in Entries : entry[e].letThrough > 0 => entry[e].letThrough < MaxAttempts

\* The map does not grow for ever: once no more calls come (after LastCall),
\* every key loses its entry, blocked or not.
EntriesReclaimed == \A k \in Keys : <>[](attempts[k] = NoEntry)

(* What the comment of cleanup says and the code does not do *)

\* "cleanup removes entries that are no longer blocked and have no recent
\* failures": an attempt that blocks the key between the unlock and the Delete
\* of cleanup loses its block.
CleanupKeepsBlocked ==
    [][\A k \in Keys :
        (attempts[k] # NoEntry /\ attempts'[k] = NoEntry) =>
            clock >= entry[attempts[k]].blockedUntil]_vars
=============================================================================
