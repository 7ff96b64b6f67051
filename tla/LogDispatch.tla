----------------------------- MODULE LogDispatch -----------------------------
(***************************************************************************)
(* processAndLogToDestinations (internal/handler/common_log.go): the loop   *)
(* in which every request writes its record to its target destinations,    *)
(* interleaved with other requests and with the reload goroutine's calls of *)
(* Manager.InitLoggers.  Used by POST /log and for script downloads.       *)
(*                                                                         *)
(* A handler reads the map once for the names and then once per name; the   *)
(* locks are released in between, and the instance it looked up may be     *)
(* closed before it writes.  Record contents are not modelled here.        *)
(***************************************************************************)
EXTENDS LoggerManager, FiniteSets, Sequences

CONSTANTS
    Requests,    \* handler goroutines: slots that serve one request after another
    AllEnabled,  \* a rule without log_destinations: TargetDestinations == nil
    TargetLists, \* log_destinations lists of the rules
    BadAdds      \* destinations whose add_log_data makes EnrichAndMerge fail

ASSUME DispatchAssumption ==
    /\ TargetLists \subseteq Seq(Dests)
    /\ AllEnabled \notin Seq(Dests)
    /\ BadAdds \subseteq Dests
    /\ IsFiniteSet(Dests)
    /\ Configs # {}

VARIABLES
    pc,         \* where the handler is
    targets,    \* ruleResult.TargetDestinations
    list,       \* targetDestinations, before the filter
    plan,       \* the positions of list that passed the filter of line 41
    todo,       \* the positions the loop has not reached
    at,         \* the position being written
    held,       \* loggerInstance
    anySuccess,
    stored,     \* which instance stored the record, for which position
    seenGen,    \* gen when the names were read
    faulted,    \* requests that met a failing disk or network
    reopened    \* <<r, i>>: a write of r reopened the closed instance i

reqVars == <<pc, targets, list, plan, todo, at, held, anySuccess, stored, seenGen, faulted>>
vars == <<mgrVars, reqVars, reopened>>

Lists == TargetLists \cup {AllEnabled}
Inside == {"names", "loop", "write"}

TypeOK ==
    /\ MgrTypeOK
    /\ pc \in [Requests -> {"idle", "answered"} \cup Inside]
    /\ targets \in [Requests -> Lists]
    /\ list \in [Requests -> Seq(Dests)]
    /\ plan \in [Requests -> SUBSET Nat]
    /\ todo \in [Requests -> SUBSET Nat]
    /\ at \in [Requests -> Nat]
    /\ held \in [Requests -> Instance \cup {NoLogger}]
    /\ anySuccess \in [Requests -> BOOLEAN]
    /\ stored \in [Requests -> SUBSET [pos : Nat, by : Instance]]
    /\ seenGen \in [Requests -> Nat]
    /\ faulted \subseteq Requests
    /\ reopened \subseteq Requests \X Instance

\* The server is started after InitLoggers returned without an error.
StartMap(c) == [d \in Dests |->
    IF d \in EnabledIn(c) THEN [dest |-> d, kind |-> c[d], gen |-> 1] ELSE NoLogger]

Init ==
    /\ \E c \in Configs : conf = c /\ loggers = StartMap(c)
    /\ op = "idle"
    /\ toClose = {} /\ toCreate = {} /\ initErrors = {}
    /\ gen = 1
    /\ created = Published
    /\ closed = {}
    /\ pc = [r \in Requests |-> "idle"]
    /\ targets = [r \in Requests |-> AllEnabled]
    /\ list = [r \in Requests |-> <<>>]
    /\ plan = [r \in Requests |-> {}]
    /\ todo = [r \in Requests |-> {}]
    /\ at = [r \in Requests |-> 0]
    /\ held = [r \in Requests |-> NoLogger]
    /\ anySuccess = [r \in Requests |-> FALSE]
    /\ stored = [r \in Requests |-> {}]
    /\ seenGen = [r \in Requests |-> 0]
    /\ faulted = {}
    /\ reopened = {}

-----------------------------------------------------------------------------
(* The handler *)

\* The rules have been evaluated; t is the deciding rule's destination list.
Arrive(r, t) ==
    /\ pc[r] \in {"idle", "answered"}
    /\ pc' = [pc EXCEPT ![r] = "names"]
    /\ targets' = [targets EXCEPT ![r] = t]
    /\ list' = [list EXCEPT ![r] = <<>>]
    /\ plan' = [plan EXCEPT ![r] = {}]
    /\ todo' = [todo EXCEPT ![r] = {}]
    /\ held' = [held EXCEPT ![r] = NoLogger]
    /\ anySuccess' = [anySuccess EXCEPT ![r] = FALSE]
    /\ stored' = [stored EXCEPT ![r] = {}]
    /\ faulted' = faulted \ {r}
    /\ UNCHANGED <<at, seenGen, mgrVars, reopened>>

\* m.mu.RLock() is granted.
NoRLock == TRUE                                  \* mutant: the map is read unlocked
RLock == Unlocked

EnabledNames == {d \in Dests : loggers[d] # NoLogger}

\* A Go map is iterated in any order, every key once.
Orders(S) == {s \in [1 .. Cardinality(S) -> S] : \A d \in S : \E k \in DOMAIN s : s[k] = d}

\* GetAllEnabledLoggerNames under the read lock, then the filter: no lock.
ReadNames(r) ==
    /\ pc[r] = "names"
    /\ RLock
    /\ \E l \in IF targets[r] = AllEnabled THEN Orders(EnabledNames) ELSE {targets[r]} :
        LET passed == {k \in DOMAIN l : l[k] \in EnabledNames} IN
            /\ list' = [list EXCEPT ![r] = l]
            /\ plan' = [plan EXCEPT ![r] = passed]
            /\ todo' = [todo EXCEPT ![r] = passed]
    /\ seenGen' = [seenGen EXCEPT ![r] = gen]
    /\ pc' = [pc EXCEPT ![r] = "loop"]
    /\ UNCHANGED <<targets, at, held, anySuccess, stored, faulted, mgrVars, reopened>>

AnyPosition(r, k) == k \in todo[r]               \* mutant: the list has no order
IsNext(r, k) == k \in todo[r] /\ \A j \in todo[r] : k <= j

\* A nil logger, or an error while the record is enriched: continue.
SkipsBadAdds(r, k) == list[r][k] \in BadAdds     \* mutant: nil is not checked
Skips(r, k) == loggers[list[r][k]] = NoLogger \/ list[r][k] \in BadAdds

RetriesNil(r, k) ==                              \* mutant: waits for the logger
    IF loggers[list[r][k]] = NoLogger THEN todo[r] ELSE todo[r] \ {k}
Remaining(r, k) == todo[r] \ {k}

\* One round of the loop, from GetLogger under the read lock to the record
\* being ready for Log.
LookUp(r, k) ==
    /\ pc[r] = "loop"
    /\ IsNext(r, k)
    /\ RLock
    /\ todo' = [todo EXCEPT ![r] = Remaining(r, k)]
    /\ held' = [held EXCEPT ![r] = loggers[list[r][k]]]
    /\ at' = [at EXCEPT ![r] = k]
    /\ pc' = [pc EXCEPT ![r] = IF Skips(r, k) THEN "loop" ELSE "write"]
    /\ UNCHANGED <<targets, list, plan, anySuccess, stored, seenGen, faulted, mgrVars, reopened>>

\* After Close a plain file refuses every write; lumberjack opens its file
\* again, and a GELF writer over TCP connects again while one over UDP fails.
ClosedForGood(i) == i \in closed /\ i.kind = "file"
MayRefuse(i)     == i \in closed /\ i.kind \in {"file", "gelf"}

\* loggerInstance.Log(finalRecord), under the instance's own mutex.
WriteSucceeds(r) ==
    /\ pc[r] = "write"
    /\ ~ClosedForGood(held[r])
    /\ stored' = [stored EXCEPT ![r] = @ \cup {[pos |-> at[r], by |-> held[r]]}]
    /\ anySuccess' = [anySuccess EXCEPT ![r] = TRUE]
    /\ reopened' = IF held[r] \in closed THEN reopened \cup {<<r, held[r]>>} ELSE reopened
    /\ pc' = [pc EXCEPT ![r] = "loop"]
    /\ UNCHANGED <<targets, list, plan, todo, at, held, seenGen, faulted, mgrVars>>

FailsAsSuccess(r) ==                             \* mutant: the error is not looked at
    /\ pc[r] = "write"
    /\ anySuccess' = [anySuccess EXCEPT ![r] = TRUE]
    /\ faulted' = IF MayRefuse(held[r]) THEN faulted ELSE faulted \cup {r}
    /\ pc' = [pc EXCEPT ![r] = "loop"]
    /\ UNCHANGED <<targets, list, plan, todo, at, held, stored, seenGen, mgrVars, reopened>>

WriteFails(r) ==
    /\ pc[r] = "write"
    /\ faulted' = IF MayRefuse(held[r]) THEN faulted ELSE faulted \cup {r}
    /\ pc' = [pc EXCEPT ![r] = "loop"]
    /\ UNCHANGED <<targets, list, plan, todo, at, held, anySuccess, stored, seenGen,
                   mgrVars, reopened>>

FirstSuccessEnds(r) == anySuccess[r] \/ todo[r] = {}  \* mutant: one success is enough
LoopEnds(r) == todo[r] = {}

\* return anySuccess: the caller answers X-Log-Status success or error.
Answer(r) ==
    /\ pc[r] = "loop"
    /\ LoopEnds(r)
    /\ pc' = [pc EXCEPT ![r] = "answered"]
    /\ held' = [held EXCEPT ![r] = NoLogger]
    /\ UNCHANGED <<targets, list, plan, todo, at, anySuccess, stored, seenGen, faulted,
                   mgrVars, reopened>>

HandlerStep(r) ==
    \/ ReadNames(r)
    \/ \E k \in todo[r] : LookUp(r, k)
    \/ WriteSucceeds(r)
    \/ WriteFails(r)
    \/ Answer(r)

-----------------------------------------------------------------------------
(* The reload goroutine.  The program never calls CloseAll: see ConfigReload. *)

\* Close releases a file or connection that a late write had opened again.
ReloadStep ==
    /\ \/ \E c \in Configs : InitLoggers(c)
       \/ InitLoggersStep
    /\ reopened' = {p \in reopened : p[2] \notin closed' \ closed}
    /\ UNCHANGED reqVars

Next ==
    \/ \E r \in Requests : (\E t \in Lists : Arrive(r, t)) \/ HandlerStep(r)
    \/ ReloadStep

Spec == Init /\ [][Next]_vars

\* Goroutines that can run do run.  A reader that finds the lock taken is let
\* in before the next writer (sync.RWMutex), hence strong fairness.
FairSpec ==
    /\ Spec
    /\ WF_vars(InitLoggersStep /\ ReloadStep)
    /\ \A r \in Requests : SF_vars(HandlerStep(r))

-----------------------------------------------------------------------------
(* Properties *)

Answered(r) == pc[r] = "answered"

\* Success is answered exactly if some logger instance stored the record.
SuccessMeansStored ==
    \A r \in Requests : pc[r] # "idle" => (anySuccess[r] <=> stored[r] # {})

\* A request that ran between two reloads and met no fault has stored its
\* record for every entry of its target list that was enabled, skipping only
\* those whose enrichment fails; every one through an instance that was
\* still open.
CompleteBetweenReloads ==
    \A r \in Requests :
        (Answered(r) /\ seenGen[r] = gen /\ r \notin faulted) =>
            /\ {s.pos : s \in stored[r]} = {k \in plan[r] : list[r][k] \notin BadAdds}
            /\ \A s \in stored[r] : s.by \notin closed

\* Whatever reloads happen meanwhile: an entry of the target list is stored
\* at most once, by an instance of the destination it names, and later
\* entries never go to an older generation of loggers than earlier ones.
OrderedOnce ==
    \A r \in Requests : \A s, t \in stored[r] :
        /\ s.by.dest = list[r][s.pos]
        /\ s.pos = t.pos => s = t
        /\ s.pos < t.pos => s.by.gen <= t.by.gen

\* A destination that every configuration writes through lumberjack loses no
\* record to a reload, even if the handler holds the instance that was closed.
RotatedSurvivesReload ==
    \A r \in Requests : (Answered(r) /\ r \notin faulted) =>
        \A k \in plan[r] :
            (list[r][k] \notin BadAdds /\ \A c \in Configs : c[list[r][k]] = "rotated")
                => \E s \in stored[r] : s.pos = k

\* A handler is given an instance only while that instance is open.
LookUpFindsOpen ==
    [][\A r \in Requests : (pc[r] = "loop" /\ pc'[r] = "write") => held'[r] \notin closed']_vars

\* The price of closing loggers under handlers: the reopened file or
\* connection of a replaced instance is never closed again, but a request
\* reopens at most one instance of each generation.
LeakIsBounded ==
    /\ \A p \in reopened : p[2] \in closed
    /\ \A p, q \in reopened : (p[1] = q[1] /\ p[2].gen = q[2].gen) => p = q

\* Every request is answered, whatever the reload goroutine does.
EveryRequestAnswered == \A r \in Requests : pc[r] \in Inside ~> Answered(r)

-----------------------------------------------------------------------------
(* LogDispatch implements LogDelivery *)

ListRange(l) == {l[k] : k \in DOMAIN l}

StatusOf(r) ==
    CASE pc[r] = "idle"     -> "idle"
      [] pc[r] \in Inside   -> "accepted"
      [] pc[r] = "answered" -> IF anySuccess[r] THEN "success" ELSE "error"

\* Where a list is still to be read from the map, any destination will do.
WantedBy(r) ==
    CASE pc[r] = "idle"                              -> {}
      [] pc[r] # "idle" /\ targets[r] = AllEnabled   -> Dests
      [] pc[r] # "idle" /\ targets[r] # AllEnabled   -> ListRange(targets[r])

DeliveredFor(r) == {s.by.dest : s \in stored[r]}

statusBar    == [r \in Requests |-> StatusOf(r)]
wantedBar    == [r \in Requests |-> WantedBy(r)]
deliveredBar == [r \in Requests |-> DeliveredFor(r)]

Promise == INSTANCE LogDelivery
    WITH status <- statusBar, wanted <- wantedBar, delivered <- deliveredBar

KeepsPromise == Promise!Spec
=============================================================================
