---------------------------- MODULE LoggerManager ----------------------------
(***************************************************************************)
(* internal/logger/manager.go: the table of logger instances that request  *)
(* handlers share, rebuilt by InitLoggers (start-up and every reload of the *)
(* configuration) and emptied by CloseAll.                                 *)
(*                                                                         *)
(* Both operations hold the write side of Manager.mu from their first line *)
(* to their return, so readers (GetLogger, GetAllEnabledLoggerNames) wait  *)
(* for them; but the instances themselves are reachable without that lock  *)
(* by a handler that looked one up before.  Each Close is therefore a step *)
(* of its own.                                                             *)
(***************************************************************************)
EXTENDS Naturals

CONSTANTS
    Dests,      \* destination names
    Configs,    \* the log_destinations lists that pass ValidateConfig
    NoLogger,   \* Go's nil: no entry in the map
    MaxGen      \* bound: how often InitLoggers and CloseAll may be called

\* A file destination without rotation, one written through lumberjack, and
\* a Graylog destination.
Kinds == {"file", "rotated", "gelf"}

\* An instance is told apart from its predecessors by the call that made it.
Instance == [dest : Dests, kind : Kinds, gen : Nat]

\* A configuration gives each name the kind of its enabled destination, or
\* "off" when the name is disabled or not listed.
ASSUME ManagerAssumption ==
    /\ Configs \subseteq [Dests -> Kinds \cup {"off"}]
    /\ NoLogger \notin Instance
    /\ MaxGen \in Nat

VARIABLES
    loggers,    \* Manager.loggers
    op,         \* who holds the write lock, and how far it is
    conf,       \* the argument of the running InitLoggers
    toClose,    \* instances the running call has yet to close
    toCreate,   \* destinations the running InitLoggers has yet to create
    initErrors, \* destinations the last InitLoggers failed to create
    gen,        \* calls of InitLoggers and CloseAll so far
    created,    \* every instance ever made
    closed      \* every instance on which Close was called

mgrVars == <<loggers, op, conf, toClose, toCreate, initErrors, gen, created, closed>>

Published == {loggers[d] : d \in Dests} \ {NoLogger}
Unlocked  == op = "idle"
EmptyMap  == [d \in Dests |-> NoLogger]
NoConfig  == [d \in Dests |-> "off"]

EnabledIn(c) == {d \in Dests : c[d] # "off"}

\* The instances a call closes before it touches the map.
OldFiles == {i \in Published : i.kind # "gelf"}  \* mutant: connections are not closed
OldLoggers == Published

\* Opening a file or a connection can fail; lumberjack opens its file at the
\* first write, and the rotation settings were parsed by ValidateConfig.
MayFailToOpen(kind) == kind \in {"file", "gelf"}
NewLogger(d) == [dest |-> d, kind |-> conf[d], gen |-> gen]

MgrTypeOK ==
    /\ loggers \in [Dests -> Instance \cup {NoLogger}]
    /\ op \in {"idle", "closing", "creating", "closingAll"}
    /\ conf \in Configs \cup {NoConfig}
    /\ toClose \subseteq Instance
    /\ toCreate \subseteq Dests
    /\ initErrors \subseteq Dests
    /\ gen \in Nat
    /\ created \subseteq Instance
    /\ closed \subseteq Instance

\* NewManager
MgrInit ==
    /\ loggers = EmptyMap
    /\ op = "idle"
    /\ conf = NoConfig
    /\ toClose = {}
    /\ toCreate = {}
    /\ initErrors = {}
    /\ gen = 0
    /\ created = {}
    /\ closed = {}

-----------------------------------------------------------------------------
(* InitLoggers *)

InitLoggers(c) ==
    /\ Unlocked
    /\ gen < MaxGen
    /\ op' = "closing"
    /\ conf' = c
    /\ gen' = gen + 1
    /\ toClose' = OldLoggers
    /\ initErrors' = {}
    /\ UNCHANGED <<loggers, toCreate, created, closed>>

\* One Close of the loop of InitLoggers, in the order of a Go map iteration,
\* or of one of the goroutines of CloseAll.  An error is logged, not acted on.
CloseOne(i) ==
    /\ op \in {"closing", "closingAll"}
    /\ i \in toClose
    /\ toClose' = toClose \ {i}
    /\ closed' = closed \cup {i}
    /\ UNCHANGED <<loggers, op, conf, toCreate, initErrors, gen, created>>

OldEntriesStay ==                                \* mutant: the map is not replaced
    /\ op = "closing"
    /\ toClose = {}
    /\ toCreate' = EnabledIn(conf)
    /\ op' = "creating"
    /\ UNCHANGED <<loggers, conf, toClose, initErrors, gen, created, closed>>

ResetMap ==
    /\ op = "closing"
    /\ toClose = {}
    /\ loggers' = EmptyMap
    /\ toCreate' = EnabledIn(conf)
    /\ op' = "creating"
    /\ UNCHANGED <<conf, toClose, initErrors, gen, created, closed>>

CreateLogger(d) ==
    /\ op = "creating"
    /\ d \in toCreate
    /\ toCreate' = toCreate \ {d}
    /\ loggers' = [loggers EXCEPT ![d] = NewLogger(d)]
    /\ created' = created \cup {NewLogger(d)}
    /\ UNCHANGED <<op, conf, toClose, initErrors, gen, closed>>

FirstErrorStops(d) ==                            \* mutant: return at the first error
    /\ op = "creating"
    /\ d \in toCreate
    /\ MayFailToOpen(conf[d])
    /\ toCreate' = {}
    /\ initErrors' = initErrors \cup {d}
    /\ UNCHANGED <<loggers, op, conf, toClose, gen, created, closed>>

\* The error is collected and the loop goes on: the destination stays absent.
CreateFails(d) ==
    /\ op = "creating"
    /\ d \in toCreate
    /\ MayFailToOpen(conf[d])
    /\ toCreate' = toCreate \ {d}
    /\ initErrors' = initErrors \cup {d}
    /\ UNCHANGED <<loggers, op, conf, toClose, gen, created, closed>>

InitReturns ==
    /\ op = "creating"
    /\ toCreate = {}
    /\ op' = "idle"
    /\ UNCHANGED <<loggers, conf, toClose, toCreate, initErrors, gen, created, closed>>

InitLoggersStep ==
    \/ \E i \in toClose : op = "closing" /\ CloseOne(i)
    \/ ResetMap
    \/ \E d \in Dests : CreateLogger(d) \/ CreateFails(d)
    \/ InitReturns

-----------------------------------------------------------------------------
(* CloseAll.  The program never gets to it (see ConfigReload): it is the last *)
(* operation of the manager's interface, and LoggerManagerProofs covers it.  *)

CloseAll ==
    /\ Unlocked
    /\ gen < MaxGen
    /\ op' = "closingAll"
    /\ gen' = gen + 1
    /\ toClose' = OldLoggers
    /\ UNCHANGED <<loggers, conf, toCreate, initErrors, created, closed>>

\* wg.Wait() is over: every goroutine has closed its logger.
CloseAllReturns ==
    /\ op = "closingAll"
    /\ toClose = {}
    /\ loggers' = EmptyMap
    /\ op' = "idle"
    /\ UNCHANGED <<conf, toClose, toCreate, initErrors, gen, created, closed>>

CloseAllStep ==
    \/ \E i \in toClose : op = "closingAll" /\ CloseOne(i)
    \/ CloseAllReturns

-----------------------------------------------------------------------------
MgrNext ==
    \/ \E c \in Configs : InitLoggers(c)
    \/ InitLoggersStep
    \/ CloseAll
    \/ CloseAllStep

MgrSpec == MgrInit /\ [][MgrNext]_mgrVars

-----------------------------------------------------------------------------
(* Properties *)

\* Whenever a reader can take the lock, the map holds exactly the instances
\* that are not closed: a handler is never given a closed logger, and no
\* logger that left the map is left open.
PublishedIffOpen == Unlocked => Published = created \ closed

\* The map files every instance under its own name, and the instances a
\* reader finds there come from one and the same call of InitLoggers.
OneGeneration ==
    /\ \A i \in Published : loggers[i.dest] = i
    /\ Unlocked => \A i, j \in Published : i.gen = j.gen

\* What InitLoggers leaves behind when it returns: a new instance of the
\* configured kind for every enabled destination whose creation did not fail,
\* and no other entry, whatever was in the map before and however many
\* creations failed on the way.
MapFollowsConfig ==
    [][ (op = "creating" /\ Unlocked') =>
            loggers' = [d \in Dests |->
                IF d \in EnabledIn(conf) \ initErrors' THEN NewLogger(d) ELSE NoLogger]
      ]_mgrVars

\* Close is called at most once on an instance, and only while the map still
\* names it: a second Close of an *os.File is an error.
ClosedOnceFromMap ==
    [][ /\ op' \in {"closing", "closingAll"} => toClose' \cap closed' = {}
        /\ \A i \in closed' \ closed : loggers[i.dest] = i ]_mgrVars
=============================================================================
