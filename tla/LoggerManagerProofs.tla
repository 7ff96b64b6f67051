-------------------------- MODULE LoggerManagerProofs --------------------------
(***************************************************************************)
(* Proofs about LoggerManager for any destinations, configurations and     *)
(* number of calls.  The inductive invariant MgrInv says, for every phase  *)
(* of a call, how the map, the instances made and those closed relate.     *)
(***************************************************************************)
EXTENDS LoggerManager, TLAPS

\* Every entry is filed under its own name and came from an earlier call.
MapWellFormed ==
    /\ \A d \in Dests : loggers[d] # NoLogger =>
            loggers[d].dest = d /\ loggers[d].gen <= gen
    /\ Published \subseteq created
    /\ closed \subseteq created
    /\ \A i \in created : i.gen <= gen

InvIdle ==
    op = "idle" =>
        /\ toClose = {}
        /\ Published = created \ closed
        /\ \A i, j \in Published : i.gen = j.gen

InvClosing ==
    op \in {"closing", "closingAll"} =>
        /\ toClose \subseteq Published
        /\ toClose = created \ closed
        /\ \A i, j \in Published : i.gen = j.gen
        /\ \A i \in created : i.gen < gen

InvCreating ==
    op = "creating" =>
        /\ toClose = {}
        /\ Published = created \ closed
        /\ \A i \in Published : i.gen = gen
        /\ \A i \in closed : i.gen < gen
        /\ toCreate \subseteq EnabledIn(conf)
        /\ toCreate \cap initErrors = {}
        /\ loggers = [d \in Dests |->
              IF d \in EnabledIn(conf) \ (toCreate \cup initErrors)
              THEN NewLogger(d) ELSE NoLogger]

InvArgument == op \in {"closing", "creating"} => conf \in Configs

InvErrors == op = "closing" => initErrors = {}

MgrInv ==
    /\ MgrTypeOK
    /\ MapWellFormed
    /\ InvIdle
    /\ InvClosing
    /\ InvCreating
    /\ InvArgument
    /\ InvErrors

-----------------------------------------------------------------------------

\* NewManager starts in the invariant.
LEMMA MgrInitInv == MgrInit => MgrInv
  BY ManagerAssumption
     DEF MgrInit, MgrInv, MgrTypeOK, MapWellFormed, InvIdle, InvClosing, InvCreating,
         InvArgument, InvErrors, Published, EmptyMap, NoConfig

\* The instance CreateLogger makes is well formed.
LEMMA NewLoggerType ==
  ASSUME MgrTypeOK, conf \in Configs, NEW d \in EnabledIn(conf)
  PROVE  /\ NewLogger(d) \in Instance
         /\ NewLogger(d) # NoLogger
         /\ NewLogger(d).dest = d
         /\ NewLogger(d).gen = gen
  BY ManagerAssumption DEF MgrTypeOK, EnabledIn, NewLogger, Instance, Kinds

\* Calling InitLoggers preserves the invariant.
LEMMA InitLoggersInv ==
  ASSUME MgrInv, NEW c \in Configs, InitLoggers(c)
  PROVE  MgrInv'
  BY ManagerAssumption
     DEF InitLoggers, MgrInv, MgrTypeOK, MapWellFormed, InvIdle, InvClosing, InvCreating,
         InvArgument, InvErrors, Published, OldLoggers, Unlocked, Instance

\* Calling CloseAll preserves the invariant.
LEMMA CloseAllInv ==
  ASSUME MgrInv, CloseAll
  PROVE  MgrInv'
  BY ManagerAssumption
     DEF CloseAll, MgrInv, MgrTypeOK, MapWellFormed, InvIdle, InvClosing, InvCreating,
         InvArgument, InvErrors, Published, OldLoggers, Unlocked, Instance

\* Closing one instance preserves the invariant.
LEMMA CloseOneInv ==
  ASSUME MgrInv, NEW i, CloseOne(i)
  PROVE  MgrInv'
  BY DEF CloseOne, MgrInv, MgrTypeOK, MapWellFormed, InvIdle, InvClosing, InvCreating,
         InvArgument, InvErrors, Published

\* Emptying the map, when everything in it is closed, preserves the invariant.
LEMMA ResetMapInv ==
  ASSUME MgrInv, ResetMap
  PROVE  MgrInv'
  <1> USE DEF ResetMap
  <1>1. MgrTypeOK' /\ InvIdle' /\ InvClosing' /\ InvArgument' /\ InvErrors'
    BY DEF MgrInv, MgrTypeOK, InvIdle, InvClosing, InvArgument, InvErrors, EmptyMap, EnabledIn
  <1>2. Published' = {}
    BY DEF Published, EmptyMap
  <1>3. MapWellFormed'
    BY <1>2 DEF MgrInv, MapWellFormed, EmptyMap
  <1>4. InvCreating'
    BY <1>2 DEF MgrInv, MapWellFormed, InvClosing, InvErrors, InvCreating, EmptyMap, EnabledIn,
                NewLogger
  <1> QED BY <1>1, <1>3, <1>4 DEF MgrInv

\* Creating a logger preserves the invariant.
LEMMA CreateLoggerInv ==
  ASSUME MgrInv, NEW d \in Dests, CreateLogger(d)
  PROVE  MgrInv'
  <1> DEFINE n == NewLogger(d)
  <1> USE DEF CreateLogger
  <1>1. /\ n \in Instance
        /\ n # NoLogger
        /\ n.dest = d
        /\ n.gen = gen
    BY NewLoggerType DEF MgrInv, InvArgument, InvCreating
  <1>2. loggers[d] = NoLogger
    BY DEF MgrInv, InvCreating
  <1> HIDE DEF n
  <1>3. Published' = Published \cup {n}
    BY <1>1, <1>2 DEF Published, MgrInv, MgrTypeOK, n
  <1>4. n \notin closed
    BY <1>1 DEF MgrInv, InvCreating, MgrTypeOK
  <1>5. MgrTypeOK' /\ InvIdle' /\ InvClosing' /\ InvArgument' /\ InvErrors'
    BY <1>1 DEF MgrInv, MgrTypeOK, InvIdle, InvClosing, InvArgument, InvErrors, n
  <1>6. MapWellFormed'
    BY <1>1, <1>3 DEF MgrInv, MgrTypeOK, MapWellFormed, n
  <1>7. InvCreating'
    BY <1>1, <1>3, <1>4 DEF MgrInv, MgrTypeOK, InvCreating, EnabledIn, NewLogger, n
  <1> QED BY <1>5, <1>6, <1>7 DEF MgrInv

\* A creation that fails preserves the invariant.
LEMMA CreateFailsInv ==
  ASSUME MgrInv, NEW d \in Dests, CreateFails(d)
  PROVE  MgrInv'
  <1> USE DEF CreateFails
  <1>1. Published' = Published
    BY DEF Published
  <1>2. MgrTypeOK' /\ InvIdle' /\ InvClosing' /\ InvArgument' /\ InvErrors'
    BY DEF MgrInv, MgrTypeOK, InvIdle, InvClosing, InvArgument, InvErrors
  <1>3. MapWellFormed'
    BY <1>1 DEF MgrInv, MapWellFormed
  <1>4. InvCreating'
    BY <1>1 DEF MgrInv, InvCreating, EnabledIn, NewLogger
  <1> QED BY <1>2, <1>3, <1>4 DEF MgrInv

\* The return of InitLoggers preserves the invariant.
LEMMA InitReturnsInv ==
  ASSUME MgrInv, InitReturns
  PROVE  MgrInv'
  BY DEF InitReturns, MgrInv, MgrTypeOK, MapWellFormed, InvIdle, InvClosing, InvCreating,
         InvArgument, InvErrors, Published

\* The return of CloseAll preserves the invariant.
LEMMA CloseAllReturnsInv ==
  ASSUME MgrInv, CloseAllReturns
  PROVE  MgrInv'
  <1>1. Published' = {}
    BY DEF CloseAllReturns, Published, EmptyMap
  <1> QED
    BY <1>1 DEF CloseAllReturns, MgrInv, MgrTypeOK, MapWellFormed, InvIdle, InvClosing,
         InvCreating, InvArgument, InvErrors, EmptyMap

\* Every step of InitLoggers preserves the invariant.
LEMMA InitLoggersStepInv ==
  ASSUME MgrInv, InitLoggersStep
  PROVE  MgrInv'
  BY CloseOneInv, ResetMapInv, CreateLoggerInv, CreateFailsInv, InitReturnsInv
     DEF InitLoggersStep

\* A step that changes no variable of the manager preserves the invariant.
LEMMA MgrStutterInv ==
  ASSUME MgrInv, UNCHANGED mgrVars
  PROVE  MgrInv'
  BY DEF MgrInv, mgrVars, MgrTypeOK, MapWellFormed, InvIdle, InvClosing, InvCreating,
         InvArgument, InvErrors, Published, EnabledIn, NewLogger

\* Every step of the manager preserves the invariant.
LEMMA MgrNextInv ==
  ASSUME MgrInv, [MgrNext]_mgrVars
  PROVE  MgrInv'
  <1>1. CASE \E c \in Configs : InitLoggers(c)
    BY <1>1, InitLoggersInv
  <1>2. CASE InitLoggersStep
    BY <1>2, InitLoggersStepInv
  <1>3. CASE CloseAll
    BY <1>3, CloseAllInv
  <1>4. CASE CloseAllStep
    BY <1>4, CloseOneInv, CloseAllReturnsInv DEF CloseAllStep
  <1>5. CASE UNCHANGED mgrVars
    BY <1>5, MgrStutterInv
  <1> QED BY <1>1, <1>2, <1>3, <1>4, <1>5 DEF MgrNext

\* The invariant holds in every reachable state of the manager.
THEOREM MgrInvariance == MgrSpec => []MgrInv
  <1>1. MgrInit => MgrInv
    BY MgrInitInv
  <1>2. MgrInv /\ [MgrNext]_mgrVars => MgrInv'
    BY MgrNextInv
  <1> QED BY <1>1, <1>2, PTL DEF MgrSpec

\* Types: the variables of the manager stay within their sets.
THEOREM MgrTypeCorrect == MgrSpec => []MgrTypeOK
  BY MgrInvariance, PTL DEF MgrInv

\* Outside a call the map holds exactly the instances that are open.
THEOREM PublishedIffOpenHolds == MgrSpec => []PublishedIffOpen
  <1>1. MgrInv => PublishedIffOpen
    BY DEF MgrInv, InvIdle, PublishedIffOpen, Unlocked
  <1> QED BY <1>1, MgrInvariance, PTL

\* Readers find instances of a single call, each under its own name.
THEOREM OneGenerationHolds == MgrSpec => []OneGeneration
  <1>1. MgrInv => OneGeneration
    BY DEF MgrInv, InvIdle, MapWellFormed, OneGeneration, Unlocked, Published
  <1> QED BY <1>1, MgrInvariance, PTL

\* InitLoggers returns with exactly the configured loggers that could be made.
MapOfConfig ==
  (op = "creating" /\ Unlocked') =>
     loggers' = [d \in Dests |->
        IF d \in EnabledIn(conf) \ initErrors' THEN NewLogger(d) ELSE NoLogger]

LEMMA MapOfConfigStep ==
  ASSUME MgrInv, MgrNext
  PROVE  MapOfConfig
  <1> SUFFICES ASSUME op = "creating", op' = "idle"
               PROVE  loggers' = [d \in Dests |->
                        IF d \in EnabledIn(conf) \ initErrors' THEN NewLogger(d) ELSE NoLogger]
    BY DEF Unlocked, MapOfConfig
  <1>1. InitReturns
    BY DEF MgrNext, InitLoggers, InitLoggersStep, CloseAll, CloseAllStep, CloseOne, ResetMap,
           CreateLogger, CreateFails, CloseAllReturns, Unlocked
  <1> QED BY <1>1 DEF InitReturns, MgrInv, InvCreating

\* The map of the manager by itself follows its configuration (manager.go:46-75).
THEOREM MapFollowsConfigHolds == MgrSpec => MapFollowsConfig
  <1>1. MgrInv /\ [MgrNext]_mgrVars => [MapOfConfig]_mgrVars
    BY MapOfConfigStep
  <1> QED BY <1>1, MgrInvariance, PTL DEF MgrSpec, MapFollowsConfig, MapOfConfig

\* Close meets an instance that the map still names, and never a closed one.
ClosesFromMap ==
  /\ op' \in {"closing", "closingAll"} => toClose' \cap closed' = {}
  /\ \A i \in closed' \ closed : loggers[i.dest] = i

LEMMA ClosesFromMapStep ==
  ASSUME MgrInv, MgrInv', MgrNext
  PROVE  ClosesFromMap
  <1>1. op' \in {"closing", "closingAll"} => toClose' \cap closed' = {}
    BY DEF MgrInv, InvClosing
  <1>2. ASSUME NEW i \in closed' \ closed
        PROVE  loggers[i.dest] = i
    <2>1. CloseOne(i)
      BY <1>2 DEF MgrNext, InitLoggers, InitLoggersStep, CloseAll, CloseAllStep, CloseOne,
             ResetMap, CreateLogger, CreateFails, InitReturns, CloseAllReturns
    <2>2. i \in Published
      BY <2>1 DEF CloseOne, MgrInv, InvClosing
    <2> QED BY <2>2 DEF MgrInv, MapWellFormed, Published
  <1> QED BY <1>1, <1>2 DEF ClosesFromMap

\* No instance of the manager by itself is closed twice, nor once it has left
\* the map (manager.go:33-37, 104-115).
THEOREM ClosedOnceFromMapHolds == MgrSpec => ClosedOnceFromMap
  <1>1. MgrInv /\ MgrInv' /\ [MgrNext]_mgrVars => [ClosesFromMap]_mgrVars
    BY ClosesFromMapStep
  <1> QED BY <1>1, MgrInvariance, PTL DEF MgrSpec, ClosedOnceFromMap, ClosesFromMap
=============================================================================
