--------------------------- MODULE LogDispatchProofs ---------------------------
(***************************************************************************)
(* Proofs about LogDispatch for any number of handlers, destinations,      *)
(* target lists and reloads.  DispatchInv joins the invariant of the       *)
(* manager with what each handler may rely on: InvPosition (where it is in  *)
(* its list), InvStored (what it has stored), InvComplete (nothing was     *)
(* missed while no reload began) and InvOutcome (what it will answer).     *)
(* The last section proves that LogDispatch implements LogDelivery.        *)
(***************************************************************************)
EXTENDS LogDispatch, LoggerManagerProofs, FiniteSetTheorems

\* Without CloseAll, readers always find the instances of the last call.
InvLatest == Unlocked => \A i \in Published : i.gen = gen

\* A handler inside its loop has its position in a list of destinations.
InvPosition(r) ==
    /\ plan[r] \subseteq DOMAIN list[r]
    /\ todo[r] \subseteq plan[r]
    /\ seenGen[r] <= gen
    /\ pc[r] = "write" =>
        /\ held[r] \in created
        /\ held[r].dest = list[r][at[r]]
        /\ held[r].gen <= gen
        /\ at[r] \in plan[r] \ todo[r]
        /\ list[r][at[r]] \notin BadAdds
        /\ \A j \in todo[r] : at[r] < j

\* What is stored went to passed positions, in order, and to instances that
\* get no older.
InvStored(r) ==
    /\ pc[r] \in {"idle", "names"} => stored[r] = {}
    /\ \A s \in stored[r] :
        /\ s.pos \in plan[r] \ todo[r]
        /\ \A j \in todo[r] : s.pos < j
        /\ s.by \in created
        /\ s.by.gen <= gen
        /\ s.by.dest = list[r][s.pos]
        /\ pc[r] = "write" => s.pos < at[r] /\ s.by.gen <= held[r].gen
    /\ \A s, t \in stored[r] :
        /\ s.pos = t.pos => s = t
        /\ s.pos < t.pos => s.by.gen <= t.by.gen

\* While no call of InitLoggers begins, every name read stays in the map and
\* every position passed without a fault is stored in an open instance.
InvComplete(r) ==
    (pc[r] \in {"loop", "write", "answered"} /\ seenGen[r] = gen) =>
        /\ Unlocked
        /\ \A k \in plan[r] : loggers[list[r][k]] # NoLogger
        /\ pc[r] = "write" => held[r] \notin closed
        /\ pc[r] = "answered" => todo[r] = {}
        /\ \A s \in stored[r] : s.by \notin closed
        /\ r \notin faulted =>
            \A k \in plan[r] \ todo[r] :
                (list[r][k] \notin BadAdds /\ (pc[r] = "write" => k # at[r]))
                    => \E s \in stored[r] : s.pos = k
        /\ \A s \in stored[r] : list[r][s.pos] \notin BadAdds

\* The answer counts the stored records, and the list names wanted
\* destinations only.
InvOutcome(r) ==
    /\ anySuccess[r] <=> stored[r] # {}
    /\ targets[r] # AllEnabled => ListRange(list[r]) \subseteq ListRange(targets[r])

HandlerInv(r) == InvPosition(r) /\ InvStored(r) /\ InvComplete(r) /\ InvOutcome(r)

DispatchInv ==
    /\ TypeOK
    /\ MgrInv
    /\ InvLatest
    /\ \A r \in Requests : HandlerInv(r)

-----------------------------------------------------------------------------
(* Operators *)

\* Any order in which the map is iterated is a sequence of its keys.
LEMMA OrdersAreLists ==
  ASSUME NEW S \in SUBSET Dests, NEW s \in Orders(S)
  PROVE  s \in Seq(Dests)
  <1>1. IsFiniteSet(S)
    BY FS_Subset, DispatchAssumption
  <1>2. Cardinality(S) \in Nat
    BY <1>1, FS_CardinalityType
  <1>3. s \in [1 .. Cardinality(S) -> Dests]
    BY DEF Orders
  <1> QED BY <1>2, <1>3

\* The list a handler walks is a list of destinations, and of those its rule
\* names if the rule names any.
LEMMA NamesAreLists ==
  ASSUME TypeOK, NEW r \in Requests,
         NEW l \in IF targets[r] = AllEnabled THEN Orders(EnabledNames) ELSE {targets[r]}
  PROVE  /\ l \in Seq(Dests)
         /\ targets[r] # AllEnabled => l = targets[r]
  <1>1. EnabledNames \in SUBSET Dests
    BY DEF EnabledNames
  <1>2. CASE targets[r] = AllEnabled
    BY <1>1, <1>2, OrdersAreLists
  <1>3. CASE targets[r] # AllEnabled
    BY <1>3, DispatchAssumption DEF TypeOK, Lists
  <1> QED BY <1>2, <1>3

-----------------------------------------------------------------------------
(* Initial states *)

\* The map that start-up leaves is well formed and satisfies the invariant.
LEMMA InitDispatchInv == Init => DispatchInv
  <1> SUFFICES ASSUME Init PROVE DispatchInv
    OBVIOUS
  <1>1. PICK c \in Configs : conf = c /\ loggers = StartMap(c)
    BY DEF Init
  <1>2. ASSUME NEW d \in EnabledIn(c)
        PROVE  [dest |-> d, kind |-> c[d], gen |-> 1] \in Instance
    BY <1>1, ManagerAssumption DEF EnabledIn, Instance, Kinds
  <1>3. loggers \in [Dests -> Instance \cup {NoLogger}]
    BY <1>1, <1>2 DEF StartMap
  <1>4. \A i \in Published : i \in Instance /\ i.gen = 1
    BY <1>1, <1>2, <1>3 DEF StartMap, Published
  <1>5. \A d \in Dests : loggers[d] # NoLogger => loggers[d].dest = d /\ loggers[d].gen = 1
    BY <1>1 DEF StartMap
  <1>6. MgrInv
    BY <1>1, <1>3, <1>4, <1>5
       DEF Init, MgrInv, MgrTypeOK, MapWellFormed, InvIdle, InvClosing, InvCreating,
           InvArgument, InvErrors
  <1>7. TypeOK
    BY <1>6 DEF Init, MgrInv, TypeOK, Lists
  <1>8. InvLatest
    BY <1>4 DEF Init, InvLatest
  <1>9. ASSUME NEW r \in Requests PROVE HandlerInv(r)
    BY DEF Init, HandlerInv, InvPosition, InvStored, InvComplete, InvOutcome
  <1> QED BY <1>6, <1>7, <1>8, <1>9 DEF DispatchInv

-----------------------------------------------------------------------------
(* Steps of a handler.  Those of another handler change nothing of r. *)

\* A handler's step leaves the manager's part of the invariant alone.
LEMMA HandlerKeepsManager ==
  ASSUME MgrInv, InvLatest, UNCHANGED mgrVars
  PROVE  MgrInv' /\ InvLatest'
  BY MgrStutterInv DEF InvLatest, mgrVars, Unlocked, Published

\* Nothing that concerns handler r changes.
SameHandler(r) ==
    /\ UNCHANGED mgrVars
    /\ pc'[r] = pc[r] /\ targets'[r] = targets[r]
    /\ list'[r] = list[r] /\ plan'[r] = plan[r] /\ todo'[r] = todo[r]
    /\ at'[r] = at[r] /\ held'[r] = held[r]
    /\ anySuccess'[r] = anySuccess[r] /\ stored'[r] = stored[r]
    /\ seenGen'[r] = seenGen[r]
    /\ (r \in faulted') <=> (r \in faulted)

\* What holds of a handler does not depend on the variables of the others.
LEMMA OtherHandler ==
  ASSUME NEW r \in Requests, HandlerInv(r), SameHandler(r)
  PROVE  HandlerInv(r)'
  <1> USE DEF SameHandler, mgrVars
  <1>1. InvPosition(r)' /\ InvStored(r)' /\ InvOutcome(r)'
    BY DEF HandlerInv, InvPosition, InvStored, InvOutcome
  <1>2. InvComplete(r)'
    BY DEF HandlerInv, InvComplete, Unlocked
  <1> QED BY <1>1, <1>2 DEF HandlerInv

\* The arrival of a request preserves the invariant.
LEMMA ArriveInv ==
  ASSUME DispatchInv, NEW q \in Requests, NEW t \in Lists, Arrive(q, t)
  PROVE  DispatchInv'
  <1> USE DEF Arrive
  <1>1. MgrInv' /\ InvLatest'
    BY HandlerKeepsManager DEF DispatchInv
  <1>2. TypeOK'
    BY DispatchAssumption, <1>1 DEF DispatchInv, TypeOK, MgrInv, Inside
  <1>3. ASSUME NEW r \in Requests PROVE HandlerInv(r)'
    <2>1. CASE r = q
      BY <2>1, DispatchAssumption
         DEF DispatchInv, TypeOK, HandlerInv, InvPosition, InvStored, InvComplete, InvOutcome,
             mgrVars, ListRange
    <2>2. CASE r # q
      <3>1. SameHandler(r)
        BY <2>2 DEF DispatchInv, TypeOK, SameHandler
      <3> QED BY <3>1, OtherHandler DEF DispatchInv
    <2> QED BY <2>1, <2>2
  <1> QED BY <1>1, <1>2, <1>3 DEF DispatchInv

\* Reading the names preserves the invariant.
LEMMA ReadNamesInv ==
  ASSUME DispatchInv, NEW q \in Requests, ReadNames(q)
  PROVE  DispatchInv'
  <1>1. MgrInv' /\ InvLatest'
    BY HandlerKeepsManager DEF DispatchInv, ReadNames
  <1>2. PICK l \in IF targets[q] = AllEnabled THEN Orders(EnabledNames) ELSE {targets[q]} :
          /\ list' = [list EXCEPT ![q] = l]
          /\ plan' = [plan EXCEPT ![q] = {k \in DOMAIN l : l[k] \in EnabledNames}]
          /\ todo' = [todo EXCEPT ![q] = {k \in DOMAIN l : l[k] \in EnabledNames}]
    BY DEF ReadNames
  <1>3. /\ l \in Seq(Dests)
        /\ targets[q] # AllEnabled => l = targets[q]
    BY NamesAreLists DEF DispatchInv
  <1>4. DOMAIN l \subseteq Nat
    BY <1>3
  <1>5. TypeOK'
    <2>1. {k \in DOMAIN l : l[k] \in EnabledNames} \in SUBSET Nat
      BY <1>4
    <2>2. MgrTypeOK' /\ gen \in Nat
      BY <1>1 DEF MgrInv, DispatchInv, MgrTypeOK
    <2> QED BY <2>1, <2>2, <1>2, <1>3 DEF DispatchInv, TypeOK, ReadNames, Inside
  <1>6. ASSUME NEW r \in Requests PROVE HandlerInv(r)'
    <2>1. CASE r = q
      <3>1. /\ list'[r] = l
            /\ plan'[r] = {k \in DOMAIN l : l[k] \in EnabledNames}
            /\ todo'[r] = plan'[r]
            /\ seenGen'[r] = gen
            /\ pc[r] = "names" /\ pc'[r] = "loop"
            /\ Unlocked
        BY <1>2, <2>1 DEF ReadNames, DispatchInv, TypeOK, RLock
      <3>2. stored'[r] = {} /\ ~anySuccess'[r]
        BY <3>1 DEF ReadNames, DispatchInv, HandlerInv, InvStored, InvOutcome
      <3>3. UNCHANGED <<loggers, op, gen, targets>>
        BY DEF ReadNames, mgrVars
      <3>4. InvPosition(r)'
        BY <3>1, <3>3 DEF InvPosition, DispatchInv, TypeOK, MgrTypeOK
      <3>5. InvStored(r)'
        BY <3>2 DEF InvStored
      <3>6. InvComplete(r)'
        BY <3>1, <3>2, <3>3 DEF InvComplete, EnabledNames, Unlocked
      <3>7. InvOutcome(r)'
        BY <1>3, <2>1, <3>1, <3>2, <3>3 DEF InvOutcome, ListRange
      <3> QED BY <3>4, <3>5, <3>6, <3>7 DEF HandlerInv
    <2>2. CASE r # q
      <3>1. SameHandler(r)
        BY <2>2, <1>2 DEF ReadNames, DispatchInv, TypeOK, SameHandler
      <3> QED BY <3>1, OtherHandler DEF DispatchInv
    <2> QED BY <2>1, <2>2
  <1> QED BY <1>1, <1>5, <1>6 DEF DispatchInv

\* Looking up the next destination preserves the invariant.
LEMMA LookUpInv ==
  ASSUME DispatchInv, NEW q \in Requests, NEW k \in todo[q], LookUp(q, k)
  PROVE  DispatchInv'
  <1> DEFINE d == list[q][k]
  <1>1. MgrInv' /\ InvLatest'
    BY HandlerKeepsManager DEF DispatchInv, LookUp
  <1>2. HandlerInv(q) /\ TypeOK /\ MgrInv /\ InvLatest
    BY DEF DispatchInv
  <1>3. d \in Dests /\ k \in Nat /\ k \in plan[q]
    BY <1>2 DEF TypeOK, HandlerInv, InvPosition
  <1>4. loggers[d] \in Instance \cup {NoLogger}
    BY <1>2, <1>3 DEF TypeOK, MgrTypeOK
  <1>5. TypeOK'
    <2>1. MgrTypeOK'
      BY <1>1 DEF MgrInv
    <2> QED BY <2>1, <1>2, <1>3, <1>4 DEF TypeOK, LookUp, Remaining, Inside
  <1>6. ASSUME NEW r \in Requests PROVE HandlerInv(r)'
    <2>1. CASE r = q
      <3>1. /\ pc[r] = "loop" /\ Unlocked
            /\ todo'[r] = todo[r] \ {k}
            /\ held'[r] = loggers[d] /\ at'[r] = k
            /\ pc'[r] \in {"loop", "write"}
            /\ pc'[r] = "write" <=> ~Skips(q, k)
            /\ \A j \in todo[r] : k <= j
        BY <2>1, <1>2 DEF LookUp, TypeOK, RLock, IsNext, Remaining
      <3>2. /\ UNCHANGED <<loggers, op, gen, created, closed, targets, list, plan,
                           anySuccess, stored, seenGen, faulted>>
        BY DEF LookUp, mgrVars
      <3>3. pc'[r] = "write" =>
              /\ loggers[d] \in Published
              /\ loggers[d] \in created \ closed
              /\ loggers[d].dest = d /\ loggers[d].gen = gen
              /\ d \notin BadAdds
        BY <3>1, <1>2, <1>3, <1>4
           DEF Skips, Published, MgrInv, MapWellFormed, InvIdle, InvLatest, Unlocked
      <3>4. \A j \in todo'[r] : k < j
        BY <3>1, <1>2, <1>3, <2>1 DEF TypeOK
      <3>5. gen \in Nat
        BY <1>2 DEF TypeOK, MgrTypeOK
      <3>6. InvPosition(r)'
        BY <1>2, <1>3, <2>1, <3>1, <3>2, <3>3, <3>4, <3>5
           DEF HandlerInv, InvPosition
      <3>7. InvStored(r)'
        BY <1>2, <1>3, <2>1, <3>1, <3>2, <3>3, <3>4
           DEF HandlerInv, InvStored
      <3>8. InvComplete(r)'
        <4> SUFFICES ASSUME seenGen[r] = gen
                     PROVE  InvComplete(r)'
          BY <3>2 DEF InvComplete
        <4>1. loggers[d] # NoLogger
          BY <1>2, <1>3, <2>1, <3>1 DEF HandlerInv, InvComplete
        <4>2. pc'[r] = "loop" => d \in BadAdds
          BY <3>1, <4>1 DEF Skips
        <4> QED
          BY <1>2, <2>1, <3>1, <3>2, <3>3, <4>2 DEF HandlerInv, InvComplete, Unlocked
      <3>9. InvOutcome(r)'
        BY <1>2, <2>1, <3>2 DEF HandlerInv, InvOutcome
      <3> QED BY <3>6, <3>7, <3>8, <3>9 DEF HandlerInv
    <2>2. CASE r # q
      <3>1. SameHandler(r)
        BY <2>2, <1>2 DEF LookUp, TypeOK, SameHandler
      <3> QED BY <3>1, OtherHandler DEF DispatchInv
    <2> QED BY <2>1, <2>2
  <1> QED BY <1>1, <1>5, <1>6 DEF DispatchInv

\* A write that is stored preserves the invariant.
LEMMA WriteSucceedsInv ==
  ASSUME DispatchInv, NEW q \in Requests, WriteSucceeds(q)
  PROVE  DispatchInv'
  <1> DEFINE n == [pos |-> at[q], by |-> held[q]]
  <1>1. MgrInv' /\ InvLatest'
    BY HandlerKeepsManager DEF DispatchInv, WriteSucceeds
  <1>2. HandlerInv(q) /\ TypeOK /\ MgrInv
    BY DEF DispatchInv
  <1>3. held[q] \in Instance /\ at[q] \in Nat
    BY <1>2 DEF HandlerInv, InvPosition, TypeOK, MgrTypeOK, WriteSucceeds
  <1>4. n \in [pos : Nat, by : Instance] /\ n.pos = at[q] /\ n.by = held[q]
    BY <1>3
  <1> HIDE DEF n
  <1>5. TypeOK'
    <2>1. MgrTypeOK'
      BY <1>1 DEF MgrInv
    <2> QED BY <2>1, <1>2, <1>3, <1>4 DEF TypeOK, WriteSucceeds, Inside, n
  <1>6. ASSUME NEW r \in Requests PROVE HandlerInv(r)'
    <2>1. CASE r = q
      <3>1. /\ pc[r] = "write" /\ pc'[r] = "loop"
            /\ stored'[r] = stored[r] \cup {n}
            /\ anySuccess'[r] = TRUE
        BY <2>1, <1>2 DEF WriteSucceeds, TypeOK, n
      <3>2. /\ UNCHANGED <<loggers, op, gen, created, closed, targets, list, plan,
                           todo, at, held, seenGen, faulted>>
        BY DEF WriteSucceeds, mgrVars
      <3>3. InvPosition(r)' /\ InvOutcome(r)'
        BY <1>2, <2>1, <3>1, <3>2 DEF HandlerInv, InvPosition, InvOutcome
      <3>4. InvStored(r)'
        <4>1. \A s \in stored[r] : s.pos \in Nat
          BY <1>2, <2>1 DEF TypeOK
        <4>2. \A s \in stored[r] : s.pos < n.pos /\ s.by.gen <= n.by.gen
          BY <1>2, <1>4, <2>1, <3>1 DEF HandlerInv, InvStored
        <4>3. /\ n.pos \in plan[r] \ todo[r] /\ n.by \in created /\ n.by.gen <= gen
              /\ n.by.dest = list[r][n.pos] /\ \A j \in todo[r] : n.pos < j
          BY <1>2, <1>4, <2>1, <3>1 DEF HandlerInv, InvPosition
        <4>4. /\ \A s \in stored'[r] :
                   /\ s.pos \in plan'[r] \ todo'[r]
                   /\ \A j \in todo'[r] : s.pos < j
                   /\ s.by \in created' /\ s.by.gen <= gen'
                   /\ s.by.dest = list'[r][s.pos]
          BY <1>2, <2>1, <3>1, <3>2, <4>3 DEF HandlerInv, InvStored
        <4>5. \A s, t \in stored'[r] : s.pos = t.pos => s = t
          BY <1>2, <1>3, <1>4, <2>1, <3>1, <4>1, <4>2 DEF HandlerInv, InvStored
        <4>6. \A s, t \in stored'[r] : s.pos < t.pos => s.by.gen <= t.by.gen
          BY <1>2, <1>3, <1>4, <2>1, <3>1, <4>1, <4>2 DEF HandlerInv, InvStored
        <4> QED BY <3>1, <4>4, <4>5, <4>6 DEF InvStored
      <3>5. InvComplete(r)'
        BY <1>2, <1>4, <2>1, <3>1, <3>2 DEF HandlerInv, InvPosition, InvComplete, Unlocked
      <3> QED BY <3>3, <3>4, <3>5 DEF HandlerInv
    <2>2. CASE r # q
      <3>1. SameHandler(r)
        BY <2>2, <1>2 DEF WriteSucceeds, TypeOK, SameHandler
      <3> QED BY <3>1, OtherHandler DEF DispatchInv
    <2> QED BY <2>1, <2>2
  <1> QED BY <1>1, <1>5, <1>6 DEF DispatchInv

\* A write that is refused preserves the invariant.
LEMMA WriteFailsInv ==
  ASSUME DispatchInv, NEW q \in Requests, WriteFails(q)
  PROVE  DispatchInv'
  <1>1. MgrInv' /\ InvLatest'
    BY HandlerKeepsManager DEF DispatchInv, WriteFails
  <1>2. HandlerInv(q) /\ TypeOK /\ MgrInv
    BY DEF DispatchInv
  <1>3. TypeOK'
    <2>1. MgrTypeOK'
      BY <1>1 DEF MgrInv
    <2> QED BY <2>1, <1>2 DEF TypeOK, WriteFails, Inside
  <1>4. ASSUME NEW r \in Requests PROVE HandlerInv(r)'
    <2>1. CASE r = q
      <3>1. pc[r] = "write" /\ pc'[r] = "loop"
        BY <2>1, <1>2 DEF WriteFails, TypeOK
      <3>2. UNCHANGED <<loggers, op, gen, created, closed, targets, list, plan, todo, at, held,
                        anySuccess, stored, seenGen>>
        BY DEF WriteFails, mgrVars
      <3>3. r \in faulted' \/ held[r] \in closed
        BY <2>1 DEF WriteFails, MayRefuse
      <3>4. InvPosition(r)' /\ InvStored(r)' /\ InvOutcome(r)'
        BY <1>2, <2>1, <3>1, <3>2 DEF HandlerInv, InvPosition, InvStored, InvOutcome
      <3>5. InvComplete(r)'
        BY <1>2, <2>1, <3>1, <3>2, <3>3 DEF HandlerInv, InvComplete, Unlocked
      <3> QED BY <3>4, <3>5 DEF HandlerInv
    <2>2. CASE r # q
      <3>1. SameHandler(r)
        BY <2>2, <1>2 DEF WriteFails, TypeOK, SameHandler
      <3> QED BY <3>1, OtherHandler DEF DispatchInv
    <2> QED BY <2>1, <2>2
  <1> QED BY <1>1, <1>3, <1>4 DEF DispatchInv

\* Answering preserves the invariant.
LEMMA AnswerInv ==
  ASSUME DispatchInv, NEW q \in Requests, Answer(q)
  PROVE  DispatchInv'
  <1>1. MgrInv' /\ InvLatest'
    BY HandlerKeepsManager DEF DispatchInv, Answer
  <1>2. HandlerInv(q) /\ TypeOK /\ MgrInv
    BY DEF DispatchInv
  <1>3. TypeOK'
    <2>1. MgrTypeOK'
      BY <1>1 DEF MgrInv
    <2> QED BY <2>1, <1>2 DEF TypeOK, Answer, Inside
  <1>4. ASSUME NEW r \in Requests PROVE HandlerInv(r)'
    <2>1. CASE r = q
      <3>1. pc[r] = "loop" /\ pc'[r] = "answered" /\ todo[r] = {}
        BY <2>1, <1>2 DEF Answer, TypeOK, LoopEnds
      <3>2. UNCHANGED <<loggers, op, gen, created, closed, targets, list, plan, todo, at,
                        anySuccess, stored, seenGen, faulted>>
        BY DEF Answer, mgrVars
      <3>3. InvPosition(r)' /\ InvStored(r)' /\ InvOutcome(r)'
        BY <1>2, <2>1, <3>1, <3>2 DEF HandlerInv, InvPosition, InvStored, InvOutcome
      <3>4. InvComplete(r)'
        BY <1>2, <2>1, <3>1, <3>2 DEF HandlerInv, InvComplete, Unlocked
      <3> QED BY <3>3, <3>4 DEF HandlerInv
    <2>2. CASE r # q
      <3>1. SameHandler(r)
        BY <2>2, <1>2 DEF Answer, TypeOK, SameHandler
      <3> QED BY <3>1, OtherHandler DEF DispatchInv
    <2> QED BY <2>1, <2>2
  <1> QED BY <1>1, <1>3, <1>4 DEF DispatchInv

-----------------------------------------------------------------------------
(* Steps of the reload goroutine *)

\* A call of InitLoggers forgets no instance, and its first step starts a new
\* generation.
LEMMA ReloadFacts ==
  ASSUME MgrInv, ReloadStep
  PROVE  /\ created \subseteq created'
         /\ gen' \in Nat /\ gen <= gen'
         /\ Unlocked => gen' = gen + 1
         /\ UNCHANGED reqVars
  BY DEF MgrInv, MgrTypeOK, ReloadStep, InitLoggers, InitLoggersStep, CloseOne, ResetMap,
         CreateLogger, CreateFails, InitReturns, Unlocked

\* A step of the reload goroutine preserves the invariant.
LEMMA ReloadInv ==
  ASSUME DispatchInv, ReloadStep
  PROVE  DispatchInv'
  <1>1. MgrInv /\ TypeOK /\ InvLatest
    BY DEF DispatchInv
  <1>2. MgrInv'
    BY <1>1, InitLoggersInv, InitLoggersStepInv DEF ReloadStep
  <1>3. /\ created \subseteq created'
        /\ gen' \in Nat /\ gen <= gen'
        /\ Unlocked => gen' = gen + 1
        /\ UNCHANGED reqVars
    BY <1>1, ReloadFacts
  <1>4. InvLatest'
    <2> SUFFICES ASSUME Unlocked' PROVE \A i \in Published' : i.gen = gen'
      BY DEF InvLatest
    <2>1. InitReturns
      BY DEF ReloadStep, InitLoggers, InitLoggersStep, CloseOne, ResetMap, CreateLogger,
             CreateFails, Unlocked
    <2> QED BY <2>1, <1>1 DEF InitReturns, MgrInv, InvCreating, Published
  <1>5. reopened' \subseteq Requests \X Instance
    BY <1>1 DEF ReloadStep, TypeOK
  <1>6. TypeOK'
    BY <1>1, <1>2, <1>3, <1>5 DEF TypeOK, MgrInv, reqVars
  <1>7. ASSUME NEW r \in Requests PROVE HandlerInv(r)'
    <2>1. HandlerInv(r) /\ seenGen[r] \in Nat /\ gen \in Nat
      BY <1>1 DEF DispatchInv, TypeOK, MgrTypeOK
    <2>2. /\ held[r] \in created => held[r].gen \in Nat
          /\ \A s \in stored[r] : s.by.gen \in Nat
      BY <1>1 DEF TypeOK, MgrTypeOK, Instance
    <2>3. InvPosition(r)'
      BY <1>3, <2>1, <2>2 DEF HandlerInv, InvPosition, reqVars
    <2>4. InvStored(r)'
      BY <1>3, <2>1, <2>2 DEF HandlerInv, InvStored, reqVars
    <2>5. InvComplete(r)'
      BY <1>3, <2>1 DEF HandlerInv, InvPosition, InvComplete, reqVars
    <2>6. InvOutcome(r)'
      BY <1>3, <2>1 DEF HandlerInv, InvOutcome, reqVars
    <2> QED BY <2>3, <2>4, <2>5, <2>6 DEF HandlerInv
  <1> QED BY <1>2, <1>4, <1>6, <1>7 DEF DispatchInv

-----------------------------------------------------------------------------

\* Every step of the system preserves the invariant.
LEMMA NextDispatchInv ==
  ASSUME DispatchInv, [Next]_vars
  PROVE  DispatchInv'
  <1>1. CASE \E r \in Requests : \E t \in Lists : Arrive(r, t)
    BY <1>1, ArriveInv
  <1>2. CASE \E r \in Requests : HandlerStep(r)
    BY <1>2, ReadNamesInv, LookUpInv, WriteSucceedsInv, WriteFailsInv, AnswerInv
       DEF HandlerStep
  <1>3. CASE ReloadStep
    BY <1>3, ReloadInv
  <1>4. CASE UNCHANGED vars
    <2>1. MgrInv' /\ InvLatest'
      BY <1>4, HandlerKeepsManager DEF vars, DispatchInv
    <2>2. TypeOK'
      BY <1>4, <2>1 DEF vars, reqVars, DispatchInv, TypeOK, MgrInv
    <2>3. ASSUME NEW r \in Requests PROVE HandlerInv(r)'
      <3>1. SameHandler(r)
        BY <1>4 DEF vars, reqVars, SameHandler
      <3> QED BY <3>1, OtherHandler DEF DispatchInv
    <2> QED BY <2>1, <2>2, <2>3 DEF DispatchInv
  <1> QED BY <1>1, <1>2, <1>3, <1>4 DEF Next

\* The invariant holds in every reachable state of the system.
THEOREM DispatchInvariance == Spec => []DispatchInv
  <1>1. Init => DispatchInv
    BY InitDispatchInv
  <1>2. DispatchInv /\ [Next]_vars => DispatchInv'
    BY NextDispatchInv
  <1> QED BY <1>1, <1>2, PTL DEF Spec

\* Types: no handler leaves its control points, its list or its instances.
THEOREM DispatchTypeCorrect == Spec => []TypeOK
  BY DispatchInvariance, PTL DEF DispatchInv

\* To the manager a step of the system is one of its own or none.
LEMMA ManagerStep ==
  ASSUME [Next]_vars
  PROVE  [MgrNext]_mgrVars
  <1>1. CASE ReloadStep
    BY <1>1 DEF ReloadStep, MgrNext
  <1>2. ASSUME NEW r \in Requests, NEW t \in Lists, Arrive(r, t)
        PROVE  UNCHANGED mgrVars
    BY <1>2 DEF Arrive
  <1>3. ASSUME NEW r \in Requests, HandlerStep(r)
        PROVE  UNCHANGED mgrVars
    BY <1>3 DEF HandlerStep, ReadNames, LookUp, WriteSucceeds, WriteFails, Answer
  <1>4. CASE UNCHANGED vars
    BY <1>4 DEF vars
  <1> QED BY <1>1, <1>2, <1>3, <1>4 DEF Next

\* What handlers find in the map is open and nothing else is, whatever requests
\* and reloads came before (manager.go:28-75).
THEOREM PublishedIffOpenUnderRequests == Spec => []PublishedIffOpen
  <1>1. DispatchInv => PublishedIffOpen
    BY DEF DispatchInv, MgrInv, InvIdle, PublishedIffOpen, Unlocked
  <1> QED BY <1>1, DispatchInvariance, PTL

\* A reload leaves the map of its configuration while requests are served
\* (manager.go:46-75).
THEOREM MapFollowsConfigUnderRequests == Spec => MapFollowsConfig
  <1>1. DispatchInv /\ [Next]_vars => [MapOfConfig]_mgrVars
    BY ManagerStep, MapOfConfigStep DEF DispatchInv
  <1> QED BY <1>1, DispatchInvariance, PTL DEF Spec, MapFollowsConfig, MapOfConfig

\* No reload closes an instance twice or one that is not in the map, while
\* requests hold instances of their own (manager.go:33-37).
THEOREM ClosedOnceFromMapUnderRequests == Spec => ClosedOnceFromMap
  <1>1. DispatchInv /\ DispatchInv' /\ [Next]_vars => [ClosesFromMap]_mgrVars
    BY ManagerStep, ClosesFromMapStep DEF DispatchInv
  <1> QED BY <1>1, DispatchInvariance, PTL DEF Spec, ClosedOnceFromMap, ClosesFromMap

\* Between two reloads a handler without faults stores its record everywhere.
THEOREM CompleteBetweenReloadsHolds == Spec => []CompleteBetweenReloads
  <1>1. DispatchInv => CompleteBetweenReloads
    <2> SUFFICES ASSUME DispatchInv, NEW r \in Requests,
                        Answered(r), seenGen[r] = gen, r \notin faulted
                 PROVE  /\ {s.pos : s \in stored[r]} = {k \in plan[r] : list[r][k] \notin BadAdds}
                        /\ \A s \in stored[r] : s.by \notin closed
      BY DEF CompleteBetweenReloads
    <2>1. HandlerInv(r) /\ pc[r] = "answered"
      BY DEF DispatchInv, Answered
    <2> QED BY <2>1 DEF HandlerInv, InvStored, InvComplete
  <1> QED BY <1>1, DispatchInvariance, PTL

\* Whatever is reloaded: each entry is stored at most once, in order.
THEOREM OrderedOnceHolds == Spec => []OrderedOnce
  <1>1. DispatchInv => OrderedOnce
    BY DEF DispatchInv, HandlerInv, InvStored, OrderedOnce
  <1> QED BY <1>1, DispatchInvariance, PTL

\* A handler never gets a closed instance from the map.
THEOREM LookUpFindsOpenHolds == Spec => LookUpFindsOpen
  <1>1. DispatchInv /\ [Next]_vars =>
          [\A r \in Requests : (pc[r] = "loop" /\ pc'[r] = "write") => held'[r] \notin closed']_vars
    <2> SUFFICES ASSUME DispatchInv, Next, NEW r \in Requests, pc[r] = "loop", pc'[r] = "write"
                 PROVE  held'[r] \notin closed'
      OBVIOUS
    <2>1. TypeOK /\ MgrInv /\ HandlerInv(r)
      BY DEF DispatchInv
    <2>2. PICK k \in todo[r] : LookUp(r, k)
      <3>1. pc \in [Requests -> {"idle", "answered"} \cup Inside]
        BY <2>1 DEF TypeOK
      <3>2. ~ReloadStep
        BY DEF ReloadStep, reqVars
      <3>3. ASSUME NEW q \in Requests, NEW t \in Lists, Arrive(q, t)
            PROVE  FALSE
        BY <3>1, <3>3 DEF Arrive
      <3>4. PICK q \in Requests : HandlerStep(q)
        BY <3>2, <3>3 DEF Next
      <3>5. \E k \in todo[q] : LookUp(q, k)
        BY <3>1, <3>4 DEF HandlerStep, ReadNames, WriteSucceeds, WriteFails, Answer
      <3>6. q = r
        BY <3>1, <3>5 DEF LookUp
      <3> QED BY <3>5, <3>6
    <2>3. list[r][k] \in Dests
      BY <2>1 DEF TypeOK, HandlerInv, InvPosition
    <2>4. Unlocked /\ loggers[list[r][k]] # NoLogger /\ held'[r] = loggers[list[r][k]]
      BY <2>1, <2>2 DEF LookUp, Skips, RLock, TypeOK
    <2> QED BY <2>1, <2>2, <2>3, <2>4 DEF MgrInv, InvIdle, Published, Unlocked, LookUp, mgrVars
  <1> QED BY <1>1, DispatchInvariance, PTL DEF Spec, LookUpFindsOpen

-----------------------------------------------------------------------------
(* What a reload may do to a handler that holds an old instance *)

\* Closed instances are older than those the map holds for readers, and a
\* request that reopened one of them holds a newer one when it writes again.
LeakInv ==
    /\ Unlocked => \A i \in closed : i.gen < gen
    /\ \A p \in reopened :
        /\ p[2] \in closed
        /\ pc[p[1]] = "write" => p[2].gen < held[p[1]].gen
    /\ LeakIsBounded

\* A handler that looks up an instance gets one of the newest.
LEMMA LookUpIsNewest ==
  ASSUME DispatchInv, NEW q \in Requests, NEW k \in todo[q], LookUp(q, k), pc'[q] = "write"
  PROVE  held'[q].gen = gen
  <1>1. TypeOK /\ HandlerInv(q) /\ InvLatest /\ Unlocked
    BY DEF DispatchInv, LookUp, RLock
  <1>2. list[q][k] \in Dests
    BY <1>1 DEF TypeOK, HandlerInv, InvPosition
  <1>3. loggers[list[q][k]] \in Published /\ held'[q] = loggers[list[q][k]]
    BY <1>1, <1>2 DEF LookUp, Skips, Published, TypeOK
  <1> QED BY <1>1, <1>3 DEF InvLatest

\* A step of the handlers other than a write keeps the bound.
LEMMA HandlerKeepsLeakInv ==
  ASSUME DispatchInv, LeakInv, NEW q \in Requests, HandlerStep(q) \/ \E t \in Lists : Arrive(q, t)
  PROVE  LeakInv'
  <1>1. TypeOK /\ HandlerInv(q) /\ UNCHANGED mgrVars
    BY DEF DispatchInv, HandlerStep, Arrive, ReadNames, LookUp, WriteSucceeds, WriteFails, Answer
  <1>2. (Unlocked => \A i \in closed : i.gen < gen)'
    BY <1>1 DEF LeakInv, Unlocked, mgrVars
  <1>3. CASE WriteSucceeds(q)
    <2>1. reopened' \subseteq reopened \cup {<<q, held[q]>>} /\ pc[q] = "write"
          /\ pc' = [pc EXCEPT ![q] = "loop"] /\ held' = held /\ closed' = closed
          /\ (held[q] \in closed \/ reopened' = reopened)
      BY <1>3, <1>1 DEF WriteSucceeds, mgrVars
    <2>2. pc'[q] = "loop" /\ \A r \in Requests \ {q} : pc'[r] = pc[r]
      BY <2>1, <1>1 DEF TypeOK
    <2>3. \A p \in reopened : p[1] = q => p[2].gen # held[q].gen
      BY <2>1, <1>1 DEF LeakInv, TypeOK, MgrTypeOK, Instance
    <2>4. \A p \in reopened' :
            /\ p[2] \in closed'
            /\ pc'[p[1]] = "write" => p[2].gen < held'[p[1]].gen
      BY <2>1, <2>2, <1>1 DEF LeakInv, TypeOK
    <2>5. LeakIsBounded'
      BY <2>1, <2>3, <2>4 DEF LeakInv, LeakIsBounded
    <2> QED BY <1>2, <2>4, <2>5 DEF LeakInv
  <1>4. CASE \E k \in todo[q] : LookUp(q, k)
    <2>1. PICK k \in todo[q] : LookUp(q, k)
      BY <1>4
    <2>2. /\ reopened' = reopened /\ closed' = closed /\ Unlocked
          /\ \A r \in Requests \ {q} : pc'[r] = pc[r] /\ held'[r] = held[r]
      BY <2>1, <1>1 DEF LookUp, TypeOK, mgrVars, RLock
    <2>3. pc'[q] = "write" => held'[q].gen = gen
      BY <2>1, LookUpIsNewest
    <2> QED BY <1>1, <1>2, <2>2, <2>3 DEF LeakInv, LeakIsBounded, TypeOK
  <1>5. CASE ReadNames(q) \/ WriteFails(q) \/ Answer(q) \/ \E t \in Lists : Arrive(q, t)
    <2>1. /\ reopened' = reopened /\ closed' = closed /\ pc'[q] # "write"
          /\ \A r \in Requests \ {q} : pc'[r] = pc[r] /\ held'[r] = held[r]
      BY <1>5, <1>1 DEF ReadNames, WriteFails, Answer, Arrive, TypeOK, mgrVars
    <2> QED BY <1>1, <1>2, <2>1 DEF LeakInv, LeakIsBounded, TypeOK
  <1> QED BY <1>3, <1>4, <1>5 DEF HandlerStep

\* So does a step of the reload goroutine, which closes but never looks up.
LEMMA ReloadKeepsLeakInv ==
  ASSUME DispatchInv, LeakInv, ReloadStep
  PROVE  LeakInv'
  <1>1. /\ UNCHANGED reqVars /\ closed \subseteq closed' /\ reopened' \subseteq reopened
    BY DEF ReloadStep, InitLoggers, InitLoggersStep, CloseOne, ResetMap, CreateLogger,
           CreateFails, InitReturns
  <1>2. Unlocked' => \A i \in closed' : i.gen < gen'
    BY DEF ReloadStep, InitLoggers, InitLoggersStep, CloseOne, ResetMap, CreateLogger,
           CreateFails, InitReturns, Unlocked, DispatchInv, MgrInv, InvCreating
  <1> QED BY <1>1, <1>2 DEF LeakInv, LeakIsBounded, reqVars

\* A reload leaks at most one file or connection per request and generation.
THEOREM LeakIsBoundedHolds == Spec => []LeakIsBounded
  <1>1. Init => LeakInv
    BY DEF Init, LeakInv, LeakIsBounded
  <1>2. DispatchInv /\ LeakInv /\ [Next]_vars => LeakInv'
    BY HandlerKeepsLeakInv, ReloadKeepsLeakInv
       DEF Next, vars, reqVars, mgrVars, LeakInv, LeakIsBounded, Unlocked
  <1>3. LeakInv => LeakIsBounded
    BY DEF LeakInv
  <1> QED BY <1>1, <1>2, <1>3, DispatchInvariance, PTL DEF Spec

-----------------------------------------------------------------------------
\* A name every configuration writes through lumberjack.
AlwaysRotated(d) == \A c \in Configs : c[d] = "rotated"

\* Such a name is always in the map and its instances never refuse a write,
\* so a position passed without a fault has been stored.
RotatedInv ==
    /\ \A i \in created : AlwaysRotated(i.dest) => i.kind = "rotated"
    /\ \A d \in Dests : AlwaysRotated(d) =>
        d \notin initErrors /\ (Unlocked => loggers[d] # NoLogger)
    /\ \A r \in Requests :
        /\ Answered(r) => todo[r] = {}
        /\ (pc[r] \in {"loop", "write", "answered"} /\ r \notin faulted) =>
            \A k \in plan[r] \ todo[r] :
                (/\ list[r][k] \notin BadAdds /\ AlwaysRotated(list[r][k])
                 /\ pc[r] = "write" => k # at[r])
                    => \E s \in stored[r] : s.pos = k

LEMMA InitRotatedInv == Init => RotatedInv
  <1> SUFFICES ASSUME Init PROVE RotatedInv
    OBVIOUS
  <1>1. PICK c \in Configs : loggers = StartMap(c)
    BY DEF Init
  <1>2. \A d \in Dests : loggers[d] # NoLogger => loggers[d].kind = c[d] /\ loggers[d].dest = d
    BY <1>1 DEF StartMap
  <1>3. \A i \in created : i.kind = c[i.dest]
    BY <1>2 DEF Init, Published
  <1>4. \A d \in Dests : AlwaysRotated(d) => loggers[d] # NoLogger
    BY <1>1, ManagerAssumption DEF StartMap, EnabledIn, AlwaysRotated, Instance, Kinds
  <1> QED BY <1>3, <1>4 DEF Init, RotatedInv, AlwaysRotated, Answered

\* The handlers' steps keep it.
LEMMA HandlerKeepsRotatedInv ==
  ASSUME DispatchInv, RotatedInv, NEW q \in Requests,
         HandlerStep(q) \/ \E t \in Lists : Arrive(q, t)
  PROVE  RotatedInv'
  <1>1. TypeOK /\ HandlerInv(q) /\ UNCHANGED mgrVars
    BY DEF DispatchInv, HandlerStep, Arrive, ReadNames, LookUp, WriteSucceeds, WriteFails, Answer
  <1> DEFINE Mine(r) ==
        /\ Answered(r) => todo[r] = {}
        /\ (pc[r] \in {"loop", "write", "answered"} /\ r \notin faulted) =>
            \A k \in plan[r] \ todo[r] :
                (/\ list[r][k] \notin BadAdds /\ AlwaysRotated(list[r][k])
                 /\ pc[r] = "write" => k # at[r])
                    => \E s \in stored[r] : s.pos = k
  <1>2. ASSUME NEW r \in Requests \ {q} PROVE Mine(r)'
    <2>1. /\ UNCHANGED <<pc[r], todo[r], plan[r], list[r], at[r], stored[r]>>
          /\ (r \in faulted') <=> (r \in faulted)
      BY <1>1 DEF HandlerStep, Arrive, ReadNames, LookUp, WriteSucceeds, WriteFails, Answer,
                  TypeOK
    <2> QED BY <2>1 DEF RotatedInv, Answered, AlwaysRotated
  <1>3. Mine(q)'
    <2>1. CASE \E t \in Lists : Arrive(q, t)
      BY <1>1, <2>1 DEF Arrive, TypeOK, Answered
    <2>2. CASE ReadNames(q)
      BY <1>1, <2>2 DEF ReadNames, TypeOK, Answered
    <2>3. CASE \E k \in todo[q] : LookUp(q, k)
      <3>1. PICK k \in todo[q] : LookUp(q, k)
        BY <2>3
      <3>2. /\ pc[q] = "loop" /\ Unlocked /\ todo'[q] = todo[q] \ {k} /\ at'[q] = k
            /\ pc'[q] = IF Skips(q, k) THEN "loop" ELSE "write"
            /\ UNCHANGED <<plan, list, stored, faulted>>
        BY <1>1, <3>1 DEF LookUp, TypeOK, RLock, Remaining
      <3>3. list[q][k] \in Dests
        BY <1>1 DEF TypeOK, HandlerInv, InvPosition
      <3>4. (AlwaysRotated(list[q][k]) /\ list[q][k] \notin BadAdds) => pc'[q] = "write"
        BY <3>2, <3>3 DEF RotatedInv, Skips
      <3> QED BY <3>2, <3>4 DEF RotatedInv, Answered, AlwaysRotated
    <2>4. CASE WriteSucceeds(q)
      <3>1. /\ pc[q] = "write" /\ pc'[q] = "loop"
            /\ stored'[q] = stored[q] \cup {[pos |-> at[q], by |-> held[q]]}
            /\ UNCHANGED <<plan, list, todo, faulted>>
        BY <1>1, <2>4 DEF WriteSucceeds, TypeOK
      <3>2. \E s \in stored'[q] : s.pos = at[q]
        <4>1. [pos |-> at[q], by |-> held[q]] \in stored'[q]
          BY <3>1
        <4> QED BY <4>1
      <3>3. stored[q] \subseteq stored'[q] /\ pc'[q] = "loop" /\ pc[q] = "write"
        BY <3>1
      <3>4. UNCHANGED <<plan, list, todo, faulted>>
        BY <3>1
      <3> QED BY <3>2, <3>3, <3>4 DEF RotatedInv, Answered, AlwaysRotated
    <2>5. CASE WriteFails(q)
      <3>1. /\ pc[q] = "write" /\ pc'[q] = "loop"
            /\ q \notin faulted' => MayRefuse(held[q]) /\ q \notin faulted
            /\ UNCHANGED <<plan, list, todo, stored>>
        BY <1>1, <2>5 DEF WriteFails, TypeOK
      <3>2. AlwaysRotated(list[q][at[q]]) => held[q].kind = "rotated"
        BY <1>1, <3>1 DEF RotatedInv, HandlerInv, InvPosition
      <3>3. q \notin faulted' => ~AlwaysRotated(list[q][at[q]])
        BY <3>1, <3>2 DEF MayRefuse
      <3> QED BY <3>1, <3>3 DEF RotatedInv, Answered, AlwaysRotated
    <2>6. CASE Answer(q)
      <3>1. /\ pc[q] = "loop" /\ pc'[q] = "answered" /\ todo[q] = {}
            /\ UNCHANGED <<plan, list, todo, stored, faulted>>
        BY <1>1, <2>6 DEF Answer, LoopEnds, TypeOK
      <3> QED BY <3>1 DEF RotatedInv, Answered, AlwaysRotated
    <2> QED BY <2>1, <2>2, <2>3, <2>4, <2>5, <2>6 DEF HandlerStep
  <1>4. \A r \in Requests : Mine(r)'
    BY <1>2, <1>3
  <1> QED BY <1>1, <1>4 DEF RotatedInv, mgrVars, Unlocked, AlwaysRotated

\* The instances a reload makes for such a name are rotated ones, and making
\* them does not fail.
LEMMA ReloadKeepsRotatedInv ==
  ASSUME DispatchInv, RotatedInv, ReloadStep
  PROVE  RotatedInv'
  <1>1. MgrInv /\ MgrInv' /\ UNCHANGED reqVars
    BY ReloadInv DEF DispatchInv, ReloadStep
  <1>2. \A i \in created' : AlwaysRotated(i.dest) => i.kind = "rotated"
    <2>1. ASSUME NEW d \in Dests, CreateLogger(d), AlwaysRotated(d)
          PROVE  NewLogger(d).kind = "rotated" /\ NewLogger(d).dest = d
      BY <1>1, <2>1 DEF CreateLogger, NewLogger, MgrInv, InvArgument, AlwaysRotated
    <2>2. \A i \in created' : i \in created \/ \E d \in Dests : CreateLogger(d) /\ i = NewLogger(d)
      BY DEF ReloadStep, InitLoggers, InitLoggersStep, CloseOne, ResetMap, CreateLogger,
             CreateFails, InitReturns
    <2>3. \A d \in Dests : NewLogger(d).dest = d
      BY DEF NewLogger
    <2> QED BY <2>1, <2>2, <2>3 DEF RotatedInv
  <1>3. ASSUME NEW d \in Dests, AlwaysRotated(d)
        PROVE  d \notin initErrors' /\ (Unlocked' => loggers'[d] # NoLogger)
    <2>1. op = "creating" => conf[d] = "rotated"
      BY <1>1, <1>3 DEF MgrInv, InvArgument, AlwaysRotated
    <2>2. d \notin initErrors'
      BY <1>3, <2>1 DEF RotatedInv, ReloadStep, InitLoggers, InitLoggersStep, CloseOne, ResetMap,
             CreateLogger, CreateFails, InitReturns, MayFailToOpen
    <2>3. ASSUME Unlocked' PROVE loggers'[d] # NoLogger
      <3>1. InitReturns /\ op = "creating"
        BY <2>3 DEF ReloadStep, InitLoggers, InitLoggersStep, CloseOne, ResetMap, CreateLogger,
               CreateFails, InitReturns, Unlocked
      <3>2. toCreate = {} /\ loggers' = loggers /\ initErrors' = initErrors
        BY <3>1 DEF InitReturns
      <3>3. loggers[d] = NewLogger(d) /\ d \in EnabledIn(conf)
        BY <1>1, <2>1, <2>2, <3>1, <3>2 DEF MgrInv, InvCreating, EnabledIn
      <3>4. conf \in Configs /\ MgrTypeOK
        BY <1>1, <3>1 DEF MgrInv, InvArgument
      <3> QED BY <3>2, <3>3, <3>4, NewLoggerType
    <2> QED BY <2>2, <2>3
  <1> QED BY <1>1, <1>2, <1>3 DEF RotatedInv, reqVars, Answered, AlwaysRotated

\* A destination that is always rotated loses no record to a reload.
THEOREM RotatedSurvivesReloadHolds == Spec => []RotatedSurvivesReload
  <1>1. DispatchInv /\ RotatedInv /\ [Next]_vars => RotatedInv'
    BY HandlerKeepsRotatedInv, ReloadKeepsRotatedInv
       DEF Next, vars, reqVars, mgrVars, RotatedInv, Unlocked, Answered, AlwaysRotated
  <1>2. RotatedInv => RotatedSurvivesReload
    BY DEF RotatedInv, RotatedSurvivesReload, Answered, AlwaysRotated
  <1> QED BY <1>1, <1>2, InitRotatedInv, DispatchInvariance, PTL DEF Spec

-----------------------------------------------------------------------------
(***************************************************************************)
(* LogDispatch implements LogDelivery: a request that arrives is accepted, *)
(* a write that succeeds delivers, the return of the handler answers, and  *)
(* every other step, the reload goroutine's included, is a stutter.        *)
(***************************************************************************)

\* The abstract state is that of the requests alone.
LEMMA BarUnchanged ==
  ASSUME NEW r \in Requests,
         pc'[r] = pc[r] \/ (pc[r] \in Inside /\ pc'[r] \in Inside),
         targets'[r] = targets[r], anySuccess'[r] = anySuccess[r], stored'[r] = stored[r]
  PROVE  /\ StatusOf(r)' = StatusOf(r)
         /\ WantedBy(r)' = WantedBy(r)
         /\ DeliveredFor(r)' = DeliveredFor(r)
  <1>1. StatusOf(r)' = StatusOf(r)
    BY DEF StatusOf, Inside
  <1>2. WantedBy(r)' = WantedBy(r)
    BY DEF WantedBy, Inside
  <1>3. DeliveredFor(r)' = DeliveredFor(r)
    BY DEF DeliveredFor
  <1> QED BY <1>1, <1>2, <1>3

\* A step after which that holds of every request is an abstract stutter.
LEMMA AllBarsUnchanged ==
  ASSUME \A r \in Requests : /\ StatusOf(r)' = StatusOf(r)
                             /\ WantedBy(r)' = WantedBy(r)
                             /\ DeliveredFor(r)' = DeliveredFor(r)
  PROVE  UNCHANGED Promise!vars
  BY DEF Promise!vars, statusBar, wantedBar, deliveredBar

\* Start-up has accepted nothing.
LEMMA InitRefines == Init => Promise!Init
  <1> SUFFICES ASSUME Init PROVE Promise!Init
    OBVIOUS
  <1>1. \A r \in Requests : pc[r] = "idle" /\ stored[r] = {}
    BY DEF Init
  <1>2. \A r \in Requests : StatusOf(r) = "idle"
    BY <1>1 DEF StatusOf, Inside
  <1>3. \A r \in Requests : WantedBy(r) = {}
    BY <1>1 DEF WantedBy
  <1>4. \A r \in Requests : DeliveredFor(r) = {}
    BY <1>1 DEF DeliveredFor
  <1> QED
    BY <1>2, <1>3, <1>4 DEF Promise!Init, statusBar, wantedBar, deliveredBar

\* The arrival of a request accepts it, for the destinations of its rule.
LEMMA ArriveRefines ==
  ASSUME DispatchInv, NEW q \in Requests, NEW t \in Lists, Arrive(q, t)
  PROVE  Promise!Accept(q, WantedBy(q)') /\ WantedBy(q)' \in SUBSET Dests
  <1>1. TypeOK
    BY DEF DispatchInv
  <1>2. /\ pc[q] \in {"idle", "answered"} /\ pc'[q] = "names"
        /\ targets'[q] = t /\ stored'[q] = {}
    BY <1>1 DEF Arrive, TypeOK
  <1>3. StatusOf(q) # "accepted"
    BY <1>2 DEF StatusOf, Inside
  <1>4. StatusOf(q)' = "accepted" /\ DeliveredFor(q)' = {}
    BY <1>2 DEF StatusOf, DeliveredFor, Inside
  <1>5. ASSUME NEW r \in Requests, r # q
        PROVE  /\ StatusOf(r)' = StatusOf(r)
               /\ WantedBy(r)' = WantedBy(r)
               /\ DeliveredFor(r)' = DeliveredFor(r)
    <2>1. /\ pc'[r] = pc[r] /\ targets'[r] = targets[r]
          /\ anySuccess'[r] = anySuccess[r] /\ stored'[r] = stored[r]
      BY <1>1, <1>5 DEF Arrive, TypeOK
    <2> QED BY <2>1, BarUnchanged
  <1>6. Promise!Accept(q, WantedBy(q)')
    BY <1>3, <1>4, <1>5 DEF Promise!Accept, statusBar, wantedBar, deliveredBar
  <1>7. WantedBy(q)' \in SUBSET Dests
    BY <1>2, DispatchAssumption DEF WantedBy, Lists, ListRange
  <1> QED BY <1>6, <1>7

\* A write that succeeds delivers to a destination that is wanted.
LEMMA WriteRefines ==
  ASSUME DispatchInv, NEW q \in Requests, WriteSucceeds(q)
  PROVE  \E d \in Dests : Promise!Deliver(q, d)
  <1> DEFINE d == held[q].dest
  <1>1. TypeOK /\ HandlerInv(q)
    BY DEF DispatchInv
  <1>2. /\ pc[q] = "write" /\ pc'[q] = "loop"
        /\ stored'[q] = stored[q] \cup {[pos |-> at[q], by |-> held[q]]}
        /\ targets'[q] = targets[q]
    BY <1>1 DEF WriteSucceeds, TypeOK
  <1>3. d \in ListRange(list[q]) /\ d \in Dests
    <2>1. at[q] \in DOMAIN list[q] /\ d = list[q][at[q]]
      BY <1>1, <1>2 DEF HandlerInv, InvPosition
    <2> QED BY <2>1, <1>1 DEF ListRange, TypeOK
  <1>4. d \in WantedBy(q)
    BY <1>1, <1>2, <1>3 DEF HandlerInv, InvOutcome, WantedBy
  <1>5. DeliveredFor(q)' = DeliveredFor(q) \cup {d}
    <2> DEFINE n == [pos |-> at[q], by |-> held[q]]
    <2>1. n.by.dest = d
      OBVIOUS
    <2> HIDE DEF n, d
    <2>2. stored'[q] = stored[q] \cup {n}
      BY <1>2 DEF n
    <2>3. \A x : x \in {s.by.dest : s \in stored'[q]}
                 <=> x \in {s.by.dest : s \in stored[q]} \cup {d}
      BY <2>1, <2>2
    <2>4. {s.by.dest : s \in stored'[q]} = {s.by.dest : s \in stored[q]} \cup {d}
      BY <2>3
    <2> QED BY <2>4 DEF DeliveredFor
  <1>6. StatusOf(q) = "accepted" /\ StatusOf(q)' = "accepted" /\ WantedBy(q)' = WantedBy(q)
    BY <1>2 DEF StatusOf, WantedBy, Inside
  <1>7. ASSUME NEW r \in Requests, r # q
        PROVE  /\ StatusOf(r)' = StatusOf(r)
               /\ WantedBy(r)' = WantedBy(r)
               /\ DeliveredFor(r)' = DeliveredFor(r)
    <2>1. /\ pc'[r] = pc[r] /\ targets'[r] = targets[r]
          /\ anySuccess'[r] = anySuccess[r] /\ stored'[r] = stored[r]
      BY <1>1, <1>7 DEF WriteSucceeds, TypeOK
    <2> QED BY <2>1, BarUnchanged
  <1> HIDE DEF d
  <1>8. Promise!Deliver(q, d)
    BY <1>4, <1>5, <1>6, <1>7 DEF Promise!Deliver, statusBar, wantedBar, deliveredBar
  <1> QED BY <1>3, <1>8

\* The return of the handler answers.
LEMMA AnswerRefines ==
  ASSUME DispatchInv, NEW q \in Requests, Answer(q)
  PROVE  Promise!Answer(q)
  <1>1. TypeOK /\ HandlerInv(q)
    BY DEF DispatchInv
  <1>2. /\ pc[q] = "loop" /\ pc'[q] = "answered"
        /\ UNCHANGED <<targets, anySuccess, stored>>
    BY <1>1 DEF Answer, TypeOK
  <1>3. anySuccess[q] <=> DeliveredFor(q) # {}
    BY <1>1 DEF HandlerInv, InvOutcome, DeliveredFor
  <1>4. /\ StatusOf(q) = "accepted"
        /\ StatusOf(q)' = IF DeliveredFor(q) = {} THEN "error" ELSE "success"
    BY <1>2, <1>3 DEF StatusOf, Inside
  <1>5. \A r \in Requests : DeliveredFor(r)' = DeliveredFor(r)
    BY <1>2 DEF DeliveredFor
  <1>6. WantedBy(q)' = WantedBy(q)
    BY <1>2 DEF WantedBy
  <1>7. ASSUME NEW r \in Requests, r # q
        PROVE  StatusOf(r)' = StatusOf(r) /\ WantedBy(r)' = WantedBy(r)
    <2>1. pc'[r] = pc[r]
      BY <1>1, <1>7 DEF Answer, TypeOK
    <2> QED BY <2>1, <1>2, BarUnchanged
  <1> QED
    BY <1>4, <1>5, <1>6, <1>7 DEF Promise!Answer, statusBar, wantedBar, deliveredBar

\* The other steps of a handler do not show.
LEMMA QuietSteps ==
  ASSUME DispatchInv, NEW q \in Requests,
         ReadNames(q) \/ (\E k \in todo[q] : LookUp(q, k)) \/ WriteFails(q)
  PROVE  UNCHANGED Promise!vars
  <1>1. TypeOK
    BY DEF DispatchInv
  <1>2. UNCHANGED <<targets, anySuccess, stored>>
    BY DEF ReadNames, LookUp, WriteFails
  <1>3. pc[q] \in Inside /\ pc'[q] \in Inside
    BY <1>1 DEF ReadNames, LookUp, WriteFails, TypeOK, Inside
  <1>4. \A r \in Requests : r # q => pc'[r] = pc[r]
    BY <1>1 DEF ReadNames, LookUp, WriteFails, TypeOK
  <1> QED BY <1>2, <1>3, <1>4, BarUnchanged, AllBarsUnchanged

\* Every step is a step of LogDelivery or a stutter of it.
LEMMA StepRefines ==
  ASSUME DispatchInv, [Next]_vars
  PROVE  [Promise!Next]_(Promise!vars)
  <1>1. CASE \E q \in Requests : \E t \in Lists : Arrive(q, t)
    BY <1>1, ArriveRefines DEF Promise!Next
  <1>2. ASSUME NEW q \in Requests, HandlerStep(q)
        PROVE  [Promise!Next]_(Promise!vars)
    <2>1. CASE WriteSucceeds(q)
      BY <2>1, WriteRefines DEF Promise!Next
    <2>2. CASE Answer(q)
      BY <2>2, AnswerRefines DEF Promise!Next
    <2>3. CASE ReadNames(q) \/ (\E k \in todo[q] : LookUp(q, k)) \/ WriteFails(q)
      BY <2>3, QuietSteps
    <2> QED BY <1>2, <2>1, <2>2, <2>3 DEF HandlerStep
  <1>3. CASE ReloadStep \/ UNCHANGED vars
    <2>1. UNCHANGED <<pc, targets, anySuccess, stored>>
      BY <1>3 DEF ReloadStep, vars, reqVars
    <2> QED BY <2>1, BarUnchanged, AllBarsUnchanged
  <1> QED BY <1>1, <1>2, <1>3 DEF Next

\* LogDispatch keeps the promise of LogDelivery, under any reloads and faults.
THEOREM KeepsPromiseHolds == Spec => KeepsPromise
  <1>1. Init => Promise!Init
    BY InitRefines
  <1>2. DispatchInv /\ [Next]_vars => [Promise!Next]_(Promise!vars)
    BY StepRefines
  <1> QED BY <1>1, <1>2, DispatchInvariance, PTL DEF Spec, KeepsPromise, Promise!Spec
=============================================================================
