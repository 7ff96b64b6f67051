-------------------------- MODULE TokenAttemptsProofs --------------------------
(***************************************************************************)
(* Proofs about TokenAttempts for any keys, callers, limits and times.  That *)
(* a new entry is a free cell rests on counting those in use.               *)
(***************************************************************************)
EXTENDS TokenAttempts, FiniteSetTheorems, TLAPS

\* A caller that was called knows its key and a time at which calls began; one
\* that has loaded an entry holds it.
InCall ==
    \A c \in Callers :
        /\ pc[c] # "idle" =>
             /\ arg[c] \in [key : Keys, success : BOOLEAN, now : Times]
             /\ arg[c].now <= LastCall
        /\ pc[c] = "lock" => attempt[c] \in Entries

\* The failures an entry let through are among those it has counted, and ended
\* where the limit begins.
CountsThem(v) ==
    /\ v.letThrough <= v.count
    /\ v.letThrough > 0 => v.letThrough < MaxAttempts

AttemptsInv ==
    /\ TypeOK
    /\ InCall
    /\ \A e \in Entries : CountsThem(entry[e])

-----------------------------------------------------------------------------

\* A new entry counts nothing.
LEMMA ZeroCounts == Zero \in Entry /\ CountsThem(Zero)
  BY AttemptsAssumption DEF Zero, Entry, Times, CountsThem

\* The limiter starts in the invariant.
LEMMA InitInv == Init => AttemptsInv
  <1> SUFFICES ASSUME Init PROVE AttemptsInv
    OBVIOUS
  <1> USE DEF Init
  <1>1. 0 \in Times /\ 1 \in Times
    BY AttemptsAssumption DEF Times
  <1>2. TypeOK
    BY <1>1, ZeroCounts DEF TypeOK
  <1>3. InCall
    BY DEF InCall
  <1> QED BY <1>2, <1>3, ZeroCounts DEF AttemptsInv

\* What a function gives for the elements of a finite set is no more than these.
LEMMA ImageSize ==
  ASSUME NEW S, IsFiniteSet(S), NEW f
  PROVE  LET T == {f[x] : x \in S}
         IN  IsFiniteSet(T) /\ Cardinality(T) <= Cardinality(S)
  <1> DEFINE T == {f[x] : x \in S}
  <1>1. [x \in S |-> f[x]] \in Surjection(S, T)
    BY DEF Surjection
  <1> QED BY <1>1, FS_Surjection

\* While a key has no entry, a cell is free: fewer are in use than there are.
LEMMA FreeCell ==
  ASSUME NEW k \in Keys, attempts[k] = NoEntry
  PROVE  NewEntry \in Entries
  <1> DEFINE others == Keys \ {k}
             inMap == {attempts[j] : j \in others}
             held == {attempt[c] : c \in Callers}
  <1>1. IsFiniteSet(others) /\ Cardinality(others) = Cardinality(Keys) - 1
    BY AttemptsAssumption, FS_RemoveElement
  <1>2. IsFiniteSet(inMap) /\ Cardinality(inMap) <= Cardinality(others)
    BY <1>1, ImageSize
  <1>3. IsFiniteSet(held) /\ Cardinality(held) <= Cardinality(Callers)
    BY AttemptsAssumption, ImageSize
  <1> HIDE DEF others, inMap, held
  <1>4. IsFiniteSet(inMap \cap held)
    BY <1>2, FS_Intersection
  <1>5. /\ IsFiniteSet(inMap \cup held)
        /\ Cardinality(inMap \cup held) <= Cardinality(inMap) + Cardinality(held)
    <2>1. /\ IsFiniteSet(inMap \cup held)
          /\ Cardinality(inMap \cup held)
               = Cardinality(inMap) + Cardinality(held) - Cardinality(inMap \cap held)
      BY <1>2, <1>3, FS_Union
    <2>2. /\ Cardinality(inMap) \in Nat /\ Cardinality(held) \in Nat
          /\ Cardinality(inMap \cap held) \in Nat
      BY <1>2, <1>3, <1>4, FS_CardinalityType
    <2> QED BY <2>1, <2>2
  <1>6. /\ Cardinality(Keys) \in Nat /\ Cardinality(Callers) \in Nat
        /\ Cardinality(Entries) \in Nat /\ Cardinality(others) \in Nat
        /\ Cardinality(inMap) \in Nat /\ Cardinality(held) \in Nat
        /\ Cardinality(inMap \cup held) \in Nat
    BY <1>1, <1>2, <1>3, <1>5, AttemptsAssumption, FS_CardinalityType
  <1>7. Cardinality(inMap \cup held) < Cardinality(Entries)
    BY <1>1, <1>2, <1>3, <1>5, <1>6, AttemptsAssumption
  <1>8. ASSUME Entries \subseteq inMap \cup held
        PROVE  FALSE
    <2>1. Cardinality(Entries) <= Cardinality(inMap \cup held)
      BY <1>5, <1>8, FS_Subset
    <2> QED BY <1>6, <1>7, <2>1
  <1>9. PICK e \in Entries : e \notin inMap \cup held
    BY <1>8
  <1>10. ~InUse(e)
    BY <1>9, AttemptsAssumption DEF InUse, inMap, held, others
  <1> QED BY <1>10 DEF NewEntry

\* Whatever the heap frees, entries that were well counted remain so.
LEMMA UpdateInv ==
  ASSUME NEW f \in [Entries -> Entry], \A e \in Entries : CountsThem(f[e]), Update(f)
  PROVE  entry' \in [Entries -> Entry] /\ \A e \in Entries : CountsThem(entry'[e])
  BY ZeroCounts DEF Update

\* The clock and a new call.
LEMMA TickInv ==
  ASSUME AttemptsInv, Tick
  PROVE  AttemptsInv'
  BY AttemptsAssumption
     DEF Tick, callVars, cleanVars, AttemptsInv, TypeOK, Times, InCall, CountsThem

LEMMA CallInv ==
  ASSUME AttemptsInv, NEW c \in Callers, NEW k \in Keys, NEW success \in BOOLEAN,
         Call(c, k, success)
  PROVE  AttemptsInv'
  <1> USE DEF Call, cleanVars, AttemptsInv
  <1> DEFINE a == [key |-> k, success |-> success, now |-> clock]
  <1>1. a \in [key : Keys, success : BOOLEAN, now : Times] /\ a.now <= LastCall
    BY DEF TypeOK
  <1>2. arg' = [arg EXCEPT ![c] = a]
    OBVIOUS
  <1> HIDE DEF a
  <1>3. TypeOK'
    BY <1>1, <1>2 DEF TypeOK
  <1>4. InCall'
    BY <1>1, <1>2 DEF TypeOK, InCall
  <1> QED BY <1>3, <1>4

\* Loading an entry, the one of the key or a new one.
LEMMA LoadOrStoreInv ==
  ASSUME AttemptsInv, NEW c \in Callers, LoadOrStore(c)
  PROVE  AttemptsInv'
  <1> USE DEF LoadOrStore, cleanVars, AttemptsInv
  <1>1. arg[c].key \in Keys
    BY DEF InCall
  <1>2. attempt'[c] \in Entries /\ attempt' = [attempt EXCEPT ![c] = attempt'[c]]
    BY <1>1, FreeCell DEF TypeOK
  <1>3. attempts' \in [Keys -> Entries \cup {NoEntry}]
    BY <1>1, FreeCell DEF TypeOK
  <1>4. TypeOK'
    BY <1>2, <1>3 DEF TypeOK
  <1>5. InCall'
    BY <1>2 DEF TypeOK, InCall
  <1> QED BY <1>4, <1>5

\* A caller that returns leaves nothing to claim of it.
LEMMA ReturnInv ==
  ASSUME AttemptsInv, NEW c \in Callers, Return(c),
         entry' \in [Entries -> Entry], \A e \in Entries : CountsThem(entry'[e])
  PROVE  AttemptsInv'
  <1> USE DEF Return, cleanVars, AttemptsInv
  <1>1. TypeOK'
    BY DEF TypeOK
  <1>2. InCall'
    BY DEF TypeOK, InCall
  <1> QED BY <1>1, <1>2

\* A refused caller changes no entry.
LEMMA RefuseBlockedInv ==
  ASSUME AttemptsInv, NEW c \in Callers, RefuseBlocked(c)
  PROVE  AttemptsInv'
  BY ReturnInv, UpdateInv DEF RefuseBlocked, AttemptsInv, TypeOK

\* A success clears the entry.
LEMMA RecordSuccessInv ==
  ASSUME AttemptsInv, NEW c \in Callers, RecordSuccess(c)
  PROVE  AttemptsInv'
  <1> DEFINE f == [entry EXCEPT ![attempt[c]] = Zero]
  <1>1. f \in [Entries -> Entry] /\ \A e \in Entries : CountsThem(f[e])
    BY ZeroCounts DEF AttemptsInv, TypeOK
  <1>2. Return(c) /\ Update(f)
    BY DEF RecordSuccess
  <1> HIDE DEF f
  <1> QED BY <1>1, <1>2, ReturnInv, UpdateInv

\* A failure is counted, and let through only below the limit.
LEMMA RecordFailureInv ==
  ASSUME AttemptsInv, NEW c \in Callers, RecordFailure(c)
  PROVE  AttemptsInv'
  <1> DEFINE e == entry[attempt[c]]
             n == e.count + 1
             v == [count        |-> n,
                   firstFail    |-> IF e.count = 0 THEN arg[c].now ELSE e.firstFail,
                   blockedUntil |-> IF Blocks(n) THEN BlockEnd(arg[c].now, n) ELSE e.blockedUntil,
                   letThrough   |-> IF Blocks(n) THEN e.letThrough ELSE e.letThrough + 1]
             f == [entry EXCEPT ![attempt[c]] = v]
  <1>1. attempt[c] \in Entries /\ e \in Entry /\ CountsThem(e)
    BY DEF RecordFailure, AttemptsInv, TypeOK, InCall
  <1>2. arg[c].now \in Times /\ arg[c].now <= LastCall
    BY DEF RecordFailure, AttemptsInv, InCall
  <1>3. n \in Nat /\ e.letThrough \in Nat /\ (e.letThrough + 1) \in Nat
    BY <1>1 DEF Entry
  <1>4. BlockEnd(arg[c].now, n) \in 0 .. LastCall + BlockDuration
    BY <1>2, AttemptsAssumption DEF BlockEnd, Times
  <1>5. v \in Entry
    BY <1>1, <1>2, <1>3, <1>4 DEF Entry
  <1>6. CountsThem(v)
    BY <1>1, <1>3, AttemptsAssumption DEF CountsThem, Blocks, Entry
  <1>7. Return(c) /\ Update(f)
    BY DEF RecordFailure
  <1> HIDE DEF v
  <1>8. f \in [Entries -> Entry] /\ \A x \in Entries : CountsThem(f[x])
    BY <1>1, <1>5, <1>6 DEF AttemptsInv, TypeOK
  <1> HIDE DEF f
  <1> QED BY <1>7, <1>8, ReturnInv, UpdateInv

\* The cleaner takes entries away and changes none.
LEMMA CleanerStepInv ==
  ASSUME AttemptsInv, CleanerStep
  PROVE  AttemptsInv'
  <1> USE DEF AttemptsInv
  <1>1. CASE StartCleanup \/ EndCleanup
    BY <1>1, AttemptsAssumption
       DEF StartCleanup, EndCleanup, callVars, TypeOK, Times, InCall, CountsThem
  <1>2. ASSUME NEW k \in Keys, Examine(k)
        PROVE  AttemptsInv'
    BY <1>2 DEF Examine, callVars, TypeOK, InCall, CountsThem
  <1>3. ASSUME NEW k \in Keys, Delete(k)
        PROVE  AttemptsInv'
    <2>1. entry' \in [Entries -> Entry] /\ \A e \in Entries : CountsThem(entry'[e])
      BY <1>3, UpdateInv DEF Delete, TypeOK
    <2>2. TypeOK'
      BY <1>3, <2>1 DEF Delete, callVars, TypeOK
    <2>3. InCall'
      BY <1>3 DEF Delete, callVars, InCall
    <2> QED BY <2>1, <2>2, <2>3
  <1> QED BY <1>1, <1>2, <1>3 DEF CleanerStep

\* Every step preserves the invariant.
LEMMA NextInv ==
  ASSUME AttemptsInv, [Next]_vars
  PROVE  AttemptsInv'
  <1>1. CASE UNCHANGED vars
    BY <1>1 DEF vars, callVars, cleanVars, AttemptsInv, TypeOK, InCall, CountsThem
  <1> QED
    BY <1>1, TickInv, CallInv, LoadOrStoreInv, RefuseBlockedInv, RecordSuccessInv,
       RecordFailureInv, CleanerStepInv
       DEF Next, CallerStep

\* The invariant of the limiter.
THEOREM AttemptsInvariance == Spec => []AttemptsInv
  BY InitInv, NextInv, PTL DEF Spec

\* Types: the map and the callers refer to entries, and the heap does not run out.
THEOREM AttemptsTypeCorrect == Spec => []TypeOK
  BY AttemptsInvariance, PTL DEF AttemptsInv

\* No entry lets as many failures through as the limit, whoever races for it and
\* however stale the callers' times are.
THEOREM FailuresAreBoundedHolds == Spec => []FailuresAreBounded
  <1>1. AttemptsInv => FailuresAreBounded
    BY DEF AttemptsInv, CountsThem, FailuresAreBounded
  <1> QED BY <1>1, AttemptsInvariance, PTL
=============================================================================
