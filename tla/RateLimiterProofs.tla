--------------------------- MODULE RateLimiterProofs ---------------------------
(***************************************************************************)
(* RateLimiter for any addresses, requests, limits and interleaving with    *)
(* the cleaner: no bucket is ever overdrawn, a request that is to charge a  *)
(* bucket holds one, and a new one is always available (TypeOK); then, from  *)
(* the accounts kept of each address's buckets, how many of its requests a   *)
(* minute can admit and that none is refused for nothing.                   *)
(***************************************************************************)
EXTENDS RateLimiter, FiniteSetTheorems, TLAPS

\* A request in the middleware has its address; one past Load holds an entry.
Underway ==
    \A r \in Requests :
        /\ pc[r] # "idle" => ip[r] \in Addresses
        /\ pc[r] \in {"touch", "allow"} => entry[r] \in Entries
        /\ pc[r] \in {"idle", "load"} => entry[r] = Nil

LimiterInv == TypeOK /\ Underway

-----------------------------------------------------------------------------

\* What a function gives for the elements of a finite set is no more than these.
LEMMA ValuesSize ==
  ASSUME NEW S, IsFiniteSet(S), NEW f
  PROVE  LET T == {f[x] : x \in S}
         IN  IsFiniteSet(T) /\ Cardinality(T) <= Cardinality(S)
  <1> DEFINE T == {f[x] : x \in S}
  <1>1. [x \in S |-> f[x]] \in Surjection(S, T)
    BY DEF Surjection
  <1> QED BY <1>1, FS_Surjection

\* While an address has no entry, a cell is free.
LEMMA FreeCell ==
  ASSUME NEW a \in Addresses, limiters[a] = Nil
  PROVE  NewEntry \in Entries /\ ~InUse(NewEntry)
  <1> DEFINE others == Addresses \ {a}
             inMap == {limiters[b] : b \in others}
             held == {entry[r] : r \in Requests}
  <1>1. IsFiniteSet(others) /\ Cardinality(others) = Cardinality(Addresses) - 1
    BY LimiterAssumption, FS_RemoveElement
  <1>2. IsFiniteSet(inMap) /\ Cardinality(inMap) <= Cardinality(others)
    BY <1>1, ValuesSize
  <1>3. IsFiniteSet(held) /\ Cardinality(held) <= Cardinality(Requests)
    BY LimiterAssumption, ValuesSize
  <1>4. \A e \in Entries : InUse(e) => e \in inMap \cup held
    BY LimiterAssumption DEF InUse
  <1> HIDE DEF others, inMap, held
  <1>5. /\ IsFiniteSet(inMap \cup held)
        /\ Cardinality(inMap \cup held) <= Cardinality(inMap) + Cardinality(held)
    <2>1. IsFiniteSet(inMap \cap held)
      BY <1>2, FS_Intersection
    <2>2. /\ IsFiniteSet(inMap \cup held)
          /\ Cardinality(inMap \cup held)
               = Cardinality(inMap) + Cardinality(held) - Cardinality(inMap \cap held)
      BY <1>2, <1>3, FS_Union
    <2>3. /\ Cardinality(inMap) \in Nat /\ Cardinality(held) \in Nat
          /\ Cardinality(inMap \cap held) \in Nat
      BY <1>2, <1>3, <2>1, FS_CardinalityType
    <2> QED BY <2>2, <2>3
  <1>6. \E e \in Entries : ~InUse(e)
    <2> SUFFICES ASSUME Entries \subseteq inMap \cup held PROVE FALSE
      BY <1>4
    <2>1. Cardinality(Entries) <= Cardinality(inMap \cup held)
      BY <1>5, FS_Subset
    <2>2. /\ Cardinality(Addresses) \in Nat /\ Cardinality(Requests) \in Nat
          /\ Cardinality(Entries) \in Nat /\ Cardinality(inMap) \in Nat
          /\ Cardinality(held) \in Nat /\ Cardinality(inMap \cup held) \in Nat
      BY <1>2, <1>3, <1>5, LimiterAssumption, FS_CardinalityType
    <2> QED BY <1>1, <1>2, <1>3, <1>5, <2>1, <2>2, LimiterAssumption
  <1> QED BY <1>6 DEF NewEntry

\* Buckets and times that have their types keep them when cells are freed.
LEMMA HeapTypes ==
  ASSUME NEW t, NEW s, Heap(t, s),
         \A e \in Entries : t[e] \in 0 .. Burst,
         \A e \in Entries : s[e] \in 0 .. Oldest
  PROVE  tokens' \in [Entries -> 0 .. Burst] /\ lastSeen' \in [Entries -> 0 .. Oldest]
  <1>1. Burst \in 0 .. Burst /\ 0 \in 0 .. Oldest
    BY LimiterAssumption DEF Oldest
  <1> QED BY <1>1 DEF Heap

-----------------------------------------------------------------------------

LEMMA InitLimiterInv == Init => LimiterInv
  BY LimiterAssumption DEF Init, LimiterInv, TypeOK, Underway, Oldest, Minute

\* Time passes: ages stay within their bounds, buckets within theirs.
LEMMA TickKeeps ==
  ASSUME LimiterInv, Tick
  PROVE  LimiterInv'
  <1>1. tokens' \in [Entries -> 0 .. Burst] /\ lastSeen' \in [Entries -> 0 .. Oldest]
    <2> DEFINE t == [e \in Entries |-> AtMost(tokens[e] + 1, Burst)]
               s == [e \in Entries |-> AtMost(lastSeen[e] + 1, Oldest)]
    <2>1. \A e \in Entries : t[e] \in 0 .. Burst /\ s[e] \in 0 .. Oldest
      BY LimiterAssumption DEF LimiterInv, TypeOK, AtMost, Oldest
    <2>2. Heap(t, s)
      BY DEF Tick
    <2> HIDE DEF t, s
    <2> QED BY <2>1, <2>2, HeapTypes
  <1>2. now' \in [Requests -> 0 .. Stall] /\ cleanNow' \in 0 .. Stall
    BY LimiterAssumption DEF LimiterInv, TypeOK, Tick, Active
  <1>3. admitted' \in [Addresses -> [Minute -> Nat]]
    <2>1. ASSUME NEW a \in Addresses, NEW m \in Minute
          PROVE  (IF m = 0 THEN 0 ELSE admitted[a][m - 1]) \in Nat
      <3>1. m # 0 => m - 1 \in Minute
        BY LimiterAssumption DEF Minute
      <3> QED BY <3>1 DEF LimiterInv, TypeOK
    <2>2. \A a \in Addresses :
            [m \in Minute |-> IF m = 0 THEN 0 ELSE admitted[a][m - 1]] \in [Minute -> Nat]
      BY <2>1
    <2> QED BY <2>2 DEF Tick
  <1> QED BY <1>1, <1>2, <1>3 DEF LimiterInv, TypeOK, Underway, Tick

\* Load leaves a request with the entry of its address or a new one.
LEMMA LoadKeeps ==
  ASSUME LimiterInv, NEW r \in Requests, Load(r)
  PROVE  LimiterInv'
  <1> DEFINE e == IF limiters[ip[r]] = Nil THEN NewEntry ELSE limiters[ip[r]]
  <1>1. ip[r] \in Addresses /\ pc[r] = "load"
    BY DEF LimiterInv, Underway, Load
  <1>2. e \in Entries
    BY <1>1, FreeCell DEF LimiterInv, TypeOK
  <1>3. /\ entry' = [entry EXCEPT ![r] = e]
        /\ limiters' = [limiters EXCEPT ![ip[r]] = e]
        /\ lastSeen' \in {[lastSeen EXCEPT ![e] = now[r]], lastSeen}
        /\ pc' = [pc EXCEPT ![r] = "touch"]
        /\ UNCHANGED <<tokens, ip, now, cleanVars, admitted>>
    BY DEF Load
  <1>4. now[r] \in 0 .. Oldest
    BY LimiterAssumption DEF LimiterInv, TypeOK, Oldest
  <1> HIDE DEF e
  <1> QED BY <1>1, <1>2, <1>3, <1>4 DEF LimiterInv, TypeOK, Underway, cleanVars

\* A request takes a token out of a bucket only if there is one.
LEMMA LeaveKeeps ==
  ASSUME LimiterInv, NEW r \in Requests, Admit(r) \/ Refuse(r)
  PROVE  LimiterInv'
  <1>1. pc[r] = "allow" /\ ip[r] \in Addresses /\ entry[r] \in Entries
    BY DEF LimiterInv, Underway, Admit, Refuse, Leave
  <1>2. PICK taken \in {0, 1} : Leave(r, taken) /\ (taken = 1 => tokens[entry[r]] > 0)
    BY DEF Admit, Refuse, HasToken
  <1>3. tokens' \in [Entries -> 0 .. Burst] /\ lastSeen' \in [Entries -> 0 .. Oldest]
    <2> DEFINE t == [tokens EXCEPT ![entry[r]] = @ - taken]
    <2>1. \A e \in Entries : t[e] \in 0 .. Burst
      BY <1>1, <1>2, LimiterAssumption DEF LimiterInv, TypeOK
    <2>2. Heap(t, lastSeen)
      BY <1>2 DEF Leave
    <2>3. \A e \in Entries : lastSeen[e] \in 0 .. Oldest
      BY DEF LimiterInv, TypeOK
    <2> HIDE DEF t
    <2> QED BY <2>1, <2>2, <2>3, HeapTypes
  <1>4. admitted' \in [Addresses -> [Minute -> Nat]]
    <2>1. CASE Refuse(r)
      BY <2>1 DEF Refuse, LimiterInv, TypeOK
    <2>2. CASE Admit(r)
      <3>3. admitted' = [admitted EXCEPT ![ip[r]] = [m \in Minute |-> @[m] + 1]]
        BY <2>2 DEF Admit
      <3>4. \A b \in Addresses :
              admitted'[b] = IF b = ip[r] THEN [m \in Minute |-> admitted[b][m] + 1]
                                          ELSE admitted[b]
        BY <1>1, <3>3 DEF LimiterInv, TypeOK
      <3>5. \A b \in Addresses : admitted'[b] \in [Minute -> Nat]
        <4>1. \A b \in Addresses : [m \in Minute |-> admitted[b][m] + 1] \in [Minute -> Nat]
          BY DEF LimiterInv, TypeOK
        <4>2. \A b \in Addresses : admitted[b] \in [Minute -> Nat]
          BY DEF LimiterInv, TypeOK
        <4> QED BY <3>4, <4>1, <4>2
      <3>6. admitted' = [b \in Addresses |-> admitted'[b]]
        BY <3>3 DEF LimiterInv, TypeOK
      <3> QED BY <3>5, <3>6
    <2> QED BY <2>1, <2>2
  <1> QED BY <1>1, <1>2, <1>3, <1>4, LimiterAssumption
         DEF LimiterInv, TypeOK, Underway, Leave, cleanVars

\* The cleaner's steps, between any two steps of the requests.
LEMMA CleanerKeeps ==
  ASSUME LimiterInv, CleanerStep \/ StopCleaner
  PROVE  LimiterInv'
  <1>1. CASE \E a \in Addresses : Delete(a)
    <2>1. tokens' \in [Entries -> 0 .. Burst] /\ lastSeen' \in [Entries -> 0 .. Oldest]
      BY <1>1, HeapTypes DEF Delete, LimiterInv, TypeOK
    <2> QED BY <1>1, <2>1 DEF Delete, LimiterInv, TypeOK, Underway, reqVars
  <1>2. CASE StartCleanup \/ EndCleanup \/ StopCleaner \/ \E a \in Addresses : Examine(a)
    BY <1>2, LimiterAssumption
       DEF StartCleanup, EndCleanup, StopCleaner, Examine, LimiterInv, TypeOK, Underway, reqVars
  <1> QED BY <1>1, <1>2 DEF CleanerStep

-----------------------------------------------------------------------------

\* The invariant holds however the requests and the cleaner interleave.
THEOREM LimiterInvariance == Spec => []LimiterInv
  <1>1. LimiterInv /\ [Next]_vars => LimiterInv'
    <2> SUFFICES ASSUME LimiterInv, [Next]_vars PROVE LimiterInv'
      OBVIOUS
    <2>1. ASSUME NEW r \in Requests, NEW a \in Addresses, Arrive(r, a)
          PROVE  LimiterInv'
      BY <2>1 DEF Arrive, LimiterInv, TypeOK, Underway, cleanVars
    <2>2. ASSUME NEW r \in Requests, Touch(r)
          PROVE  LimiterInv'
      <3>1. entry[r] \in Entries /\ now[r] \in 0 .. Oldest
        BY <2>2, LimiterAssumption DEF Touch, LimiterInv, TypeOK, Underway, Oldest
      <3> QED BY <2>2, <3>1 DEF Touch, Touched, LimiterInv, TypeOK, Underway, cleanVars
    <2>3. CASE UNCHANGED vars
      BY <2>3 DEF vars, reqVars, cleanVars, LimiterInv, TypeOK, Underway
    <2> QED BY <2>1, <2>2, <2>3, TickKeeps, LoadKeeps, LeaveKeeps, CleanerKeeps
           DEF Next, RequestStep
  <1> QED BY <1>1, InitLimiterInv, PTL DEF Spec

\* No bucket is overdrawn or overfull and no request charges a missing one.
THEOREM LimiterTypeCorrect == Spec => []TypeOK
  <1>1. LimiterInv => TypeOK
    BY DEF LimiterInv
  <1> QED BY <1>1, LimiterInvariance, PTL

-----------------------------------------------------------------------------
(* What the buckets of an address have given and may still give *)

\* Address a has been served, or is being served, from entry e.
Serves(e, a) ==
    limiters[a] = e \/ \E r \in Requests : ip[r] = a /\ entry[r] = e

\* No entry is used for two addresses.
OneOwner ==
    \A e \in Entries : \A a, b \in Addresses : Serves(e, a) /\ Serves(e, b) => a = b

FreeIsFull == \A e \in Entries : ~InUse(e) => tokens[e] = Burst

\* Of the m + 1 tokens that a bucket has earned last, those that it does not
\* hold were taken.
EarnedBack ==
    \A a \in Addresses : \A e \in Entries :
        Serves(e, a) => \A m \in Minute : tokens[e] + admitted[a][m] >= m + 1

\* What was admitted, at any moment, during the m units after age p.
AtMostEarned(count) ==
    \A p, q \in Minute : p < q => count[q] + p + 1 <= count[p] + Burst + q

(* The accounts of address a, whose entry was deleted d units ago, or never.
   Of its requests, cur went through the entry that is in the map and old
   through the one that was deleted.  The first has earned since d units and
   has been touched since; the second is charged only by requests that came
   before its end, which are gone when Stall units are over. *)
Account(a, d, cur, old) ==
    /\ \A m \in Minute : admitted[a][m] = cur[m] + old[m]
    /\ limiters[a] = Nil => \A m \in Minute : cur[m] = 0
    /\ limiters[a] # Nil =>
         /\ lastSeen[limiters[a]] <= d + Stall
         /\ \A m \in Minute : /\ tokens[limiters[a]] + cur[m] <= Burst + m
                              /\ tokens[limiters[a]] + cur[m] <= Burst + d
    /\ \A r \in Requests : (ip[r] = a /\ entry[r] \notin {Nil, limiters[a]}) =>
         /\ d <= now[r]
         /\ \A m \in Minute : tokens[entry[r]] + old[m] <= Burst + m
         /\ \A q \in Requests :
              (ip[q] = a /\ entry[q] \notin {Nil, limiters[a]}) => entry[q] = entry[r]
    /\ \A m \in Minute : old[m] <= Burst + m
    /\ AtMostEarned(cur) /\ AtMostEarned(old)
    /\ \A m \in Minute : m + Stall < d => old[m] = 0
    /\ cleaner = a => limiters[a] # Nil /\ d >= Burst + Stall

HasAccount(a) == \E d \in Nat : \E cur, old \in [Minute -> Nat] : Account(a, d, cur, old)

BucketInv ==
    /\ LimiterInv
    /\ OneOwner
    /\ FreeIsFull
    /\ EarnedBack
    /\ \A a \in Addresses : HasAccount(a)

\* The start: nothing was deleted, or so long ago that it does not matter.
LEMMA InitBucketInv == Init => BucketInv
  <1> SUFFICES ASSUME Init PROVE BucketInv
    OBVIOUS
  <1>1. LimiterInv
    BY InitLimiterInv
  <1>2. \A e \in Entries : \A a \in Addresses : ~Serves(e, a)
    BY LimiterAssumption DEF Init, Serves
  <1>3. OneOwner /\ FreeIsFull /\ EarnedBack
    BY <1>2 DEF Init, OneOwner, FreeIsFull, EarnedBack
  <1>4. ASSUME NEW a \in Addresses
        PROVE  HasAccount(a)
    <2> DEFINE none == [m \in Minute |-> 0]
    <2>1. none \in [Minute -> Nat] /\ Burst + Stall \in Nat
      BY LimiterAssumption
    <2>2. AtMostEarned(none)
      BY LimiterAssumption DEF AtMostEarned, Minute
    <2>3. \A m \in Minute : none[m] = 0 /\ none[m] <= Burst + m /\ admitted[a][m] = 0
      BY LimiterAssumption DEF Init, Minute
    <2>4. cleaner # a /\ limiters[a] = Nil /\ \A r \in Requests : ip[r] # a
      BY LimiterAssumption DEF Init
    <2> HIDE DEF none
    <2>5. Account(a, Burst + Stall, none, none)
      BY <2>1, <2>2, <2>3, <2>4 DEF Account
    <2> QED BY <2>1, <2>5 DEF HasAccount
  <1> QED BY <1>1, <1>3, <1>4 DEF BucketInv

\* A step that changes none of the entries an address uses leaves its accounts.
LEMMA Undisturbed ==
  ASSUME NEW a \in Addresses, HasAccount(a), UNCHANGED limiters[a], UNCHANGED admitted[a],
         limiters[a] # Nil =>
            /\ UNCHANGED tokens[limiters[a]]
            /\ lastSeen'[limiters[a]] \in 0 .. Stall \/ UNCHANGED lastSeen[limiters[a]],
         \A r \in Requests : (ip'[r] = a /\ entry'[r] \notin {Nil, limiters[a]}) =>
            /\ UNCHANGED <<ip[r], entry[r], now[r]>>
            /\ UNCHANGED tokens[entry[r]],
         cleaner' = a => cleaner = a
  PROVE  HasAccount(a)'
  <1>1. PICK d \in Nat, cur \in [Minute -> Nat], old \in [Minute -> Nat] :
           Account(a, d, cur, old)
    BY DEF HasAccount
  <1>2. limiters[a] # Nil => lastSeen'[limiters[a]] <= d + Stall
    BY <1>1, LimiterAssumption DEF Account
  <1>3. \A r \in Requests : (ip'[r] = a /\ entry'[r] \notin {Nil, limiters'[a]}) =>
           /\ d <= now'[r]
           /\ \A m \in Minute : tokens'[entry'[r]] + old[m] <= Burst + m
           /\ \A q \in Requests :
                (ip'[q] = a /\ entry'[q] \notin {Nil, limiters'[a]}) => entry'[q] = entry'[r]
    BY <1>1 DEF Account
  <1>4. Account(a, d, cur, old)'
    BY <1>1, <1>2, <1>3 DEF Account, AtMostEarned
  <1> QED BY <1>4 DEF HasAccount


\* Entries keep their owners and their tokens.
LEMMA SameEntries ==
  ASSUME BucketInv, UNCHANGED <<limiters, tokens, entry, admitted>>,
         \A r \in Requests : entry[r] # Nil => UNCHANGED ip[r]
  PROVE  OneOwner' /\ FreeIsFull' /\ EarnedBack'
  <1>1. \A e \in Entries : \A a \in Addresses : Serves(e, a)' <=> Serves(e, a)
    BY LimiterAssumption DEF Serves
  <1>2. \A e \in Entries : InUse(e)' <=> InUse(e)
    BY DEF InUse
  <1> QED BY <1>1, <1>2 DEF BucketInv, OneOwner, FreeIsFull, EarnedBack

\* A request comes.
LEMMA ArriveBuckets ==
  ASSUME BucketInv, LimiterInv', NEW r \in Requests, NEW b \in Addresses, Arrive(r, b)
  PROVE  BucketInv'
  <1>1. entry[r] = Nil /\ UNCHANGED <<limiters, tokens, lastSeen, now, entry, cleaner, admitted>>
    BY DEF BucketInv, LimiterInv, Underway, Arrive, cleanVars
  <1>2. \A q \in Requests : entry[q] # Nil => UNCHANGED ip[q]
    BY <1>1 DEF Arrive, BucketInv, LimiterInv, TypeOK
  <1>3. OneOwner' /\ FreeIsFull' /\ EarnedBack'
    BY <1>1, <1>2, SameEntries
  <1>4. ASSUME NEW a \in Addresses
        PROVE  HasAccount(a)'
    BY <1>1, <1>2, Undisturbed DEF BucketInv
  <1> QED BY <1>3, <1>4 DEF BucketInv

\* A touched entry has been seen as recently as a request can be old.
LEMMA TouchBuckets ==
  ASSUME BucketInv, LimiterInv', NEW r \in Requests, Touch(r)
  PROVE  BucketInv'
  <1>1. UNCHANGED <<limiters, tokens, ip, now, entry, cleaner, admitted>>
    BY DEF Touch, cleanVars
  <1>2. OneOwner' /\ FreeIsFull' /\ EarnedBack'
    BY <1>1, SameEntries
  <1>3. \A e \in Entries : lastSeen'[e] \in 0 .. Stall \/ UNCHANGED lastSeen[e]
    BY DEF Touch, Touched, BucketInv, LimiterInv, TypeOK
  <1>4. ASSUME NEW a \in Addresses
        PROVE  HasAccount(a)'
    <2>1. limiters[a] # Nil => limiters[a] \in Entries
      BY DEF BucketInv, LimiterInv, TypeOK
    <2> QED BY <1>1, <1>3, <2>1, Undisturbed DEF BucketInv
  <1> QED BY <1>2, <1>4 DEF BucketInv

\* The cleaner decides to delete an entry only if no request can have anything
\* to do with the one it deleted before.
LEMMA ExamineBuckets ==
  ASSUME BucketInv, LimiterInv', NEW b \in Addresses, Examine(b)
  PROVE  BucketInv'
  <1>1. UNCHANGED <<limiters, tokens, lastSeen, ip, now, entry, admitted>>
    BY DEF Examine, reqVars
  <1>2. OneOwner' /\ FreeIsFull' /\ EarnedBack'
    BY <1>1, SameEntries
  <1>3. ASSUME NEW a \in Addresses, cleaner' # a
        PROVE  HasAccount(a)'
    BY <1>1, <1>3, Undisturbed DEF BucketInv
  <1>4. ASSUME NEW a \in Addresses, cleaner' = a
        PROVE  HasAccount(a)'
    <2>1. a = b /\ limiters[a] # Nil /\ Expired(limiters[a])
      BY <1>4, LimiterAssumption DEF Examine
    <2>2. PICK d \in Nat, cur \in [Minute -> Nat], old \in [Minute -> Nat] :
             Account(a, d, cur, old)
      BY DEF BucketInv, HasAccount
    <2>3. d >= Burst + Stall
      <3>1. lastSeen[limiters[a]] \in Nat /\ cleanNow \in Nat
        BY <2>1, LimiterAssumption DEF BucketInv, LimiterInv, TypeOK, Oldest
      <3>2. lastSeen[limiters[a]] <= d + Stall /\ lastSeen[limiters[a]] > cleanNow + Idle
        BY <2>1, <2>2 DEF Account, Expired
      <3> QED BY <3>1, <3>2, LimiterAssumption
    <2>4. Account(a, d, cur, old)'
      BY <1>1, <2>1, <2>2, <2>3 DEF Account, AtMostEarned
    <2> QED BY <2>4 DEF HasAccount
  <1> QED BY <1>2, <1>3, <1>4 DEF BucketInv

\* The cleaner's other steps that delete nothing.
LEMMA WaitBuckets ==
  ASSUME BucketInv, LimiterInv', StartCleanup \/ EndCleanup \/ StopCleaner \/ UNCHANGED vars
  PROVE  BucketInv'
  <1>1. UNCHANGED <<limiters, tokens, lastSeen, ip, now, entry, admitted>>
    BY DEF StartCleanup, EndCleanup, StopCleaner, vars, reqVars
  <1>2. OneOwner' /\ FreeIsFull' /\ EarnedBack'
    BY <1>1, SameEntries
  <1>3. ASSUME NEW a \in Addresses
        PROVE  HasAccount(a)'
    <2>1. cleaner' = a => cleaner = a
      BY LimiterAssumption DEF StartCleanup, EndCleanup, StopCleaner, vars, cleanVars
    <2> QED BY <1>1, <2>1, Undisturbed DEF BucketInv
  <1> QED BY <1>2, <1>3 DEF BucketInv

\* Load finds an entry or takes a free one, whose bucket is full.
LEMMA LoadBuckets ==
  ASSUME BucketInv, LimiterInv', NEW r \in Requests, Load(r)
  PROVE  BucketInv'
  <1>1. PICK b \in Addresses : b = ip[r] /\ pc[r] = "load" /\ entry[r] = Nil
    BY DEF BucketInv, LimiterInv, Underway, Load
  <1>2. PICK e \in Entries :
           /\ e = IF limiters[b] = Nil THEN NewEntry ELSE limiters[b]
           /\ limiters[b] = Nil => ~InUse(e)
    <2>1. CASE limiters[b] = Nil
      BY <1>1, <2>1, FreeCell
    <2>2. CASE limiters[b] # Nil
      BY <1>1, <2>2 DEF BucketInv, LimiterInv, TypeOK
    <2> QED BY <2>1, <2>2
  <1>3. /\ entry' = [entry EXCEPT ![r] = e]
        /\ limiters' = [limiters EXCEPT ![b] = e]
        /\ lastSeen' = IF limiters[b] = Nil THEN [lastSeen EXCEPT ![e] = now[r]] ELSE lastSeen
        /\ UNCHANGED <<tokens, ip, now, cleaner, admitted>>
    BY <1>1, <1>2 DEF Load, cleanVars
  <1>4. /\ \A q \in Requests : entry'[q] = IF q = r THEN e ELSE entry[q]
        /\ \A a \in Addresses : limiters'[a] = IF a = b THEN e ELSE limiters[a]
        /\ \A x \in Entries : x # Nil
    BY <1>3, LimiterAssumption DEF BucketInv, LimiterInv, TypeOK
  <1>5. ASSUME NEW x \in Entries, NEW a \in Addresses
        PROVE  Serves(x, a)' <=> Serves(x, a) \/ (x = e /\ a = b)
    BY <1>1, <1>2, <1>3, <1>4 DEF Serves
  <1>6. \A x \in Entries : InUse(x)' <=> InUse(x) \/ x = e
    BY <1>1, <1>2, <1>4 DEF InUse
  <1>7. \A a \in Addresses : Serves(e, a) => a = b /\ limiters[b] # Nil
    <2>1. limiters[b] = Nil => \A a \in Addresses : ~Serves(e, a)
      BY <1>2 DEF Serves, InUse
    <2>2. limiters[b] # Nil => Serves(e, b)
      BY <1>2 DEF Serves
    <2> QED BY <1>1, <1>2, <2>1, <2>2 DEF BucketInv, OneOwner
  <1>8. OneOwner' /\ FreeIsFull'
    BY <1>1, <1>3, <1>5, <1>6, <1>7 DEF BucketInv, OneOwner, FreeIsFull
  <1>9. EarnedBack'
    <2>1. ASSUME NEW m \in Minute
          PROVE  tokens[e] + admitted[b][m] >= m + 1
      <3>1. CASE limiters[b] = Nil
        <4>1. tokens[e] = Burst /\ admitted[b][m] \in Nat
          BY <1>1, <1>2, <3>1 DEF BucketInv, FreeIsFull, LimiterInv, TypeOK
        <4> QED BY <4>1, LimiterAssumption DEF Minute
      <3>2. CASE limiters[b] # Nil
        BY <1>1, <1>2, <3>2 DEF BucketInv, EarnedBack, Serves
      <3> QED BY <3>1, <3>2
    <2> QED BY <1>3, <1>5, <2>1 DEF BucketInv, EarnedBack
  <1>10. ASSUME NEW a \in Addresses, a # b \/ limiters[b] # Nil
        PROVE  HasAccount(a)'
    <2>1. UNCHANGED limiters[a]
      BY <1>1, <1>2, <1>3, <1>10 DEF BucketInv, LimiterInv, TypeOK
    <2>2. limiters[a] # Nil => UNCHANGED lastSeen[limiters[a]]
      BY <1>1, <1>2, <1>3, <1>10 DEF InUse
    <2>3. \A q \in Requests : (ip'[q] = a /\ entry'[q] \notin {Nil, limiters[a]}) =>
             UNCHANGED <<ip[q], entry[q], now[q]>>
      BY <1>1, <1>2, <1>3, <1>10 DEF BucketInv, LimiterInv, TypeOK
    <2> QED BY <1>3, <2>1, <2>2, <2>3, Undisturbed DEF BucketInv
  <1>11. ASSUME limiters[b] = Nil
         PROVE  HasAccount(b)'
    <2>1. PICK d \in Nat, cur \in [Minute -> Nat], old \in [Minute -> Nat] :
             Account(b, d, cur, old)
      BY <1>1 DEF BucketInv, HasAccount
    <2>2. tokens[e] = Burst /\ limiters'[b] = e /\ lastSeen'[e] = now[r] /\ e # Nil
      BY <1>1, <1>2, <1>3, <1>11, LimiterAssumption
         DEF BucketInv, FreeIsFull, LimiterInv, TypeOK
    <2>3. lastSeen'[e] <= d + Stall
      BY <2>1, <2>2, LimiterAssumption DEF BucketInv, LimiterInv, TypeOK
    <2>4. \A m \in Minute : tokens[e] + cur[m] <= Burst + m /\ tokens[e] + cur[m] <= Burst + d
      BY <1>11, <2>1, <2>2, LimiterAssumption DEF Account, Minute
    <2>5. \A q \in Requests : (ip'[q] = b /\ entry'[q] \notin {Nil, limiters'[b]}) =>
             ip[q] = b /\ entry[q] \notin {Nil, limiters[b]} /\ entry'[q] = entry[q]
      BY <1>1, <1>3, <1>11, <2>2 DEF BucketInv, LimiterInv, TypeOK
    <2>6. Account(b, d, cur, old)'
      BY <1>3, <1>11, <2>1, <2>2, <2>3, <2>4, <2>5 DEF Account, AtMostEarned
    <2> QED BY <2>6 DEF HasAccount
  <1> QED BY <1>1, <1>8, <1>9, <1>10, <1>11 DEF BucketInv


\* What Leave and Delete do to the heap.
LEMMA HeapKeepsUsed ==
  ASSUME NEW t, NEW s, Heap(t, s), NEW e \in Entries, InUse(e)'
  PROVE  tokens'[e] = t[e] /\ lastSeen'[e] = s[e]
  BY DEF Heap

\* A request takes a token, or finds none, and goes.
LEMMA LeaveBuckets ==
  ASSUME BucketInv, LimiterInv', NEW r \in Requests, Admit(r) \/ Refuse(r)
  PROVE  BucketInv'
  <1>0. PICK b \in Addresses, e \in Entries : b = ip[r] /\ e = entry[r]
    BY DEF BucketInv, LimiterInv, Underway, Admit, Refuse, Leave
  <1>1. pc[r] = "allow" /\ b \in Addresses /\ e \in Entries /\ e # Nil
    BY LimiterAssumption DEF Admit, Refuse, Leave
  <1>2. PICK taken \in {0, 1} :
           /\ Leave(r, taken)
           /\ taken <= tokens[e]
           /\ \A a \in Addresses, m \in Minute :
                admitted'[a][m] = admitted[a][m] + IF a = b THEN taken ELSE 0
    <2>1. tokens[e] \in Nat /\ \A a \in Addresses, m \in Minute : admitted[a][m] \in Nat
      BY <1>1 DEF BucketInv, LimiterInv, TypeOK
    <2>2. CASE Admit(r)
      <3>1. \A a \in Addresses :
              admitted'[a] = IF a = b THEN [m \in Minute |-> admitted[a][m] + 1] ELSE admitted[a]
        BY <1>0, <1>1, <2>2 DEF Admit, BucketInv, LimiterInv, TypeOK
      <3>2. \A a \in Addresses, m \in Minute :
                admitted'[a][m] = admitted[a][m] + IF a = b THEN 1 ELSE 0
        <4> SUFFICES ASSUME NEW a \in Addresses, NEW m \in Minute
                     PROVE  admitted'[a][m] = admitted[a][m] + IF a = b THEN 1 ELSE 0
          OBVIOUS
        <4>1. CASE a = b
          <5>1. admitted'[a] = [k \in Minute |-> admitted[a][k] + 1]
            BY <3>1, <4>1
          <5>2. admitted'[a][m] = admitted[a][m] + 1
            BY <5>1
          <5> QED BY <4>1, <5>2
        <4>2. CASE a # b
          <5>1. admitted'[a] = admitted[a] /\ admitted[a][m] \in Nat
            BY <2>1, <3>1, <4>2
          <5> QED BY <4>2, <5>1
        <4> QED BY <4>1, <4>2
      <3> QED BY <1>0, <2>1, <2>2, <3>2 DEF Admit, HasToken
    <2>3. CASE Refuse(r)
      BY <2>1, <2>3 DEF Refuse
    <2> QED BY <2>2, <2>3
  <1>3. /\ \A q \in Requests : ip'[q] = IF q = r THEN Nil ELSE ip[q]
        /\ \A q \in Requests : entry'[q] = IF q = r THEN Nil ELSE entry[q]
        /\ \A q \in Requests : q # r => now'[q] = now[q]
        /\ ip[r] = b /\ entry[r] = e
        /\ UNCHANGED <<limiters, cleaner>>
    BY <1>0, <1>2 DEF Leave, cleanVars, BucketInv, LimiterInv, TypeOK
  <1>4. \A x \in Entries : InUse(x)' =>
           /\ InUse(x)
           /\ tokens'[x] = tokens[x] - IF x = e THEN taken ELSE 0
           /\ lastSeen'[x] = lastSeen[x]
    <2> DEFINE t == [tokens EXCEPT ![e] = @ - taken]
    <2>1. Heap(t, lastSeen)
      BY <1>2, <1>3 DEF Leave
    <2>2. \A x \in Entries : t[x] = tokens[x] - IF x = e THEN taken ELSE 0
      BY <1>1 DEF BucketInv, LimiterInv, TypeOK
    <2>3. \A x \in Entries : InUse(x)' => InUse(x)
      BY <1>3, LimiterAssumption DEF InUse
    <2> HIDE DEF t
    <2> QED BY <2>1, <2>2, <2>3, HeapKeepsUsed
  <1>5. \A x \in Entries, a \in Addresses : Serves(x, a)' => Serves(x, a) /\ InUse(x)'
    BY <1>3, LimiterAssumption DEF Serves, InUse
  <1>6. \A a \in Addresses : Serves(e, a) => a = b
    <2>1. Serves(e, b)
      BY <1>3 DEF Serves
    <2> QED BY <1>1, <2>1 DEF BucketInv, OneOwner
  <1>7. OneOwner'
    BY <1>5 DEF BucketInv, OneOwner
  <1>8. FreeIsFull'
    BY <1>2 DEF FreeIsFull, Leave, Heap
  <1>9. EarnedBack'
    <2> SUFFICES ASSUME NEW a \in Addresses, NEW x \in Entries, Serves(x, a)', NEW m \in Minute
                 PROVE  tokens'[x] + admitted'[a][m] >= m + 1
      BY DEF EarnedBack
    <2>1. Serves(x, a) /\ InUse(x)'
      BY <1>5
    <2>2. tokens[x] + admitted[a][m] >= m + 1
      BY <2>1 DEF BucketInv, EarnedBack
    <2>3. x = e => a = b
      BY <1>6, <2>1
    <2>4. tokens[x] \in Nat /\ admitted[a][m] \in Nat
      BY DEF BucketInv, LimiterInv, TypeOK
    <2>5. m \in Nat
      BY LimiterAssumption DEF Minute
    <2> QED BY <1>2, <1>4, <2>1, <2>2, <2>3, <2>4, <2>5
  <1>10. ASSUME NEW a \in Addresses, limiters[a] # Nil
         PROVE  /\ tokens'[limiters[a]] = tokens[limiters[a]] - IF limiters[a] = e THEN taken ELSE 0
                /\ lastSeen'[limiters[a]] = lastSeen[limiters[a]]
    <2>1. limiters[a] \in Entries
      BY <1>10 DEF BucketInv, LimiterInv, TypeOK
    <2>2. \A x \in Entries : x = limiters[a] => InUse(x)'
      BY <1>3 DEF InUse
    <2> QED BY <1>4, <2>1, <2>2
  <1>11. ASSUME NEW q \in Requests, entry'[q] # Nil
         PROVE  /\ q # r /\ entry[q] \in Entries
                /\ UNCHANGED <<ip[q], entry[q], now[q]>>
                /\ tokens'[entry[q]] = tokens[entry[q]] - IF entry[q] = e THEN taken ELSE 0
    <2>1. q # r /\ entry[q] \in Entries /\ UNCHANGED <<ip[q], entry[q], now[q]>>
      BY <1>3, <1>11 DEF BucketInv, LimiterInv, TypeOK
    <2>2. \A x \in Entries : x = entry[q] => InUse(x)'
      BY <2>1 DEF InUse
    <2> QED BY <1>4, <2>1, <2>2
  <1>12. \A x \in Entries : tokens[x] \in Nat
    BY DEF BucketInv, LimiterInv, TypeOK
  <1>13. ASSUME NEW a \in Addresses, a # b
         PROVE  HasAccount(a)'
    <2>1. UNCHANGED admitted[a]
      <3>1. admitted' = [c \in Addresses |-> [m \in Minute |-> admitted'[c][m]]]
        BY DEF BucketInv, LimiterInv, TypeOK
      <3>2. admitted = [c \in Addresses |-> [m \in Minute |-> admitted[c][m]]]
        BY DEF BucketInv, LimiterInv, TypeOK
      <3>3. \A m \in Minute : admitted'[a][m] = admitted[a][m]
        BY <1>2, <1>13 DEF BucketInv, LimiterInv, TypeOK
      <3>4. admitted'[a] = [m \in Minute |-> admitted'[a][m]]
        BY <3>1
      <3>5. admitted[a] = [m \in Minute |-> admitted[a][m]]
        BY <3>2
      <3> QED BY <3>3, <3>4, <3>5
    <2>2. limiters[a] # Nil => limiters[a] # e /\ limiters[a] \in Entries
      BY <1>6, <1>13 DEF Serves, BucketInv, LimiterInv, TypeOK
    <2>3. limiters[a] # Nil => UNCHANGED <<tokens[limiters[a]], lastSeen[limiters[a]]>>
      BY <1>3, <1>10, <1>12, <2>2
    <2>4. \A q \in Requests : (ip'[q] = a /\ entry'[q] \notin {Nil, limiters[a]}) =>
             UNCHANGED <<ip[q], entry[q], now[q], tokens[entry[q]]>>
      <3> SUFFICES ASSUME NEW q \in Requests, ip'[q] = a, entry'[q] \notin {Nil, limiters[a]}
                   PROVE  UNCHANGED <<ip[q], entry[q], now[q], tokens[entry[q]]>>
        OBVIOUS
      <3>1. Serves(entry[q], a) /\ entry[q] \in Entries
        BY <1>11 DEF Serves
      <3>2. entry[q] # e
        BY <1>6, <1>13, <3>1
      <3> QED BY <1>11, <1>12, <3>1, <3>2
    <2> QED BY <1>3, <2>1, <2>3, <2>4, Undisturbed DEF BucketInv
  <1>14. HasAccount(b)'
    <2>1. PICK d \in Nat, cur \in [Minute -> Nat], old \in [Minute -> Nat] :
             Account(b, d, cur, old)
      BY <1>1 DEF BucketInv, HasAccount
    <2> DEFINE more(count) == [m \in Minute |-> count[m] + taken]
    <2>2. more(cur) \in [Minute -> Nat] /\ more(old) \in [Minute -> Nat]
      OBVIOUS
    <2>3. \A m \in Minute : /\ more(cur)[m] = cur[m] + taken
                            /\ more(old)[m] = old[m] + taken
                            /\ admitted'[b][m] = admitted[b][m] + taken
                            /\ m \in Nat
      BY <1>1, <1>2, LimiterAssumption DEF Minute
    <2> HIDE DEF more
    <2>4. AtMostEarned(more(cur)) /\ AtMostEarned(more(old))
      BY <2>1, <2>3, LimiterAssumption DEF Account, AtMostEarned
    <2>5. tokens[e] \in Nat /\ now[r] \in 0 .. Stall
      BY <1>1 DEF BucketInv, LimiterInv, TypeOK
    <2>6. ASSUME NEW q \in Requests, ip'[q] = b, entry'[q] \notin {Nil, limiters'[b]}
          PROVE  /\ ip[q] = b /\ entry[q] \notin {Nil, limiters[b]}
                 /\ entry'[q] = entry[q] /\ entry[q] \in Entries
                 /\ d <= now'[q] /\ \A m \in Minute : tokens[entry[q]] + old[m] <= Burst + m
      <3>1. ip[q] = b /\ entry[q] \notin {Nil, limiters[b]} /\ UNCHANGED <<entry[q], now[q]>>
        BY <1>3, <1>11, <2>6
      <3> QED BY <1>11, <2>1, <2>6, <3>1 DEF Account
    <2>7. \A p, q \in Requests :
             (/\ ip'[p] = b /\ entry'[p] \notin {Nil, limiters'[b]}
              /\ ip'[q] = b /\ entry'[q] \notin {Nil, limiters'[b]}) => entry'[p] = entry'[q]
      BY <2>1, <2>6 DEF Account
    <2>8. CASE e = limiters[b]
      <3>1. \A m \in Minute : admitted'[b][m] = more(cur)[m] + old[m]
        BY <2>1, <2>3 DEF Account
      <3>2. /\ lastSeen'[limiters'[b]] <= d + Stall
            /\ \A m \in Minute : /\ tokens'[limiters'[b]] + more(cur)[m] <= Burst + m
                                 /\ tokens'[limiters'[b]] + more(cur)[m] <= Burst + d
        <4>1. lastSeen'[e] = lastSeen[e] /\ tokens'[e] = tokens[e] - taken /\ limiters'[b] = e
          BY <1>1, <1>3, <1>10, <2>8
        <4>2. lastSeen[e] <= d + Stall
          BY <1>1, <2>1, <2>8 DEF Account
        <4>3. \A m \in Minute : tokens[e] + cur[m] <= Burst + m /\ tokens[e] + cur[m] <= Burst + d
          BY <1>1, <2>1, <2>8 DEF Account
        <4> QED BY <1>2, <2>3, <2>5, <4>1, <4>2, <4>3, LimiterAssumption
      <3>3. ASSUME NEW q \in Requests, ip'[q] = b, entry'[q] \notin {Nil, limiters'[b]}
            PROVE  tokens'[entry'[q]] = tokens[entry[q]]
        BY <1>11, <1>12, <2>6, <2>8, <3>3
      <3>4. Account(b, d, more(cur), old)'
        <4>1. limiters'[b] # Nil /\ limiters'[b] = limiters[b] /\ cleaner' = cleaner
          BY <1>1, <1>3, <2>8
        <4>2. \A q \in Requests : (ip'[q] = b /\ entry'[q] \notin {Nil, limiters'[b]}) =>
                 /\ d <= now'[q]
                 /\ \A m \in Minute : tokens'[entry'[q]] + old[m] <= Burst + m
          BY <2>6, <3>3
        <4> QED BY <2>1, <2>4, <2>7, <3>1, <3>2, <4>1, <4>2 DEF Account, AtMostEarned
      <3> QED BY <2>2, <3>4 DEF HasAccount
    <2>9. CASE e # limiters[b]
      <3>1. /\ d <= now[r] /\ \A m \in Minute : tokens[e] + old[m] <= Burst + m
            /\ \A q \in Requests : (ip[q] = b /\ entry[q] \notin {Nil, limiters[b]}) => entry[q] = e
        BY <1>1, <1>3, <2>1, <2>9 DEF Account
      <3>2. \A m \in Minute : ~(m + Stall < d) /\ more(old)[m] <= Burst + m
        BY <1>2, <2>3, <2>5, <3>1, LimiterAssumption
      <3>3. \A m \in Minute : admitted'[b][m] = cur[m] + more(old)[m]
        BY <2>1, <2>3 DEF Account
      <3>4. limiters'[b] # Nil =>
               /\ lastSeen'[limiters'[b]] <= d + Stall
               /\ \A m \in Minute : /\ tokens'[limiters'[b]] + cur[m] <= Burst + m
                                    /\ tokens'[limiters'[b]] + cur[m] <= Burst + d
        <4>1. limiters[b] # Nil => /\ tokens'[limiters[b]] = tokens[limiters[b]]
                                   /\ lastSeen'[limiters[b]] = lastSeen[limiters[b]]
          <5>1. limiters[b] # Nil => limiters[b] \in Entries
            BY <1>1 DEF BucketInv, LimiterInv, TypeOK
          <5> QED BY <1>1, <1>10, <1>12, <2>9, <5>1
        <4> QED BY <1>3, <2>1, <4>1 DEF Account
      <3>5. \A q \in Requests : (ip'[q] = b /\ entry'[q] \notin {Nil, limiters'[b]}) =>
               /\ d <= now'[q]
               /\ \A m \in Minute : tokens'[entry'[q]] + more(old)[m] <= Burst + m
        <4> SUFFICES ASSUME NEW q \in Requests, ip'[q] = b, entry'[q] \notin {Nil, limiters'[b]}
                     PROVE  /\ d <= now'[q]
                            /\ \A m \in Minute : tokens'[entry'[q]] + more(old)[m] <= Burst + m
          OBVIOUS
        <4>1. d <= now'[q] /\ entry'[q] = e /\ entry[q] = e /\ entry'[q] # Nil
          BY <2>6, <3>1
        <4>2. tokens'[e] = tokens[e] - taken
          BY <1>11, <4>1
        <4> QED BY <1>2, <2>3, <2>5, <3>1, <4>1, <4>2, LimiterAssumption
      <3>6. Account(b, d, cur, more(old))'
        BY <1>3, <2>1, <2>4, <2>7, <3>2, <3>3, <3>4, <3>5 DEF Account, AtMostEarned
      <3> QED BY <2>2, <3>6 DEF HasAccount
    <2> QED BY <2>8, <2>9
  <1> QED BY <1>1, <1>7, <1>8, <1>9, <1>13, <1>14 DEF BucketInv

\* The cleaner takes an entry away: the accounts of its address are closed, and
\* requests that hold the entry may charge it until their Stall units are over.
LEMMA DeleteBuckets ==
  ASSUME BucketInv, LimiterInv', NEW a \in Addresses, Delete(a)
  PROVE  BucketInv'
  <1>1. PICK d \in Nat, cur \in [Minute -> Nat], old \in [Minute -> Nat] :
           Account(a, d, cur, old)
    BY DEF BucketInv, HasAccount
  <1>2. limiters[a] # Nil /\ d >= Burst + Stall
    BY <1>1 DEF Delete, Account
  <1>3. /\ UNCHANGED <<ip, now, entry, admitted>>
        /\ \A c \in Addresses : limiters'[c] = IF c = a THEN Nil ELSE limiters[c]
        /\ cleaner' \notin Addresses
        /\ Heap(tokens, lastSeen)
    BY LimiterAssumption DEF Delete, reqVars, BucketInv, LimiterInv, TypeOK
  <1>4. \A x \in Entries : InUse(x)' =>
           InUse(x) /\ tokens'[x] = tokens[x] /\ lastSeen'[x] = lastSeen[x]
    <2>1. \A x \in Entries : InUse(x)' => InUse(x)
      BY <1>3, LimiterAssumption DEF InUse
    <2> QED BY <1>3, <2>1, HeapKeepsUsed
  <1>5. \A x \in Entries, c \in Addresses : Serves(x, c)' => Serves(x, c) /\ InUse(x)'
    BY <1>3, LimiterAssumption DEF Serves, InUse
  <1>6. OneOwner'
    BY <1>5 DEF BucketInv, OneOwner
  <1>7. FreeIsFull'
    BY <1>3 DEF FreeIsFull, Heap
  <1>8. EarnedBack'
    BY <1>3, <1>4, <1>5 DEF BucketInv, EarnedBack
  <1>9. \A q \in Requests : entry'[q] # Nil =>
           entry[q] \in Entries /\ tokens'[entry[q]] = tokens[entry[q]]
    <2> SUFFICES ASSUME NEW q \in Requests, entry'[q] # Nil
                 PROVE  entry[q] \in Entries /\ tokens'[entry[q]] = tokens[entry[q]]
      OBVIOUS
    <2>1. entry[q] \in Entries
      BY <1>3 DEF BucketInv, LimiterInv, TypeOK
    <2>2. \A x \in Entries : x = entry[q] => InUse(x)'
      BY <1>3 DEF InUse
    <2> QED BY <1>4, <2>1, <2>2
  <1>10. ASSUME NEW c \in Addresses, c # a
         PROVE  HasAccount(c)'
    <2>1. limiters[c] # Nil => UNCHANGED <<tokens[limiters[c]], lastSeen[limiters[c]]>>
      <3>1. limiters[c] # Nil => limiters[c] \in Entries
        BY DEF BucketInv, LimiterInv, TypeOK
      <3>2. \A x \in Entries : x = limiters[c] => InUse(x)'
        BY <1>3, <1>10 DEF InUse
      <3> QED BY <1>3, <1>4, <1>10, <3>1, <3>2
    <2>2. \A q \in Requests : (ip'[q] = c /\ entry'[q] \notin {Nil, limiters[c]}) =>
             UNCHANGED <<ip[q], entry[q], now[q], tokens[entry[q]]>>
      BY <1>3, <1>9
    <2>3. UNCHANGED limiters[c]
      BY <1>3, <1>10
    <2> QED BY <1>3, <2>1, <2>2, <2>3, Undisturbed DEF BucketInv
  <1>11. HasAccount(a)'
    <2> DEFINE none == [m \in Minute |-> 0]
    <2>1. /\ none \in [Minute -> Nat] /\ 0 \in Nat
          /\ \A m \in Minute : none[m] = 0 /\ m \in 0 .. Burst - 1
      BY DEF Minute
    <2> HIDE DEF none
    <2>2. AtMostEarned(none)
      BY <2>1, LimiterAssumption DEF AtMostEarned
    <2>3. \A m \in Minute : old[m] = 0
      BY <1>1, <1>2, <2>1, LimiterAssumption DEF Account
    <2>4. \A m \in Minute : admitted'[a][m] = none[m] + cur[m]
      BY <1>1, <1>3, <2>1, <2>3 DEF Account
    <2>5. ASSUME NEW q \in Requests, ip'[q] = a, entry'[q] # Nil
          PROVE  /\ entry[q] = limiters[a] /\ entry'[q] = entry[q]
                 /\ 0 <= now'[q]
                 /\ tokens'[entry'[q]] = tokens[limiters[a]]
      <3>1. now[q] \in 0 .. Stall /\ ip[q] = a /\ entry[q] # Nil /\ now'[q] = now[q]
        BY <1>3, <2>5 DEF BucketInv, LimiterInv, TypeOK
      <3>2. entry[q] = limiters[a]
        BY <1>1, <1>2, <3>1, LimiterAssumption DEF Account
      <3> QED BY <1>3, <1>9, <2>5, <3>1, <3>2
    <2>6. \A m \in Minute : tokens[limiters[a]] + cur[m] <= Burst + m /\ cur[m] <= Burst + m
      <3>1. tokens[limiters[a]] \in 0 .. Burst
        BY <1>2 DEF BucketInv, LimiterInv, TypeOK
      <3>2. \A m \in Minute : tokens[limiters[a]] + cur[m] <= Burst + m
        BY <1>1, <1>2 DEF Account
      <3> QED BY <2>1, <3>1, <3>2, LimiterAssumption
    <2>7. \A m \in Minute : ~(m + Stall < 0)
      BY <2>1, LimiterAssumption
    <2>8. limiters'[a] = Nil /\ cleaner' # a
      BY <1>3
    <2>9. Account(a, 0, none, cur)'
      BY <1>1, <2>1, <2>2, <2>4, <2>5, <2>6, <2>7, <2>8 DEF Account, AtMostEarned
    <2> QED BY <2>1, <2>9 DEF HasAccount
  <1> QED BY <1>6, <1>7, <1>8, <1>10, <1>11 DEF BucketInv

\* A count of what was admitted, one unit later.
Later(count) == [m \in Minute |-> IF m = 0 THEN 0 ELSE count[m - 1]]

\* A count that obeys the law of a bucket does so one unit later.
LEMMA LaterCount ==
  ASSUME NEW count \in [Minute -> Nat], AtMostEarned(count),
         \A m \in Minute : count[m] <= Burst + m
  PROVE  /\ Later(count) \in [Minute -> Nat]
         /\ Later(count)[0] = 0
         /\ \A m \in Minute : m # 0 => m - 1 \in Minute /\ Later(count)[m] = count[m - 1]
         /\ AtMostEarned(Later(count))
         /\ \A m \in Minute : Later(count)[m] <= Burst + m
  <1>1. /\ \A m \in Minute : m \in Nat /\ (m # 0 => m - 1 \in Minute)
        /\ 0 \in Minute
    BY LimiterAssumption DEF Minute
  <1>2. Later(count) \in [Minute -> Nat] /\ Later(count)[0] = 0
    BY <1>1 DEF Later
  <1>3. \A m \in Minute : m # 0 => Later(count)[m] = count[m - 1]
    BY <1>1 DEF Later
  <1>4. AtMostEarned(Later(count))
    <2> SUFFICES ASSUME NEW p \in Minute, NEW q \in Minute, p < q
                 PROVE  Later(count)[q] + p + 1 <= Later(count)[p] + Burst + q
      BY DEF AtMostEarned
    <2>1. q # 0 /\ p \in Nat /\ q \in Nat /\ Later(count)[q] = count[q - 1]
      BY <1>1, <1>3
    <2>2. CASE p = 0
      BY <1>1, <1>2, <2>1, <2>2, LimiterAssumption
    <2>3. CASE p # 0
      <3>1. count[q - 1] + (p - 1) + 1 <= count[p - 1] + Burst + (q - 1)
        BY <1>1, <2>1, <2>3 DEF AtMostEarned
      <3>2. count[q - 1] \in Nat /\ count[p - 1] \in Nat
        BY <1>1, <2>1, <2>3
      <3> QED BY <1>3, <2>1, <2>3, <3>1, <3>2, LimiterAssumption
    <2> QED BY <2>2, <2>3
  <1>5. ASSUME NEW m \in Minute
        PROVE  Later(count)[m] <= Burst + m
    BY <1>1, <1>2, <1>3, LimiterAssumption
  <1> QED BY <1>1, <1>2, <1>3, <1>4, <1>5

\* Time passes: what a bucket earned, it holds, unless it was full.
LEMMA TickBuckets ==
  ASSUME BucketInv, LimiterInv', Tick
  PROVE  BucketInv'
  <1>1. UNCHANGED <<limiters, ip, entry, cleaner>>
    BY DEF Tick
  <1>2. \A x \in Entries : InUse(x)' <=> InUse(x)
    BY <1>1 DEF InUse
  <1>3. \A x \in Entries : tokens[x] \in 0 .. Burst /\ lastSeen[x] \in 0 .. Oldest
    BY DEF BucketInv, LimiterInv, TypeOK
  <1>4. \A x \in Entries : /\ ~InUse(x) => tokens'[x] = Burst
                           /\ InUse(x) => /\ tokens'[x] = AtMost(tokens[x] + 1, Burst)
                                          /\ lastSeen'[x] = AtMost(lastSeen[x] + 1, Oldest)
    BY <1>2 DEF Tick, Heap
  <1>5. ASSUME NEW x \in Entries, InUse(x)
        PROVE  /\ tokens'[x] = IF tokens[x] = Burst THEN Burst ELSE tokens[x] + 1
               /\ lastSeen'[x] <= lastSeen[x] + 1
    BY <1>3, <1>4, <1>5, LimiterAssumption DEF AtMost, Oldest
  <1>6. \A m \in Minute : m \in 0 .. Burst - 1 /\ (m # 0 => m - 1 \in Minute)
    BY LimiterAssumption DEF Minute
  <1>7. \A c \in Addresses : \A m \in Minute :
           admitted'[c][m] = IF m = 0 THEN 0 ELSE admitted[c][m - 1]
    BY DEF Tick
  <1>8. \A x \in Entries, c \in Addresses :
           (Serves(x, c)' => Serves(x, c)) /\ (Serves(x, c) => InUse(x))
    BY <1>1 DEF Serves, InUse
  <1>9. OneOwner' /\ FreeIsFull'
    BY <1>2, <1>4, <1>8 DEF BucketInv, OneOwner, FreeIsFull
  <1>10. EarnedBack'
    <2> SUFFICES ASSUME NEW c \in Addresses, NEW x \in Entries, Serves(x, c)', NEW m \in Minute
                 PROVE  tokens'[x] + admitted'[c][m] >= m + 1
      BY DEF EarnedBack
    <2>1. tokens'[x] = IF tokens[x] = Burst THEN Burst ELSE tokens[x] + 1
      BY <1>5, <1>8
    <2>2. CASE m = 0
      BY <1>3, <1>7, <2>1, <2>2, LimiterAssumption
    <2>3. CASE m # 0
      <3>1. tokens[x] + admitted[c][m - 1] >= (m - 1) + 1 /\ admitted[c][m - 1] \in Nat
        BY <1>6, <1>8, <2>3 DEF BucketInv, EarnedBack, LimiterInv, TypeOK
      <3>2. admitted'[c][m] = admitted[c][m - 1]
        BY <1>7, <2>3
      <3> QED BY <1>3, <1>6, <2>1, <3>1, <3>2, LimiterAssumption
    <2> QED BY <2>2, <2>3
  <1>11. ASSUME NEW c \in Addresses
         PROVE  HasAccount(c)'
    <2>1. PICK d \in Nat, cur \in [Minute -> Nat], old \in [Minute -> Nat] :
             Account(c, d, cur, old)
      BY DEF BucketInv, HasAccount
    <2>2. \A m \in Minute : cur[m] <= Burst + m
      <3>1. CASE limiters[c] = Nil
        <4>1. \A m \in Minute : cur[m] = 0
          BY <2>1, <3>1 DEF Account
        <4>2. \A m \in Minute : 0 <= Burst + m
          BY <1>6, LimiterAssumption
        <4> QED BY <4>1, <4>2
      <3>2. CASE limiters[c] # Nil
        <4>1. tokens[limiters[c]] \in 0 .. Burst
          BY <3>2 DEF BucketInv, LimiterInv, TypeOK
        <4>2. \A m \in Minute : tokens[limiters[c]] + cur[m] <= Burst + m
          BY <2>1, <3>2 DEF Account
        <4> QED BY <1>6, <4>1, <4>2, LimiterAssumption
      <3> QED BY <3>1, <3>2
    <2> DEFINE C == Later(cur)
               O == Later(old)
    <2>3. /\ AtMostEarned(C) /\ AtMostEarned(O)
          /\ \A m \in Minute : O[m] <= Burst + m
          /\ C \in [Minute -> Nat] /\ O \in [Minute -> Nat]
          /\ \A m \in Minute : /\ C[m] = IF m = 0 THEN 0 ELSE cur[m - 1]
                               /\ O[m] = IF m = 0 THEN 0 ELSE old[m - 1]
      BY <2>1, <2>2, LaterCount DEF Account
    <2> HIDE DEF C, O
    <2>4. ASSUME NEW m \in Minute
          PROVE  /\ admitted'[c][m] = C[m] + O[m]
                 /\ limiters[c] = Nil => C[m] = 0
                 /\ m + Stall < d + 1 => O[m] = 0
      <3>1. m # 0 => /\ admitted[c][m - 1] = cur[m - 1] + old[m - 1]
                     /\ limiters[c] = Nil => cur[m - 1] = 0
                     /\ (m - 1) + Stall < d => old[m - 1] = 0
        BY <1>6, <2>1 DEF Account
      <3>2. m \in Nat
        BY <1>6, LimiterAssumption
      <3> QED BY <1>7, <2>3, <3>1, <3>2, LimiterAssumption
    <2>5. ASSUME limiters[c] # Nil
          PROVE  /\ lastSeen'[limiters[c]] <= (d + 1) + Stall
                 /\ \A m \in Minute : /\ tokens'[limiters[c]] + C[m] <= Burst + m
                                      /\ tokens'[limiters[c]] + C[m] <= Burst + (d + 1)
      <3> SUFFICES ASSUME NEW m \in Minute
                   PROVE  /\ lastSeen'[limiters[c]] <= (d + 1) + Stall
                          /\ tokens'[limiters[c]] + C[m] <= Burst + m
                          /\ tokens'[limiters[c]] + C[m] <= Burst + (d + 1)
        BY LimiterAssumption DEF Minute
      <3>1. limiters[c] \in Entries /\ InUse(limiters[c])
        BY <2>5 DEF InUse, BucketInv, LimiterInv, TypeOK
      <3>2. lastSeen[limiters[c]] <= d + Stall
        BY <2>1, <2>5 DEF Account
      <3>3. m # 0 => /\ tokens[limiters[c]] + cur[m - 1] <= Burst + (m - 1)
                     /\ tokens[limiters[c]] + cur[m - 1] <= Burst + d
                     /\ cur[m - 1] \in Nat
        BY <1>6, <2>1, <2>5 DEF Account
      <3>4. tokens[limiters[c]] \in 0 .. Burst /\ lastSeen[limiters[c]] \in Nat /\ m \in Nat
        BY <1>3, <1>6, <3>1, LimiterAssumption DEF Oldest
      <3>5. /\ tokens'[limiters[c]] = IF tokens[limiters[c]] = Burst THEN Burst
                                      ELSE tokens[limiters[c]] + 1
            /\ lastSeen'[limiters[c]] <= lastSeen[limiters[c]] + 1
        BY <1>5, <3>1
      <3>6. lastSeen'[limiters[c]] \in Nat
        BY <3>1, LimiterAssumption DEF LimiterInv, TypeOK, Oldest
      <3>7. lastSeen'[limiters[c]] <= (d + 1) + Stall
        BY <3>2, <3>4, <3>5, <3>6, LimiterAssumption
      <3>8. C[m] = IF m = 0 THEN 0 ELSE cur[m - 1]
        BY <2>3
      <3> QED BY <3>3, <3>4, <3>5, <3>7, <3>8, LimiterAssumption
    <2>6. ASSUME NEW q \in Requests, ip'[q] = c, entry'[q] \notin {Nil, limiters'[c]}
          PROVE  /\ d + 1 <= now'[q]
                 /\ \A m \in Minute : tokens'[entry'[q]] + O[m] <= Burst + m
                 /\ \A p \in Requests :
                      (ip'[p] = c /\ entry'[p] \notin {Nil, limiters'[c]}) => entry'[p] = entry'[q]
      <3>1. /\ ip[q] = c /\ entry[q] \notin {Nil, limiters[c]} /\ entry'[q] = entry[q]
            /\ entry[q] \in Entries /\ InUse(entry[q])
        BY <1>1, <2>6 DEF InUse, BucketInv, LimiterInv, TypeOK
      <3>2. now'[q] = now[q] + 1 /\ now[q] \in Nat
        BY <3>1, LimiterAssumption DEF Tick, Active, BucketInv, LimiterInv, Underway, TypeOK
      <3>3. /\ d <= now[q]
            /\ \A m \in Minute : tokens[entry[q]] + old[m] <= Burst + m
            /\ \A p \in Requests :
                 (ip[p] = c /\ entry[p] \notin {Nil, limiters[c]}) => entry[p] = entry[q]
        BY <2>1, <3>1 DEF Account
      <3>4. ASSUME NEW m \in Minute
            PROVE  tokens'[entry[q]] + O[m] <= Burst + m
        <4>1. tokens[entry[q]] \in 0 .. Burst /\ m \in Nat
          BY <1>3, <1>6, <3>1, LimiterAssumption
        <4>2. m # 0 => tokens[entry[q]] + old[m - 1] <= Burst + (m - 1) /\ old[m - 1] \in Nat
          BY <1>6, <3>3
        <4>3. tokens'[entry[q]] = IF tokens[entry[q]] = Burst THEN Burst ELSE tokens[entry[q]] + 1
          BY <1>5, <3>1
        <4> QED BY <2>3, <4>1, <4>2, <4>3, LimiterAssumption
      <3> QED BY <1>1, <3>1, <3>2, <3>3, <3>4
    <2>7. cleaner' = c => limiters'[c] # Nil /\ d + 1 >= Burst + Stall
      BY <1>1, <2>1, LimiterAssumption DEF Account
    <2>8. Account(c, d + 1, C, O)'
      BY <1>1, <2>3, <2>4, <2>5, <2>6, <2>7 DEF Account, AtMostEarned
    <2> QED BY <2>3, <2>8 DEF HasAccount
  <1> QED BY <1>9, <1>10, <1>11 DEF BucketInv

-----------------------------------------------------------------------------

\* Every address has accounts, in every interleaving with the cleaner.
THEOREM BucketInvariance == Spec => []BucketInv
  <1>1. BucketInv /\ LimiterInv' /\ [Next]_vars => BucketInv'
    <2> SUFFICES ASSUME BucketInv, LimiterInv', [Next]_vars PROVE BucketInv'
      OBVIOUS
    <2>1. CASE Tick
      BY <2>1, TickBuckets
    <2>2. ASSUME NEW r \in Requests, NEW a \in Addresses, Arrive(r, a)
          PROVE  BucketInv'
      BY <2>2, ArriveBuckets
    <2>3. ASSUME NEW r \in Requests, RequestStep(r)
          PROVE  BucketInv'
      BY <2>3, LoadBuckets, TouchBuckets, LeaveBuckets DEF RequestStep
    <2>4. CASE CleanerStep
      BY <2>4, WaitBuckets, ExamineBuckets, DeleteBuckets DEF CleanerStep
    <2>5. CASE StopCleaner \/ UNCHANGED vars
      BY <2>5, WaitBuckets
    <2> QED BY <2>1, <2>2, <2>3, <2>4, <2>5 DEF Next
  <1> QED BY <1>1, LimiterInvariance, InitBucketInv, PTL DEF Spec

\* What the accounts of an address say of its last minute.  While the deleted
\* entry may still be charged, at most Stall units, the new one has earned as
\* much; after that, each unit that the new one earns is one that the last
\* minute of the old one lacks.
LEMMA AccountBound ==
  ASSUME LimiterInv, NEW a \in Addresses, HasAccount(a)
  PROVE  LastMinute(a) <= 2 * Burst + (Burst - 1) + Stall
  <1> DEFINE last == Burst - 1
  <1>1. PICK d \in Nat, cur \in [Minute -> Nat], old \in [Minute -> Nat] :
           Account(a, d, cur, old)
    BY DEF HasAccount
  <1>2. Burst \in Nat \ {0} /\ Stall \in Nat /\ last \in Nat /\ last \in Minute
    BY LimiterAssumption DEF Minute
  <1>3. LastMinute(a) = cur[last] + old[last] /\ cur[last] \in Nat /\ old[last] \in Nat
    BY <1>1, <1>2 DEF Account, LastMinute
  <1>4. cur[last] <= Burst + last /\ cur[last] <= Burst + d
    <2>1. CASE limiters[a] = Nil
      <3>1. cur[last] = 0
        BY <1>1, <1>2, <2>1 DEF Account
      <3> QED BY <1>2, <3>1
    <2>2. CASE limiters[a] # Nil
      <3>1. tokens[limiters[a]] \in 0 .. Burst
        BY <2>2 DEF LimiterInv, TypeOK
      <3>2. /\ tokens[limiters[a]] + cur[last] <= Burst + last
            /\ tokens[limiters[a]] + cur[last] <= Burst + d
        BY <1>1, <1>2, <2>2 DEF Account
      <3> QED BY <1>2, <1>3, <3>1, <3>2
    <2> QED BY <2>1, <2>2
  <1>5. old[last] <= Burst + last
    BY <1>1, <1>2 DEF Account
  <1>6. CASE d <= Stall
    BY <1>2, <1>3, <1>4, <1>5, <1>6
  <1>7. CASE last + Stall < d
    <2>1. old[last] = 0
      BY <1>1, <1>2, <1>7 DEF Account
    <2> QED BY <1>2, <1>3, <1>4, <2>1
  <1>8. CASE Stall < d /\ d <= last + Stall
    <2>1. PICK z \in Nat : d = z + Stall + 1
      <3>1. d - Stall - 1 \in Nat /\ d = (d - Stall - 1) + Stall + 1
        BY <1>2, <1>8
      <3> QED BY <3>1
    <2>2. z \in Minute /\ z < last
      BY <1>2, <1>8, <2>1 DEF Minute
    <2>3. old[z] = 0
      <3>1. z + Stall < d
        BY <1>2, <2>1
      <3> QED BY <1>1, <2>2, <3>1 DEF Account
    <2>4. old[last] + z + 1 <= old[z] + Burst + last
      BY <1>1, <1>2, <2>2 DEF Account, AtMostEarned
    <2> QED BY <1>2, <1>3, <1>4, <2>1, <2>3, <2>4
  <1> QED BY <1>2, <1>6, <1>7, <1>8

\* However requests and cleanup race, an address gets no more within a minute
\* than two buckets, one minute's tokens and what is earned in one stall.
THEOREM AdmissionBoundHolds == Spec => []AdmissionBound
  <1>1. BucketInv => AdmissionBound
    BY AccountBound DEF BucketInv, AdmissionBound
  <1> QED BY <1>1, BucketInvariance, PTL

\* A client is refused only if its full allowance was admitted in the last minute.
THEOREM RefusedOnlyWhenBusyHolds == Spec => RefusedOnlyWhenBusy
  <1> DEFINE Refused(r) == pc[r] = "allow" /\ pc'[r] = "idle" /\ admitted' = admitted
  <1>1. ASSUME BucketInv, [Next]_vars, NEW r \in Requests, Refused(r)
        PROVE  LastMinute(ip[r]) >= Burst
    <2>1. ip[r] \in Addresses /\ entry[r] \in Entries
      BY <1>1 DEF BucketInv, LimiterInv, Underway
    <2>2. pc' # pc
      BY <1>1
    <2>3. PICK q \in Requests : (\E a \in Addresses : Arrive(q, a)) \/ RequestStep(q)
      BY <1>1, <2>2 DEF Next, Tick, CleanerStep, StopCleaner, StartCleanup, Examine, Delete,
                        EndCleanup, vars, reqVars
    <2>4. q = r /\ (Admit(r) \/ Refuse(r))
      BY <1>1, <2>3 DEF Arrive, RequestStep, Load, Touch, Admit, Refuse, Leave,
                        BucketInv, LimiterInv, TypeOK
    <2>5. Burst - 1 \in Minute /\ Burst \in Nat
      BY LimiterAssumption DEF Minute
    <2>6. admitted[ip[r]][Burst - 1] \in Nat
      BY <1>1, <2>1, <2>5 DEF BucketInv, LimiterInv, TypeOK
    <2>7. ~Admit(r)
      <3> SUFFICES ASSUME Admit(r) PROVE FALSE
        OBVIOUS
      <3>1. admitted'[ip[r]] = [m \in Minute |-> admitted[ip[r]][m] + 1]
        BY <1>1, <2>1 DEF Admit, BucketInv, LimiterInv, TypeOK
      <3>2. admitted'[ip[r]][Burst - 1] = admitted[ip[r]][Burst - 1] + 1
        BY <2>5, <3>1
      <3> QED BY <1>1, <2>6, <3>2
    <2>8. tokens[entry[r]] = 0
      <3>1. tokens[entry[r]] \in 0 .. Burst
        BY <1>1, <2>1 DEF BucketInv, LimiterInv, TypeOK
      <3> QED BY <2>4, <2>5, <2>7, <3>1 DEF Refuse, HasToken
    <2>9. tokens[entry[r]] + admitted[ip[r]][Burst - 1] >= (Burst - 1) + 1
      BY <1>1, <2>1, <2>5 DEF BucketInv, EarnedBack, Serves
    <2> QED BY <2>5, <2>6, <2>8, <2>9 DEF LastMinute
  <1>2. BucketInv /\ [Next]_vars
           => [\A r \in Requests :
                 (pc[r] = "allow" /\ pc'[r] = "idle" /\ admitted' = admitted) =>
                    LastMinute(ip[r]) >= Burst]_vars
    BY <1>1
  <1> QED BY <1>2, BucketInvariance, PTL DEF Spec, RefusedOnlyWhenBusy
=============================================================================
