------------------------ MODULE RecordPipelineProofs ------------------------
(***************************************************************************)
(* Theorems about RecordPipeline, for client's data of any shape within the *)
(* assumptions, any additions, targets and limits.                         *)
(*                                                                         *)
(* RecordInv carries the types, what truncation leaves of the client's     *)
(* data, the Bunyan fields and the lines written; OrderInv what the        *)
(* additions made so far say about each field; CutInv which strings were   *)
(* cut and why.  The sections before the invariants are about the operators *)
(* of Records, Enrichment, Truncation and DestinationOutput.               *)
(*                                                                         *)
(* Sizes, depths and paths are recursive functions.  That such a function   *)
(* satisfies its equation is proved here from the least number for which   *)
(* there is none (Recursion, SumExists), and what holds of all its values  *)
(* by the least number that escapes a set (UpTo).                          *)
(***************************************************************************)
EXTENDS RecordPipeline, FiniteSetTheorems, TLAPS

-----------------------------------------------------------------------------
(* Numbers, sums and recursions *)

\* A set of natural numbers that is not empty has a least element.
LEMMA Least ==
  ASSUME NEW K, K \subseteq Nat, K # {}
  PROVE  \E k \in K : \A j \in K : k <= j
  <1> DEFINE R == {p \in Nat \X Nat : p[1] < p[2]}
  <1>1. IsWellFoundedOn(R, Nat)
    BY NatLessThanWellFounded DEF OpToRel
  <1>2. PICK k \in K : \A j \in K : <<j, k>> \notin R
    <2> HIDE DEF R
    <2> QED BY <1>1, WFMin
  <1>3. \A j \in K : ~ (j < k)
    BY <1>2
  <1> QED BY <1>3

\* What holds of 0 and is passed on holds up to any number.
LEMMA UpTo ==
  ASSUME NEW N \in Nat, NEW S, 0 \in S, \A n \in 1 .. N : n - 1 \in S => n \in S
  PROVE  \A n \in 0 .. N : n \in S
  <1> SUFFICES ASSUME NEW m \in 0 .. N, m \notin S PROVE FALSE
    OBVIOUS
  <1> DEFINE K == {n \in 0 .. N : n \notin S}
  <1>1. K \subseteq Nat /\ K # {}
    OBVIOUS
  <1>2. PICK k \in K : \A j \in K : k <= j
    <2> HIDE DEF K
    <2> QED BY <1>1, Least
  <1>3. k \in 1 .. N /\ k - 1 \in 0 .. N
    BY <1>2
  <1>4. k - 1 \notin K
    BY <1>2, <1>3
  <1> QED BY <1>3, <1>4

\* The recursion that adds up w over the subsets of D, in any choice of order.
Summing(iter, D, w) ==
  iter = [s \in SUBSET D |->
            IF s = {} THEN 0 ELSE w[CHOOSE x \in s : TRUE] + iter[s \ {CHOOSE x \in s : TRUE}]]

LEMMA SumDef ==
  ASSUME NEW w
  PROVE  SumFunction(w) = (CHOOSE iter : Summing(iter, DOMAIN w, w))[DOMAIN w]
  BY DEF SumFunction, SumFunctionOnSet, FoldFunctionOnSet, MapThenFoldSet, Summing

LEMMA SumExists ==
  ASSUME NEW D, IsFiniteSet(D), NEW w \in [D -> Nat]
  PROVE  \E iter : Summing(iter, D, w)
  <1> DEFINE N == Cardinality(D)
             some(s) == CHOOSE x \in s : TRUE
             Small(n) == {s \in SUBSET D : Cardinality(s) <= n}
             Law(f, n) == \A s \in Small(n) :
                             f[s] = IF s = {} THEN 0 ELSE w[some(s)] + f[s \ {some(s)}]
             Can == {n \in 0 .. N : \E f \in [Small(n) -> Nat] : Law(f, n)}
  <1>1. N \in Nat
    BY FS_CardinalityType
  <1>2. \A s \in SUBSET D : IsFiniteSet(s) /\ Cardinality(s) \in 0 .. N
    BY FS_Subset, FS_CardinalityType, <1>1
  <1>3. \A s \in SUBSET D : s # {} => /\ some(s) \in s /\ s \ {some(s)} \in SUBSET D
                                      /\ Cardinality(s \ {some(s)}) = Cardinality(s) - 1
                                      /\ Cardinality(s) # 0
    BY <1>2, FS_RemoveElement, FS_EmptySet
  <1> HIDE DEF N, some
  <1>4. 0 \in Can
    <2> DEFINE f == [s \in Small(0) |-> 0]
    <2>1. \A s \in Small(0) : s = {}
      BY <1>2, FS_EmptySet
    <2>2. f \in [Small(0) -> Nat] /\ Law(f, 0)
      BY <2>1
    <2> HIDE DEF f, Law, Small
    <2> QED BY <1>1, <2>2
  <1>5. ASSUME NEW n \in 1 .. N, n - 1 \in Can
        PROVE  n \in Can
    <2>1. PICK f \in [Small(n - 1) -> Nat] : Law(f, n - 1)
      BY <1>5
    <2> DEFINE g == [s \in Small(n) |->
                       IF s = {} THEN 0 ELSE w[some(s)] + f[s \ {some(s)}]]
    <2>2. \A s \in Small(n) : s # {} => some(s) \in D /\ s \ {some(s)} \in Small(n - 1)
      BY <1>1, <1>2, <1>3
    <2>3. g \in [Small(n) -> Nat]
      BY <2>2
    <2>4. \A s \in Small(n - 1) : s \in Small(n) /\ g[s] = f[s]
      BY <1>1, <1>2, <2>1
    <2>5. Law(g, n)
      BY <2>2, <2>4
    <2> HIDE DEF g, Law, Small
    <2> QED BY <2>3, <2>5
  <1>6. N \in Can
    <2> HIDE DEF Can
    <2> QED BY <1>1, <1>4, <1>5, UpTo
  <1>7. PICK f \in [Small(N) -> Nat] : Law(f, N)
    BY <1>6
  <1>8. Small(N) = SUBSET D
    BY <1>1, <1>2
  <1>9. f = [s \in SUBSET D |-> IF s = {} THEN 0 ELSE w[some(s)] + f[s \ {some(s)}]]
    <2>1. f = [s \in SUBSET D |-> f[s]]
      BY <1>7, <1>8
    <2>2. \A s \in SUBSET D : f[s] = IF s = {} THEN 0 ELSE w[some(s)] + f[s \ {some(s)}]
      BY <1>7, <1>8
    <2> QED BY <2>1, <2>2
  <1> QED BY <1>9 DEF Summing, some

\* Sums of numbers are numbers, and no less if no term is less.
LEMMA SumCompare ==
  ASSUME NEW D, IsFiniteSet(D), NEW u \in [D -> Nat], NEW w \in [D -> Nat],
         \A x \in D : u[x] <= w[x]
  PROVE  SumFunction(u) \in Nat /\ SumFunction(w) \in Nat /\ SumFunction(u) <= SumFunction(w)
  <1> DEFINE U == CHOOSE iter : Summing(iter, D, u)
             W == CHOOSE iter : Summing(iter, D, w)
             N == Cardinality(D)
             some(s) == CHOOSE x \in s : TRUE
             Fine(s) == U[s] \in Nat /\ W[s] \in Nat /\ U[s] <= W[s]
             Can == {n \in 0 .. N : \A s \in SUBSET D : Cardinality(s) = n => Fine(s)}
  <1>1. Summing(U, D, u) /\ Summing(W, D, w)
    BY SumExists
  <1>2. SumFunction(u) = U[D] /\ SumFunction(w) = W[D]
    BY SumDef
  <1>3. N \in Nat /\ \A s \in SUBSET D : IsFiniteSet(s) /\ Cardinality(s) \in 0 .. N
    BY FS_Subset, FS_CardinalityType
  <1>4. \A s \in SUBSET D :
           /\ U[s] = IF s = {} THEN 0 ELSE u[some(s)] + U[s \ {some(s)}]
           /\ W[s] = IF s = {} THEN 0 ELSE w[some(s)] + W[s \ {some(s)}]
    <2> HIDE DEF U, W
    <2> QED BY <1>1 DEF Summing
  <1>5. \A s \in SUBSET D : s # {} => /\ some(s) \in D /\ s \ {some(s)} \in SUBSET D
                                      /\ Cardinality(s \ {some(s)}) = Cardinality(s) - 1
    BY <1>3, FS_RemoveElement
  <1> HIDE DEF U, W, N, some
  <1>6. 0 \in Can
    <2>1. \A s \in SUBSET D : Cardinality(s) = 0 => s = {}
      BY <1>3, FS_EmptySet
    <2> QED BY <1>3, <1>4, <2>1
  <1>7. ASSUME NEW n \in 1 .. N, n - 1 \in Can
        PROVE  n \in Can
    <2> SUFFICES ASSUME NEW s \in SUBSET D, Cardinality(s) = n
                 PROVE  Fine(s)
      BY <1>3
    <2>1. s # {}
      BY FS_EmptySet
    <2>2. Fine(s \ {some(s)})
      BY <1>5, <1>7, <2>1
    <2>3. /\ U[s] = u[some(s)] + U[s \ {some(s)}] /\ W[s] = w[some(s)] + W[s \ {some(s)}]
          /\ u[some(s)] \in Nat /\ w[some(s)] \in Nat /\ u[some(s)] <= w[some(s)]
      BY <1>4, <1>5, <2>1
    <2> QED BY <2>2, <2>3
  <1>8. N \in Can
    <2> HIDE DEF Can
    <2> QED BY <1>3, <1>6, <1>7, UpTo
  <1> QED BY <1>2, <1>8 DEF N

\* A recursion along 0, ..., N whose steps stay within X, and its solution.
Recursive(N, X, base, step) == N \in Nat /\ base \in X /\ step \in [(1 .. N) \X X -> X]
Solves(f, N, X, base, step) ==
  f \in [0 .. N -> X] /\ f[0] = base /\ \A n \in 1 .. N : f[n] = step[<<n, f[n - 1]>>]

LEMMA Recursion ==
  ASSUME NEW N, NEW X, NEW base, NEW step, Recursive(N, X, base, step)
  PROVE  \E f : Solves(f, N, X, base, step)
  <1> USE DEF Recursive
  <1> DEFINE Law(f, m) == \A n \in 0 .. m : f[n] = IF n = 0 THEN base ELSE step[<<n, f[n - 1]>>]
             Can == {m \in 0 .. N : \E f \in [0 .. m -> X] : Law(f, m)}
  <1>1. 0 \in Can
    <2> DEFINE f == [n \in 0 .. 0 |-> base]
    <2>1. f \in [0 .. 0 -> X] /\ Law(f, 0)
      OBVIOUS
    <2> HIDE DEF f, Law
    <2> QED BY <2>1
  <1>2. ASSUME NEW m \in 1 .. N, m - 1 \in Can
        PROVE  m \in Can
    <2>1. PICK f \in [0 .. m - 1 -> X] : Law(f, m - 1)
      BY <1>2
    <2> DEFINE g == [n \in 0 .. m |-> IF n = m THEN step[<<m, f[m - 1]>>] ELSE f[n]]
    <2>2. f[m - 1] \in X /\ \A n \in 0 .. m : n # m => n \in 0 .. m - 1
      OBVIOUS
    <2>3. g \in [0 .. m -> X]
      BY <2>2
    <2>4. Law(g, m)
      <3> SUFFICES ASSUME NEW n \in 0 .. m
                   PROVE  g[n] = IF n = 0 THEN base ELSE step[<<n, g[n - 1]>>]
        OBVIOUS
      <3>1. CASE n = m
        <4>1. g[m - 1] = f[m - 1] /\ m # 0
          OBVIOUS
        <4> QED BY <3>1, <4>1
      <3>2. CASE n # m
        <4>1. g[n] = f[n] /\ (n # 0 => g[n - 1] = f[n - 1])
          BY <3>2
        <4>2. n \in 0 .. m - 1
          BY <3>2
        <4>3. f[n] = IF n = 0 THEN base ELSE step[<<n, f[n - 1]>>]
          BY <2>1, <4>2
        <4> QED BY <4>1, <4>3
      <3> QED BY <3>1, <3>2
    <2> HIDE DEF g, Law
    <2> QED BY <2>3, <2>4
  <1>3. N \in Can
    <2> HIDE DEF Can
    <2> QED BY <1>1, <1>2, UpTo
  <1>4. PICK f \in [0 .. N -> X] : Law(f, N)
    BY <1>3
  <1>5. 0 \in 0 .. N /\ \A n \in 1 .. N : n \in 0 .. N /\ n # 0
    OBVIOUS
  <1>6. f[0] = base /\ \A n \in 1 .. N : f[n] = step[<<n, f[n - 1]>>]
    BY <1>4, <1>5
  <1> QED BY <1>4, <1>6 DEF Solves

-----------------------------------------------------------------------------
(* Records *)

\* The fields of a map are finitely many and have values.
LEMMA FieldsOf ==
  ASSUME NEW f, IsFields(f)
  PROVE  /\ IsFiniteSet(DOMAIN f) /\ DOMAIN f \subseteq Keys
         /\ \A k \in DOMAIN f : f[k] \in Value
  BY RecordsAssumption, FS_Subset DEF IsFields

LEMMA HeapFields ==
  ASSUME NEW h, IsHeap(h)
  PROVE  /\ DOMAIN h = Objects \cup {Root}
         /\ \A o \in DOMAIN h : IsFields(h[o])
  BY DEF IsHeap, IsData

\* What a value is.
LEMMA ValueFacts ==
  ASSUME NEW v \in Value
  PROVE  /\ v.len \in Nat
         /\ IsObj(v) => v.of \in Objects \ {Client} /\ v = Obj(v.of)
         /\ ScalarSize(v) \in Nat /\ PrintedScalar(v) \in Nat
         /\ IsStr(v) => ~IsObj(v) /\ Cut(v) \in Value /\ IsStr(Cut(v))
         /\ v # NoValue
  <1>1. v.len \in Nat /\ ScalarSize(v) \in Nat /\ PrintedScalar(v) \in Nat
    BY DEF Value, ScalarSize, PrintedScalar
  <1>2. IsObj(v) => v.of \in Objects \ {Client} /\ v = Obj(v.of)
    <2>1. CASE v \in [kind : Kinds, len : Nat, of : Origins]
      BY <2>1 DEF Kinds, IsObj
    <2>2. CASE v \in [kind : {"obj"}, len : {0}, of : Objects \ {Client}]
      BY <2>2 DEF Obj
    <2> QED BY <2>1, <2>2 DEF Value
  <1>3. v # NoValue
    <2>1. v.kind # "none"
      BY DEF Value, Kinds
    <2>2. NoValue.kind = "none"
      BY DEF NoValue
    <2> QED BY <2>1, <2>2
  <1>4. IsStr(v) => ~IsObj(v)
    BY DEF IsStr, IsObj
  <1>5. ASSUME IsStr(v)
        PROVE  Cut(v) \in Value /\ IsStr(Cut(v))
    <2>1. v \in [kind : Kinds, len : Nat, of : Origins]
      BY <1>5 DEF Value, IsStr
    <2>2. Cut(v) = [kind |-> "str", len |-> 13, of |-> v.of]
      BY DEF Cut, Text, CutLength, MinTruncateLength
    <2>3. Cut(v) \in [kind : Kinds, len : Nat, of : Origins] /\ Cut(v).kind = "str"
      BY <2>1, <2>2 DEF Kinds
    <2> QED BY <2>3 DEF Value, IsStr
  <1> QED BY <1>1, <1>2, <1>3, <1>4, <1>5

\* FieldsSize adds up, whatever the sizes are.
LEMMA FieldsSizeCompare ==
  ASSUME NEW D \in SUBSET Keys, NEW u \in [D -> Nat], NEW w \in [D -> Nat],
         \A k \in D : u[k] <= w[k]
  PROVE  FieldsSize(u) \in Nat /\ FieldsSize(w) \in Nat /\ FieldsSize(u) <= FieldsSize(w)
  <1> DEFINE U == [k \in D |-> KeyLen[k] + 4 + u[k]]
             W == [k \in D |-> KeyLen[k] + 4 + w[k]]
  <1>1. IsFiniteSet(D)
    BY RecordsAssumption, FS_Subset
  <1>2. U \in [D -> Nat] /\ W \in [D -> Nat] /\ \A k \in D : U[k] <= W[k]
    BY RecordsAssumption
  <1>3. DOMAIN u = D /\ DOMAIN w = D
    OBVIOUS
  <1>4. /\ FieldsSize(u) = IF D = {} THEN 2 ELSE 1 + SumFunction(U)
        /\ FieldsSize(w) = IF D = {} THEN 2 ELSE 1 + SumFunction(W)
    BY <1>3 DEF FieldsSize
  <1> HIDE DEF U, W
  <1>5. SumFunction(U) \in Nat /\ SumFunction(W) \in Nat /\ SumFunction(U) <= SumFunction(W)
    BY <1>1, <1>2, SumCompare
  <1> QED BY <1>4, <1>5

\* The sizes of objects are numbers, level by level.
LEMMA SizesFromType ==
  ASSUME NEW h, IsHeap(h), NEW inner \in [DOMAIN h -> Nat]
  PROVE  SizesFrom(h, inner) \in [DOMAIN h -> Nat]
  <1> SUFFICES ASSUME NEW o \in DOMAIN h
               PROVE  FieldsSize([k \in DOMAIN h[o] |->
                         IF IsObj(h[o][k]) THEN inner[h[o][k].of] ELSE ScalarSize(h[o][k])]) \in Nat
    BY DEF SizesFrom
  <1> DEFINE sizes == [k \in DOMAIN h[o] |->
                         IF IsObj(h[o][k]) THEN inner[h[o][k].of] ELSE ScalarSize(h[o][k])]
  <1>1. DOMAIN h[o] \in SUBSET Keys /\ \A k \in DOMAIN h[o] : h[o][k] \in Value
    BY HeapFields, FieldsOf
  <1>2. \A k \in DOMAIN h[o] : IsObj(h[o][k]) => h[o][k].of \in DOMAIN h
    BY <1>1, ValueFacts, HeapFields
  <1>3. \A k \in DOMAIN h[o] : ScalarSize(h[o][k]) \in Nat
    BY <1>1, ValueFacts
  <1>4. sizes \in [DOMAIN h[o] -> Nat]
    BY <1>2, <1>3
  <1> HIDE DEF sizes
  <1>5. FieldsSize(sizes) \in Nat
    BY <1>1, <1>4, FieldsSizeCompare
  <1> QED BY <1>5 DEF sizes

LEMMA SizesRecursion ==
  ASSUME NEW h, IsHeap(h)
  PROVE  /\ Sizes(h)[0] = [o \in DOMAIN h |-> 0]
         /\ \A d \in 0 .. MaxDepth : Sizes(h)[d + 1] = SizesFrom(h, Sizes(h)[d])
         /\ \A d \in 0 .. MaxDepth + 1 : Sizes(h)[d] \in [DOMAIN h -> Nat]
  <1> DEFINE N == MaxDepth + 1
             X == [DOMAIN h -> Nat]
             none == [o \in DOMAIN h |-> 0]
             step == [p \in (1 .. N) \X X |-> SizesFrom(h, p[2])]
             Law(f) == f = [d \in 0 .. N |-> IF d = 0 THEN none ELSE SizesFrom(h, f[d - 1])]
  <1>1. N \in Nat /\ none \in X
    BY RecordsAssumption
  <1>2. step \in [(1 .. N) \X X -> X]
    BY SizesFromType
  <1>3. PICK f \in [0 .. N -> X] :
           f[0] = none /\ \A d \in 1 .. N : f[d] = step[<<d, f[d - 1]>>]
    <2>1. Recursive(N, X, none, step)
      BY <1>1, <1>2 DEF Recursive
    <2> HIDE DEF N, X, none, step
    <2> QED BY <2>1, Recursion DEF Solves
  <1>4. \A d \in 1 .. N : f[d - 1] \in X /\ step[<<d, f[d - 1]>>] = SizesFrom(h, f[d - 1])
    <2>1. \A d \in 1 .. N : d - 1 \in 0 .. N
      BY <1>1
    <2> HIDE DEF N, X
    <2> QED BY <1>1, <1>3, <2>1
  <1>5. Law(f)
    <2>1. \A d \in 0 .. N : d # 0 => d \in 1 .. N
      BY <1>1
    <2>2. f = [d \in 0 .. N |-> f[d]]
      OBVIOUS
    <2>3. \A d \in 0 .. N : f[d] = IF d = 0 THEN none ELSE SizesFrom(h, f[d - 1])
      <3> HIDE DEF N, X, none, step
      <3> QED BY <1>3, <1>4, <2>1
    <2> HIDE DEF N, X, none, step
    <2> QED BY <2>2, <2>3
  <1>6. Sizes(h) = CHOOSE g : Law(g)
    BY DEF Sizes
  <1>7. Law(Sizes(h))
    <2> HIDE DEF Law
    <2> QED BY <1>5, <1>6
  <1> DEFINE s == Sizes(h)
  <1>8. s[0] = none /\ \A d \in 0 .. MaxDepth : s[d + 1] = SizesFrom(h, s[d])
    <2>1. \A d \in 0 .. MaxDepth : d + 1 \in 0 .. N /\ d + 1 # 0 /\ (d + 1) - 1 = d
      BY RecordsAssumption
    <2>2. 0 \in 0 .. N
      BY RecordsAssumption
    <2>3. s = [d \in 0 .. N |-> IF d = 0 THEN none ELSE SizesFrom(h, s[d - 1])]
      BY <1>7
    <2> HIDE DEF N, none, s
    <2> QED BY <2>1, <2>2, <2>3
  <1>9. \A d \in 0 .. N : s[d] \in X
    <2> DEFINE Good == {d \in 0 .. N : s[d] \in X}
    <2>1. 0 \in Good
      BY <1>1, <1>8
    <2>2. ASSUME NEW d \in 1 .. N, d - 1 \in Good
          PROVE  d \in Good
      <3>1. d - 1 \in 0 .. MaxDepth /\ (d - 1) + 1 = d
        BY RecordsAssumption
      <3>2. s[d] = SizesFrom(h, s[d - 1])
        BY <1>8, <3>1
      <3> QED BY <2>2, <3>2, SizesFromType
    <2> HIDE DEF Good
    <2>3. \A d \in 0 .. N : d \in Good
      BY <1>1, <2>1, <2>2, UpTo
    <2> QED BY <2>3 DEF Good
  <1> QED BY <1>8, <1>9

LEMMA SizesType ==
  ASSUME NEW h, IsHeap(h)
  PROVE  RecordSize(h) \in Nat /\ \A o \in DOMAIN h : ObjectSize(h, o) \in Nat
  <1>1. MaxDepth + 1 \in 0 .. MaxDepth + 1
    BY RecordsAssumption
  <1>2. Root \in DOMAIN h
    BY HeapFields
  <1> QED BY <1>1, <1>2, SizesRecursion DEF RecordSize, ObjectSize

\* What a map takes in print, whatever its values do.
LEMMA PrintedMapType ==
  ASSUME NEW D \in SUBSET Keys, NEW u \in [D -> Nat]
  PROVE  PrintedMap(u) \in Nat
  <1> DEFINE U == [k \in D |-> KeyLen[k] + 2 + u[k]]
  <1>1. IsFiniteSet(D)
    BY RecordsAssumption, FS_Subset
  <1>2. U \in [D -> Nat]
    BY RecordsAssumption
  <1>3. PrintedMap(u) = IF D = {} THEN 5 ELSE 4 + SumFunction(U)
    BY DEF PrintedMap
  <1> HIDE DEF U
  <1>4. \A k \in D : U[k] <= U[k]
    BY <1>2
  <1>5. SumFunction(U) \in Nat
    BY <1>1, <1>2, <1>4, SumCompare
  <1> QED BY <1>3, <1>5

\* So are the sizes of objects in print.
LEMMA PrintedFromType ==
  ASSUME NEW h, IsHeap(h), NEW inner \in [DOMAIN h -> Nat]
  PROVE  PrintedFrom(h, inner) \in [DOMAIN h -> Nat]
  <1> SUFFICES ASSUME NEW o \in DOMAIN h
               PROVE  PrintedMap([k \in DOMAIN h[o] |->
                         IF IsObj(h[o][k]) THEN inner[h[o][k].of] ELSE PrintedScalar(h[o][k])]) \in Nat
    BY DEF PrintedFrom
  <1> DEFINE sizes == [k \in DOMAIN h[o] |->
                         IF IsObj(h[o][k]) THEN inner[h[o][k].of] ELSE PrintedScalar(h[o][k])]
  <1>1. DOMAIN h[o] \in SUBSET Keys /\ \A k \in DOMAIN h[o] : h[o][k] \in Value
    BY HeapFields, FieldsOf
  <1>2. \A k \in DOMAIN h[o] : IsObj(h[o][k]) => h[o][k].of \in DOMAIN h
    BY <1>1, ValueFacts, HeapFields
  <1>3. \A k \in DOMAIN h[o] : PrintedScalar(h[o][k]) \in Nat
    BY <1>1, ValueFacts
  <1>4. sizes \in [DOMAIN h[o] -> Nat]
    BY <1>2, <1>3
  <1> HIDE DEF sizes
  <1>5. PrintedMap(sizes) \in Nat
    BY <1>1, <1>4, PrintedMapType
  <1> QED BY <1>5 DEF sizes

LEMMA PrintedRecursion ==
  ASSUME NEW h, IsHeap(h)
  PROVE  /\ PrintedSizes(h)[0] = [o \in DOMAIN h |-> 0]
         /\ \A d \in 0 .. MaxDepth : PrintedSizes(h)[d + 1] = PrintedFrom(h, PrintedSizes(h)[d])
         /\ \A d \in 0 .. MaxDepth + 1 : PrintedSizes(h)[d] \in [DOMAIN h -> Nat]
  <1> DEFINE N == MaxDepth + 1
             X == [DOMAIN h -> Nat]
             none == [o \in DOMAIN h |-> 0]
             step == [p \in (1 .. N) \X X |-> PrintedFrom(h, p[2])]
             Law(f) == f = [d \in 0 .. N |-> IF d = 0 THEN none ELSE PrintedFrom(h, f[d - 1])]
  <1>1. N \in Nat /\ none \in X
    BY RecordsAssumption
  <1>2. step \in [(1 .. N) \X X -> X]
    BY PrintedFromType
  <1>3. PICK f \in [0 .. N -> X] :
           f[0] = none /\ \A d \in 1 .. N : f[d] = step[<<d, f[d - 1]>>]
    <2>1. Recursive(N, X, none, step)
      BY <1>1, <1>2 DEF Recursive
    <2> HIDE DEF N, X, none, step
    <2> QED BY <2>1, Recursion DEF Solves
  <1>4. \A d \in 1 .. N : f[d - 1] \in X /\ step[<<d, f[d - 1]>>] = PrintedFrom(h, f[d - 1])
    <2>1. \A d \in 1 .. N : d - 1 \in 0 .. N
      BY <1>1
    <2> HIDE DEF N, X
    <2> QED BY <1>1, <1>3, <2>1
  <1>5. Law(f)
    <2>1. \A d \in 0 .. N : d # 0 => d \in 1 .. N
      BY <1>1
    <2>2. f = [d \in 0 .. N |-> f[d]]
      OBVIOUS
    <2>3. \A d \in 0 .. N : f[d] = IF d = 0 THEN none ELSE PrintedFrom(h, f[d - 1])
      <3> HIDE DEF N, X, none, step
      <3> QED BY <1>3, <1>4, <2>1
    <2> HIDE DEF N, X, none, step
    <2> QED BY <2>2, <2>3
  <1>6. PrintedSizes(h) = CHOOSE g : Law(g)
    BY DEF PrintedSizes
  <1>7. Law(PrintedSizes(h))
    <2> HIDE DEF Law
    <2> QED BY <1>5, <1>6
  <1> DEFINE s == PrintedSizes(h)
  <1>8. s[0] = none /\ \A d \in 0 .. MaxDepth : s[d + 1] = PrintedFrom(h, s[d])
    <2>1. \A d \in 0 .. MaxDepth : d + 1 \in 0 .. N /\ d + 1 # 0 /\ (d + 1) - 1 = d
      BY RecordsAssumption
    <2>2. 0 \in 0 .. N
      BY RecordsAssumption
    <2>3. s = [d \in 0 .. N |-> IF d = 0 THEN none ELSE PrintedFrom(h, s[d - 1])]
      BY <1>7
    <2> HIDE DEF N, none, s
    <2> QED BY <2>1, <2>2, <2>3
  <1>9. \A d \in 0 .. N : s[d] \in X
    <2> DEFINE Good == {d \in 0 .. N : s[d] \in X}
    <2>1. 0 \in Good
      BY <1>1, <1>8
    <2>2. ASSUME NEW d \in 1 .. N, d - 1 \in Good
          PROVE  d \in Good
      <3>1. d - 1 \in 0 .. MaxDepth /\ (d - 1) + 1 = d
        BY RecordsAssumption
      <3>2. s[d] = PrintedFrom(h, s[d - 1])
        BY <1>8, <3>1
      <3> QED BY <2>2, <3>2, PrintedFromType
    <2> HIDE DEF Good
    <2>3. \A d \in 0 .. N : d \in Good
      BY <1>1, <2>1, <2>2, UpTo
    <2> QED BY <2>3 DEF Good
  <1> QED BY <1>8, <1>9

LEMMA PrintedSizeType ==
  ASSUME NEW h, IsHeap(h), NEW v \in Value
  PROVE  PrintedSize(h, v) \in Nat
  <1>1. MaxDepth + 1 \in 0 .. MaxDepth + 1
    BY RecordsAssumption
  <1>2. IsObj(v) => v.of \in DOMAIN h
    BY ValueFacts, HeapFields
  <1>3. PrintedScalar(v) \in Nat
    BY ValueFacts
  <1> QED BY <1>1, <1>2, <1>3, PrintedRecursion DEF PrintedSize

\* Two heaps whose maps are nested in the same way.
SameShape(h, g) ==
  \A o \in Objects \cup {Root} :
     /\ DOMAIN g[o] = DOMAIN h[o]
     /\ \A k \in DOMAIN h[o] : IsObj(h[o][k]) \/ IsObj(g[o][k]) => g[o][k] = h[o][k]

\* If no value of g is shorter than that of h in its place, neither is the record.
LEMMA SizesCompare ==
  ASSUME NEW h, NEW g, IsHeap(h), IsHeap(g), SameShape(h, g),
         \A o \in Objects \cup {Root} : \A k \in DOMAIN h[o] :
            ScalarSize(h[o][k]) <= ScalarSize(g[o][k])
  PROVE  RecordSize(h) <= RecordSize(g)
  <1> DEFINE S == Sizes(h)
             T == Sizes(g)
             Good == {d \in 0 .. MaxDepth + 1 : \A o \in Objects \cup {Root} : S[d][o] <= T[d][o]}
  <1>1. /\ DOMAIN h = Objects \cup {Root} /\ DOMAIN g = Objects \cup {Root}
        /\ MaxDepth + 1 \in Nat
    BY HeapFields, RecordsAssumption
  <1>2. /\ S[0] = [o \in DOMAIN h |-> 0] /\ T[0] = [o \in DOMAIN g |-> 0]
        /\ \A d \in 0 .. MaxDepth : S[d + 1] = SizesFrom(h, S[d]) /\ T[d + 1] = SizesFrom(g, T[d])
        /\ \A d \in 0 .. MaxDepth + 1 : S[d] \in [DOMAIN h -> Nat] /\ T[d] \in [DOMAIN g -> Nat]
    BY SizesRecursion
  <1> HIDE DEF S, T
  <1>3. 0 \in Good
    BY <1>1, <1>2
  <1>4. ASSUME NEW d \in 1 .. MaxDepth + 1, d - 1 \in Good
        PROVE  d \in Good
    <2> SUFFICES ASSUME NEW o \in Objects \cup {Root}
                 PROVE  S[d][o] <= T[d][o]
      BY <1>1
    <2>1. d - 1 \in 0 .. MaxDepth /\ (d - 1) + 1 = d /\ d - 1 \in 0 .. MaxDepth + 1
      BY RecordsAssumption
    <2>2. S[d] = SizesFrom(h, S[d - 1]) /\ T[d] = SizesFrom(g, T[d - 1])
      BY <1>2, <2>1
    <2> DEFINE u == [k \in DOMAIN h[o] |->
                       IF IsObj(h[o][k]) THEN S[d - 1][h[o][k].of] ELSE ScalarSize(h[o][k])]
               w == [k \in DOMAIN g[o] |->
                       IF IsObj(g[o][k]) THEN T[d - 1][g[o][k].of] ELSE ScalarSize(g[o][k])]
    <2>3. S[d][o] = FieldsSize(u) /\ T[d][o] = FieldsSize(w)
      BY <1>1, <2>2 DEF SizesFrom
    <2>4. /\ DOMAIN g[o] = DOMAIN h[o] /\ DOMAIN h[o] \in SUBSET Keys
          /\ \A k \in DOMAIN h[o] : h[o][k] \in Value /\ g[o][k] \in Value
      BY <1>1, HeapFields, FieldsOf DEF SameShape
    <2>5. ASSUME NEW k \in DOMAIN h[o]
          PROVE  u[k] \in Nat /\ w[k] \in Nat /\ u[k] <= w[k]
      <3>1. CASE IsObj(h[o][k]) \/ IsObj(g[o][k])
        <4>1. g[o][k] = h[o][k] /\ IsObj(h[o][k])
          BY <3>1 DEF SameShape
        <4>2. h[o][k].of \in Objects
          BY <2>4, <4>1, ValueFacts
        <4>3. /\ S[d - 1][h[o][k].of] \in Nat /\ T[d - 1][h[o][k].of] \in Nat
              /\ S[d - 1][h[o][k].of] <= T[d - 1][h[o][k].of]
          BY <1>1, <1>2, <1>4, <2>1, <4>2
        <4>4. u[k] = S[d - 1][h[o][k].of] /\ w[k] = T[d - 1][h[o][k].of]
          BY <2>4, <4>1
        <4> QED BY <4>3, <4>4
      <3>2. CASE ~IsObj(h[o][k]) /\ ~IsObj(g[o][k])
        <4>1. u[k] = ScalarSize(h[o][k]) /\ w[k] = ScalarSize(g[o][k])
          BY <2>4, <3>2
        <4>2. ScalarSize(h[o][k]) \in Nat /\ ScalarSize(g[o][k]) \in Nat
          BY <2>4, ValueFacts
        <4> QED BY <4>1, <4>2
      <3> QED BY <3>1, <3>2
    <2>6. u \in [DOMAIN h[o] -> Nat] /\ w \in [DOMAIN h[o] -> Nat]
      <3>1. u = [k \in DOMAIN h[o] |-> u[k]] /\ w = [k \in DOMAIN h[o] |-> w[k]]
        BY <2>4
      <3> HIDE DEF u, w
      <3> QED BY <2>5, <3>1
    <2> HIDE DEF u, w
    <2> QED BY <2>3, <2>4, <2>5, <2>6, FieldsSizeCompare
  <1>5. MaxDepth + 1 \in Good
    <2> HIDE DEF Good
    <2> QED BY <1>1, <1>3, <1>4, UpTo
  <1> QED BY <1>5 DEF S, T, RecordSize, ObjectSize

\* Where values of a record can stand: not in the client's data as a whole.
Places == (Objects \ {Client}) \cup {Root}

\* What the maps at some places hold are places.
LEMMA HeldByPlaces ==
  ASSUME NEW h, IsHeap(h), NEW T \in SUBSET Places
  PROVE  HeldBy(h, T) \in SUBSET Places /\ Root \notin HeldBy(h, T)
  <1> SUFFICES ASSUME NEW o \in T, NEW k \in DOMAIN h[o], IsObj(h[o][k])
               PROVE  h[o][k].of \in Places /\ h[o][k].of # Root
    BY DEF HeldBy
  <1>1. o \in DOMAIN h
    BY HeapFields DEF Places
  <1>2. h[o][k] \in Value
    BY <1>1, HeapFields, FieldsOf
  <1> QED BY <1>2, ValueFacts, RecordsAssumption DEF Places

LEMMA LayersRecursion ==
  ASSUME NEW h, IsHeap(h)
  PROVE  /\ Layers(h)[0] = {Root}
         /\ \A d \in 1 .. MaxDepth : Layers(h)[d] = HeldBy(h, Layers(h)[d - 1])
         /\ \A d \in 0 .. MaxDepth : Layers(h)[d] \in SUBSET Places
  <1> DEFINE N == MaxDepth
             X == SUBSET Places
             step == [p \in (1 .. N) \X X |-> HeldBy(h, p[2])]
             Law(f) == f = [d \in 0 .. N |-> IF d = 0 THEN {Root} ELSE HeldBy(h, f[d - 1])]
  <1>1. N \in Nat /\ {Root} \in X
    BY RecordsAssumption DEF Places
  <1>2. step \in [(1 .. N) \X X -> X]
    BY HeldByPlaces
  <1>3. PICK f \in [0 .. N -> X] :
           f[0] = {Root} /\ \A d \in 1 .. N : f[d] = step[<<d, f[d - 1]>>]
    <2>1. Recursive(N, X, {Root}, step)
      BY <1>1, <1>2 DEF Recursive
    <2> HIDE DEF N, X, step
    <2> QED BY <2>1, Recursion DEF Solves
  <1>4. \A d \in 1 .. N : f[d - 1] \in X /\ step[<<d, f[d - 1]>>] = HeldBy(h, f[d - 1])
    <2>1. \A d \in 1 .. N : d - 1 \in 0 .. N
      BY <1>1
    <2> HIDE DEF N, X
    <2> QED BY <1>1, <1>3, <2>1
  <1>5. Law(f)
    <2>1. \A d \in 0 .. N : d # 0 => d \in 1 .. N
      BY <1>1
    <2>2. f = [d \in 0 .. N |-> f[d]]
      OBVIOUS
    <2>3. \A d \in 0 .. N : f[d] = IF d = 0 THEN {Root} ELSE HeldBy(h, f[d - 1])
      <3> HIDE DEF N, X, step
      <3> QED BY <1>3, <1>4, <2>1
    <2> HIDE DEF N, X, step
    <2> QED BY <2>2, <2>3
  <1>6. Layers(h) = CHOOSE g : Law(g)
    BY DEF Layers
  <1>7. Law(Layers(h))
    <2> HIDE DEF Law
    <2> QED BY <1>5, <1>6
  <1> DEFINE l == Layers(h)
  <1>8. l[0] = {Root} /\ \A d \in 1 .. MaxDepth : l[d] = HeldBy(h, l[d - 1])
    <2>1. 0 \in 0 .. N /\ \A d \in 1 .. MaxDepth : d \in 0 .. N /\ d # 0
      BY RecordsAssumption
    <2>2. l = [d \in 0 .. N |-> IF d = 0 THEN {Root} ELSE HeldBy(h, l[d - 1])]
      BY <1>7
    <2> HIDE DEF N, l
    <2> QED BY <2>1, <2>2
  <1>9. \A d \in 0 .. N : l[d] \in X
    <2> DEFINE Good == {d \in 0 .. N : l[d] \in X}
    <2>1. 0 \in Good
      BY <1>1, <1>8
    <2>2. ASSUME NEW d \in 1 .. N, d - 1 \in Good
          PROVE  d \in Good
      BY <1>8, <2>2, HeldByPlaces
    <2> HIDE DEF Good
    <2>3. \A d \in 0 .. N : d \in Good
      BY <1>1, <2>1, <2>2, UpTo
    <2> QED BY <2>3 DEF Good
  <1> QED BY <1>8, <1>9

LEMMA ReachedPlaces ==
  ASSUME NEW h, IsHeap(h)
  PROVE  Root \in Reached(h) /\ Reached(h) \subseteq Places /\ Places \subseteq DOMAIN h
  <1>1. 0 \in 0 .. MaxDepth
    BY RecordsAssumption
  <1> QED BY <1>1, LayersRecursion, HeapFields DEF Reached, AtDepth, Places

\* The values of a record stand in the same places if its maps are nested alike.
LEMMA SameLayers ==
  ASSUME NEW h, NEW g, IsHeap(h), IsHeap(g), SameShape(h, g)
  PROVE  /\ \A d \in 0 .. MaxDepth : AtDepth(g, d) = AtDepth(h, d)
         /\ Reached(g) = Reached(h)
         /\ Entries(g) = Entries(h)
  <1> DEFINE L == Layers(h)
             M == Layers(g)
             Good == {d \in 0 .. MaxDepth : M[d] = L[d]}
  <1>1. /\ L[0] = {Root} /\ M[0] = {Root}
        /\ \A d \in 1 .. MaxDepth : L[d] = HeldBy(h, L[d - 1]) /\ M[d] = HeldBy(g, M[d - 1])
        /\ \A d \in 0 .. MaxDepth : L[d] \in SUBSET Places
    BY LayersRecursion
  <1>2. ASSUME NEW T \in SUBSET Places
        PROVE  HeldBy(g, T) = HeldBy(h, T)
    <2>1. \A o \in T : o \in Objects \cup {Root}
      BY DEF Places
    <2>2. \A o \in T : /\ DOMAIN g[o] = DOMAIN h[o]
                       /\ \A k \in DOMAIN h[o] :
                             IsObj(h[o][k]) \/ IsObj(g[o][k]) => g[o][k] = h[o][k]
      BY <2>1 DEF SameShape
    <2>3. \A x : x \in HeldBy(g, T) <=> \E o \in T : \E k \in DOMAIN g[o] :
                                           IsObj(g[o][k]) /\ x = g[o][k].of
      BY DEF HeldBy
    <2>4. \A x : x \in HeldBy(h, T) <=> \E o \in T : \E k \in DOMAIN h[o] :
                                           IsObj(h[o][k]) /\ x = h[o][k].of
      BY DEF HeldBy
    <2>5. \A x : x \in HeldBy(g, T) <=> x \in HeldBy(h, T)
      BY <2>2, <2>3, <2>4
    <2> QED BY <2>5
  <1> HIDE DEF L, M
  <1>3. \A d \in 0 .. MaxDepth : d \in Good
    <2>0. 0 \in 0 .. MaxDepth
      BY RecordsAssumption
    <2>1. 0 \in Good
      BY <1>1, <2>0
    <2>2. ASSUME NEW d \in 1 .. MaxDepth, d - 1 \in Good
          PROVE  d \in Good
      BY <1>1, <1>2, <2>2
    <2> HIDE DEF Good
    <2> QED BY <2>1, <2>2, UpTo, RecordsAssumption
  <1>4. \A d \in 0 .. MaxDepth : AtDepth(g, d) = AtDepth(h, d)
    BY <1>3 DEF L, M, AtDepth
  <1>5. Reached(g) = Reached(h)
    BY <1>4 DEF Reached
  <1>6. \A o \in Reached(h) : DOMAIN g[o] = DOMAIN h[o]
    BY ReachedPlaces DEF Places, SameShape
  <1> QED BY <1>4, <1>5, <1>6 DEF Entries

-----------------------------------------------------------------------------
(* Enrichment *)

LEMMA WithFields ==
  ASSUME NEW f, IsFields(f), NEW k \in Keys, NEW v \in Value
  PROVE  IsFields(With(f, k, v))
  BY DEF IsFields, With

LEMMA OverFields ==
  ASSUME NEW f, NEW g, IsFields(f), IsFields(g)
  PROVE  IsFields(Over(f, g))
  BY DEF IsFields, Over

LEMMA RestrictFields ==
  ASSUME NEW f, IsFields(f), NEW S
  PROVE  IsFields(Restrict(f, DOMAIN f \ S))
  BY DEF IsFields, Restrict

LEMMA ScalarValue ==
  ASSUME NEW n \in Nat, NEW of \in Origins
  PROVE  /\ Text(n, of) \in Value
         /\ Scalar("int", n, of) \in Value
         /\ Scalar("float", n, of) \in Value
  BY DEF Scalar, Text, Value, Kinds

LEMMA ServerTimeValue == ServerTime \in Value
  <1>1. 30 \in Nat /\ "server" \in Origins
    BY EnrichmentAssumption
  <1> QED BY <1>1, ScalarValue DEF ServerTime, TimeLength

LEMMA DefaultFields == IsFields(BunyanDefaults) /\ DOMAIN BunyanDefaults = BunyanNames
  <1>1. DOMAIN BunyanDefaults = BunyanNames
    BY DEF BunyanDefaults, BunyanNames
  <1>2. BunyanDefaults = [k \in DOMAIN BunyanDefaults |-> BunyanDefaults[k]]
    BY DEF BunyanDefaults
  <1>3. \A k \in BunyanNames : BunyanDefaults[k] \in Value
    <2>0. "default" \in Origins /\ {0, 1, 2, 4, 8, 11} \subseteq Nat
      BY EnrichmentAssumption
    <2>1. /\ Scalar("int", 1, "default") \in Value /\ Text(11, "default") \in Value
          /\ DefaultLogLevel \in Value /\ Text(8, "default") \in Value
          /\ Scalar("int", 4, "default") \in Value /\ Text(0, "default") \in Value
      BY <2>0, ScalarValue DEF DefaultLogLevel
    <2> QED BY <2>1, ServerTimeValue DEF BunyanDefaults, BunyanNames
  <1> QED BY <1>1, <1>2, <1>3, EnrichmentAssumption DEF IsFields

\* A scalar read as a number is a value, and the level becomes an integer
\* unless it is neither number nor string.
LEMMA ConvertedValue ==
  ASSUME NEW v \in Value
  PROVE  /\ EnsuredLevel(v) \in Value
         /\ \/ EnsuredLevel(v).kind = "int"
            \/ EnsuredLevel(v) = v /\ v.kind \in {"bool", "null", "obj"}
         /\ ToInt(v).kind = "int"
         /\ ~IsObj(v) => ToInt(v) \in Value /\ AsNumber(v) \in Value
         /\ v.kind \in {"float", "numeral", "decimal"} => ~IsObj(v)
  <1>1. ASSUME ~IsObj(v)
        PROVE  v.len \in Nat /\ v.of \in Origins
    <2>1. v \in [kind : Kinds, len : Nat, of : Origins]
      BY <1>1 DEF Value, IsObj
    <2> QED BY <2>1
  <1>2. ~IsObj(v) => ToInt(v) \in Value /\ AsNumber(v) \in Value
    BY <1>1, ScalarValue DEF ToInt, AsNumber
  <1>3. DefaultLogLevel \in Value
    <2>1. 2 \in Nat /\ "default" \in Origins
      BY EnrichmentAssumption
    <2> QED BY <2>1, ScalarValue DEF DefaultLogLevel
  <1>4. ToInt(v).kind = "int" /\ DefaultLogLevel.kind = "int"
    BY DEF ToInt, Scalar, DefaultLogLevel
  <1>5. v.kind \in {"float", "numeral", "decimal"} => ~IsObj(v)
    BY DEF IsObj
  <1>6. v.kind \in {"str", "numeral", "decimal", "int", "float", "bool", "null", "obj"}
    BY DEF Value, Kinds
  <1> HIDE DEF ToInt, DefaultLogLevel
  <1> QED BY <1>2, <1>3, <1>4, <1>5, <1>6 DEF EnsuredLevel

\* A text the client sent, or what is printed in its place, is a value.
LEMMA PrintedValue ==
  ASSUME NEW h, IsHeap(h), NEW v \in Value
  PROVE  Printed(h, v) \in Value
  <1>1. PrintedSize(h, v) \in Nat
    BY PrintedSizeType
  <1>2. "printed" \in Origins
    BY EnrichmentAssumption
  <1>3. ~IsObj(v) => v.of \in Origins
    BY DEF Value, IsObj
  <1> QED BY <1>1, <1>2, <1>3, ScalarValue DEF Printed

\* The fields that Bunyan requires are there, and the server's are no floats.
BunyanShape(record) ==
  /\ BunyanNames \subseteq DOMAIN record
  /\ record["v"].kind # "float" /\ record["pid"].kind # "float"

LEMMA EnsureFields ==
  ASSUME NEW r, IsFields(r)
  PROVE  /\ IsFields(EnsureBunyanFields(r))
         /\ DOMAIN EnsureBunyanFields(r) = DOMAIN r \cup BunyanNames
         /\ BunyanShape(EnsureBunyanFields(r))
         /\ EnsureBunyanFields(r)["level"] =
              EnsuredLevel(IF "level" \in DOMAIN r THEN r["level"] ELSE DefaultLogLevel)
         /\ "time" \in DOMAIN r => EnsureBunyanFields(r)["time"] = r["time"]
  <1> DEFINE full == Over(r, BunyanDefaults)
             whole == EnsureBunyanFields(r)
             value(k) == CASE k = "level"                                  -> EnsuredLevel(full[k])
                           [] k \in {"v", "pid"} /\ full[k].kind = "float" -> ToInt(full[k])
                           [] OTHER                                        -> full[k]
  <1>1. IsFields(full) /\ DOMAIN full = DOMAIN r \cup BunyanNames
    <2>1. IsFields(full)
      BY DefaultFields, OverFields
    <2> QED BY <2>1, DefaultFields DEF Over
  <1>2. /\ "time" \in DOMAIN r => full["time"] = r["time"]
        /\ full["level"] = IF "level" \in DOMAIN r THEN r["level"] ELSE DefaultLogLevel
    BY DEF Over, BunyanDefaults
  <1>3. whole = [k \in DOMAIN full |-> value(k)]
    BY DEF EnsureBunyanFields
  <1> HIDE DEF full
  <1>4. ASSUME NEW k \in DOMAIN full
        PROVE  /\ value(k) \in Value
               /\ k = "level" => value(k) = EnsuredLevel(full[k])
               /\ k \in {"v", "pid"} => value(k).kind # "float"
               /\ k = "time" => value(k) = full[k]
    <2>1. full[k] \in Value
      BY <1>1 DEF IsFields
    <2> QED BY <2>1, ConvertedValue
  <1> HIDE DEF value
  <1>5. /\ DOMAIN whole = DOMAIN full
        /\ \A k \in DOMAIN full : whole[k] = value(k)
    BY <1>3
  <1> HIDE DEF whole
  <1>6. {"v", "level", "pid", "time"} \subseteq BunyanNames
    BY DEF BunyanNames
  <1>7. IsFields(whole)
    BY <1>1, <1>3, <1>4, <1>5 DEF IsFields
  <1>8. BunyanShape(whole)
    BY <1>1, <1>4, <1>5, <1>6 DEF BunyanShape
  <1>9. whole["level"] = EnsuredLevel(IF "level" \in DOMAIN r THEN r["level"] ELSE DefaultLogLevel)
    <2>1. whole["level"] = EnsuredLevel(full["level"])
      BY <1>1, <1>4, <1>5, <1>6
    <2> QED BY <1>2, <2>1
  <1>10. "time" \in DOMAIN r => whole["time"] = r["time"]
    BY <1>1, <1>2, <1>4, <1>5, <1>6
  <1> QED BY <1>1, <1>5, <1>7, <1>8, <1>9, <1>10 DEF whole

\* The client's data, by itself or with a record beside it.
HasData(h) == \A o \in Objects : IsFields(h[o])

LEMMA DataFields ==
  ASSUME NEW h, IsHeap(h) \/ IsData(h, Objects)
  PROVE  HasData(h)
  BY DEF IsHeap, IsData, HasData

\* What stands on a path into the client's data.
OnPath == Value \cup {NoValue, Obj(Client)}

LEMMA FieldOfType ==
  ASSUME NEW h, HasData(h), NEW v \in OnPath, NEW k
  PROVE  /\ FieldOf(h, v, k) \in Value \cup {NoValue}
         /\ FieldOf(h, v, k) \in OnPath
         /\ IsObj(v) => v.of \in Objects
  <1>1. IsObj(v) => v.of \in Objects
    <2>1. CASE v \in Value
      BY <2>1, ValueFacts
    <2>2. CASE v = NoValue
      BY <2>2 DEF NoValue, IsObj
    <2>3. CASE v = Obj(Client)
      BY <2>3, RecordsAssumption DEF Obj
    <2> QED BY <2>1, <2>2, <2>3 DEF OnPath
  <1>2. \A o \in Objects : \A x \in DOMAIN h[o] : h[o][x] \in Value
    BY FieldsOf DEF HasData
  <1>3. FieldOf(h, v, k) \in Value \cup {NoValue}
    BY <1>1, <1>2 DEF FieldOf
  <1> QED BY <1>1, <1>3 DEF OnPath

LEMMA WalkRecursion ==
  ASSUME NEW h, HasData(h), NEW path \in Seq(Keys)
  PROVE  /\ Walk(h, path)[0] = Obj(Client)
         /\ \A n \in 1 .. Len(path) :
               /\ Walk(h, path)[n] = FieldOf(h, Walk(h, path)[n - 1], path[n])
               /\ Walk(h, path)[n] \in Value \cup {NoValue}
         /\ \A n \in 0 .. Len(path) : Walk(h, path)[n] \in OnPath
  <1> DEFINE N == Len(path)
             step == [p \in (1 .. N) \X OnPath |-> FieldOf(h, p[2], path[p[1]])]
             Law(f) == f = [n \in 0 .. N |->
                              IF n = 0 THEN Obj(Client) ELSE FieldOf(h, f[n - 1], path[n])]
  <1>1. N \in Nat /\ Obj(Client) \in OnPath
    BY DEF OnPath
  <1>2. step \in [(1 .. N) \X OnPath -> OnPath]
    BY FieldOfType
  <1>3. PICK f \in [0 .. N -> OnPath] :
           f[0] = Obj(Client) /\ \A n \in 1 .. N : f[n] = step[<<n, f[n - 1]>>]
    <2>1. Recursive(N, OnPath, Obj(Client), step)
      BY <1>1, <1>2 DEF Recursive
    <2> HIDE DEF N, step
    <2> QED BY <2>1, Recursion DEF Solves
  <1>4. \A n \in 1 .. N : /\ f[n - 1] \in OnPath
                          /\ step[<<n, f[n - 1]>>] = FieldOf(h, f[n - 1], path[n])
    <2>1. \A n \in 1 .. N : n - 1 \in 0 .. N
      BY <1>1
    <2> HIDE DEF N
    <2> QED BY <1>1, <1>3, <2>1
  <1>5. Law(f)
    <2>1. \A n \in 0 .. N : n # 0 => n \in 1 .. N
      BY <1>1
    <2>2. f = [n \in 0 .. N |-> f[n]]
      OBVIOUS
    <2>3. \A n \in 0 .. N : f[n] = IF n = 0 THEN Obj(Client) ELSE FieldOf(h, f[n - 1], path[n])
      <3> HIDE DEF N, step
      <3> QED BY <1>3, <1>4, <2>1
    <2> HIDE DEF N, step
    <2> QED BY <2>2, <2>3
  <1>6. Walk(h, path) = CHOOSE g : Law(g)
    BY DEF Walk
  <1>7. Law(Walk(h, path))
    <2> HIDE DEF Law
    <2> QED BY <1>5, <1>6
  <1> DEFINE w == Walk(h, path)
  <1>8. w[0] = Obj(Client) /\ \A n \in 1 .. N : w[n] = FieldOf(h, w[n - 1], path[n])
    <2>1. 0 \in 0 .. N /\ \A n \in 1 .. N : n \in 0 .. N /\ n # 0
      BY <1>1
    <2>2. w = [n \in 0 .. N |-> IF n = 0 THEN Obj(Client) ELSE FieldOf(h, w[n - 1], path[n])]
      BY <1>7
    <2> HIDE DEF N, w
    <2> QED BY <2>1, <2>2
  <1> HIDE DEF w
  <1>9. \A n \in 0 .. N : w[n] \in OnPath
    <2> DEFINE Good == {n \in 0 .. N : w[n] \in OnPath}
    <2>1. 0 \in Good
      BY <1>1, <1>8
    <2>2. ASSUME NEW n \in 1 .. N, n - 1 \in Good
          PROVE  n \in Good
      BY <1>8, <2>2, FieldOfType
    <2> HIDE DEF Good
    <2>3. \A n \in 0 .. N : n \in Good
      BY <1>1, <2>1, <2>2, UpTo
    <2> QED BY <2>3 DEF Good
  <1>10. \A n \in 1 .. N : w[n] \in Value \cup {NoValue}
    <2>1. \A n \in 1 .. N : n - 1 \in 0 .. N
      BY <1>1
    <2> QED BY <1>8, <1>9, <2>1, FieldOfType
  <1> QED BY <1>8, <1>9, <1>10 DEF w

\* What an addition finds is a value, or that there is none.
LEMMA FoundType ==
  ASSUME NEW h, HasData(h), NEW add \in Addition
  PROVE  Found(h, add) \in Value \cup {NoValue}
  <1>1. add.value \in Value \cup {NoValue}
    BY DEF Addition
  <1>2. ASSUME add.source = "post"
        PROVE  PostValue(h, add.path) \in Value \cup {NoValue}
    <2>1. add.path \in Seq(Keys) /\ add.path # <<>>
      BY <1>2 DEF Addition
    <2>2. Len(add.path) \in 1 .. Len(add.path)
      BY <2>1
    <2> QED BY <2>1, <2>2, WalkRecursion DEF PostValue
  <1> QED BY <1>1, <1>2 DEF Found

LEMMA ApplyFields ==
  ASSUME NEW h, HasData(h), NEW record, IsFields(record), NEW add \in Addition,
         ~Fails(h, add)
  PROVE  IsFields(Apply(h, record, add))
  <1> DEFINE v == Found(h, add)
             put == IF add.name = "level" THEN AsNumber(v) ELSE v
  <1>1. add.name \in Keys
    BY DEF Addition
  <1>2. v \in Value \cup {NoValue}
    BY FoundType
  <1>3. ASSUME add.source # "remove", v # NoValue
        PROVE  put \in Value
    <2>1. v \in Value
      BY <1>2, <1>3
    <2>2. ASSUME add.name = "level"
          PROVE  AsNumber(v) \in Value
      <3>1. v.kind \in {"none", "numeral", "decimal", "float"}
        BY <1>3, <2>2 DEF Fails
      <3>2. v.kind # "none"
        BY <2>1 DEF Value, Kinds
      <3> QED BY <2>1, <3>1, <3>2, ConvertedValue
    <2> QED BY <2>1, <2>2
  <1> HIDE DEF v
  <1>4. /\ Apply(h, record, add) = IF add.source = "remove"
                                     THEN Restrict(record, DOMAIN record \ {add.name})
                                   ELSE IF v = NoValue THEN record
                                   ELSE With(record, add.name, put)
    BY DEF Apply, v
  <1> HIDE DEF put
  <1> QED BY <1>1, <1>3, <1>4, WithFields, RestrictFields

\* The client's fields, its message printed if it is a map.
LEMMA ClientFieldsType ==
  ASSUME NEW h, IsHeap(h)
  PROVE  IsFields(ClientFields(h))
  <1> DEFINE data == h[Client]
             others == Restrict(data, DOMAIN data \ {"message"})
             said == [msg |-> Printed(h, data["message"])]
  <1>1. IsFields(data)
    BY RecordsAssumption, DataFields DEF HasData
  <1>2. IsFields(others)
    BY <1>1, RestrictFields
  <1>3. ASSUME "message" \in DOMAIN data
        PROVE  IsFields(said)
    <2>1. data["message"] \in Value
      BY <1>1, <1>3, FieldsOf
    <2>2. Printed(h, data["message"]) \in Value
      BY <2>1, PrintedValue
    <2>3. "msg" \in Keys
      BY EnrichmentAssumption DEF BunyanNames
    <2> HIDE DEF data
    <2> QED BY <2>2, <2>3 DEF IsFields
  <1> HIDE DEF data, others, said
  <1>4. ClientFields(h) = IF "message" \in DOMAIN data /\ data["message"].kind # "null"
                            THEN Over(others, said) ELSE others
    BY DEF ClientFields, data, others, said
  <1> QED BY <1>2, <1>3, <1>4, OverFields

\* Two heaps with the same data of the client's own have the same fields for it,
\* a message excepted that is printed.
LEMMA ClientFieldsAgree ==
  ASSUME NEW h, NEW g, h[Client] = g[Client], NEW k,
         /\ k = "msg" /\ "msg" \notin DOMAIN g[Client]
         /\ "message" \in DOMAIN g[Client]
         => ~IsObj(g[Client]["message"])
  PROVE  /\ k \in DOMAIN ClientFields(h) <=> k \in DOMAIN ClientFields(g)
         /\ k \in DOMAIN ClientFields(g) => ClientFields(h)[k] = ClientFields(g)[k]
  <1> PICK data : data = g[Client]
    OBVIOUS
  <1> DEFINE others == Restrict(data, DOMAIN data \ {"message"})
             says == "message" \in DOMAIN data /\ data["message"].kind # "null"
             fields(text) == IF says THEN Over(others, [msg |-> text]) ELSE others
             P(x) == Printed(x, data["message"])
  <1>1. ClientFields(h) = fields(P(h)) /\ ClientFields(g) = fields(P(g))
    BY DEF ClientFields
  <1>2. ASSUME says, k = "msg", "msg" \notin DOMAIN data
        PROVE  P(h) = P(g)
    <2>1. ~IsObj(data["message"])
      BY <1>2
    <2> QED BY <2>1 DEF Printed, PrintedSize
  <1>3. DOMAIN others = DOMAIN data \ {"message"}
    BY DEF Restrict
  <1> HIDE DEF others, P
  <1> QED BY <1>1, <1>2, <1>3 DEF Over

\* A level that is a number, if there is one.
NumericLevel(record) == "level" \in DOMAIN record => record["level"].kind \in {"int", "float"}

\* An integer for a level, or what the client sent for one.
LevelFrom(data, record) ==
  \/ record["level"].kind = "int"
  \/ /\ "level" \in DOMAIN data /\ record["level"] = data["level"]
     /\ data["level"].kind \in {"bool", "null", "obj"}

LEMMA ApplyLevel ==
  ASSUME NEW h, NEW record, NumericLevel(record), NEW add
  PROVE  NumericLevel(Apply(h, record, add))
  <1> DEFINE new == Apply(h, record, add)
             v == Found(h, add)
  <1>1. CASE add.source = "remove"
    BY <1>1 DEF Apply, Restrict, NumericLevel
  <1>2. CASE add.source # "remove" /\ v = NoValue
    BY <1>2 DEF Apply
  <1>3. CASE add.source # "remove" /\ v # NoValue
    <2>1. AsNumber(v).kind = "float"
      BY DEF AsNumber, Scalar
    <2>2. new = With(record, add.name, IF add.name = "level" THEN AsNumber(v) ELSE v)
      BY <1>3 DEF Apply
    <2> HIDE DEF v, new
    <2> QED BY <2>1, <2>2 DEF With, NumericLevel, new
  <1> QED BY <1>1, <1>2, <1>3

LEMMA MergeFields ==
  ASSUME NEW h, IsHeap(h), NEW record, IsFields(record), NumericLevel(record)
  PROVE  /\ IsFields(Merge(h, record))
         /\ BunyanShape(Merge(h, record))
         /\ LevelFrom(h[Client], Merge(h, record))
         /\ Merge(h, record)["time"] = ServerTime
  <1> DEFINE all == Over(ClientFields(h), record)
             timed == With(all, "time", ServerTime)
  <1>1. IsFields(all)
    BY ClientFieldsType, OverFields
  <1>2. IsFields(timed) /\ "time" \in DOMAIN timed /\ timed["time"] = ServerTime
    <2>1. "time" \in Keys
      BY EnrichmentAssumption DEF BunyanNames
    <2>2. IsFields(timed)
      BY <1>1, <2>1, ServerTimeValue, WithFields
    <2> HIDE DEF all
    <2> QED BY <2>2 DEF With
  <1>3. Merge(h, record) = EnsureBunyanFields(timed)
    BY DEF Merge
  <1> DEFINE given == IF "level" \in DOMAIN timed THEN timed["level"] ELSE DefaultLogLevel
             data == h[Client]
  <1>4. given = IF "level" \in DOMAIN data THEN data["level"]
                ELSE IF "level" \in DOMAIN record THEN record["level"] ELSE DefaultLogLevel
    <2>1. /\ "level" \in DOMAIN ClientFields(h) <=> "level" \in DOMAIN data
          /\ "level" \in DOMAIN data => ClientFields(h)["level"] = data["level"]
      BY DEF ClientFields, Restrict, Over
    <2> HIDE DEF data
    <2> QED BY <2>1 DEF Over, With
  <1>5. given \in Value
    <2>1. "level" \in DOMAIN timed => timed["level"] \in Value
      BY <1>2, FieldsOf
    <2>2. DefaultLogLevel \in Value
      BY DefaultFields, FieldsOf DEF BunyanDefaults, BunyanNames
    <2> QED BY <2>1, <2>2
  <1>6. LevelFrom(data, Merge(h, record))
    <2>1. Merge(h, record)["level"] = EnsuredLevel(given)
      BY <1>2, <1>3, EnsureFields
    <2>2. \/ EnsuredLevel(given).kind = "int"
          \/ EnsuredLevel(given) = given /\ given.kind \in {"bool", "null", "obj"}
      BY <1>5, ConvertedValue
    <2>3. DefaultLogLevel.kind = "int"
      BY DEF DefaultLogLevel, Scalar
    <2> HIDE DEF given, data, timed
    <2> QED BY <1>4, <2>1, <2>2, <2>3 DEF LevelFrom, NumericLevel
  <1> HIDE DEF timed
  <1> QED BY <1>2, <1>3, <1>6, EnsureFields

-----------------------------------------------------------------------------
(* What destinations make of records *)

\* The number of essential fields is none that cannot be divided by.
LEMMA EssentialCount == IsFiniteSet(EssentialFields) /\ Cardinality(EssentialFields) \in Nat \ {0}
  <1>1. ASSUME NEW a, NEW b, NEW c
        PROVE  IsFiniteSet({a, b, c})
    <2>1. {a, b, c} = {a} \cup {b} \cup {c}
      OBVIOUS
    <2>2. IsFiniteSet({a}) /\ IsFiniteSet({b}) /\ IsFiniteSet({c})
      BY FS_Singleton
    <2>3. IsFiniteSet({a} \cup {b})
      BY <2>2, FS_Union
    <2> QED BY <2>1, <2>2, <2>3, FS_Union
  <1> DEFINE A == {"time", "level", "hostname"}
             B == {"pid", "name", "site_id"}
             C == {"ip_address", "user_agent", "x_forwarded_for"}
  <1>2. EssentialFields = A \cup B \cup C
    BY DEF EssentialFields
  <1>3. IsFiniteSet(A) /\ IsFiniteSet(B) /\ IsFiniteSet(C)
    BY <1>1
  <1>4. "time" \in EssentialFields
    BY DEF EssentialFields
  <1> HIDE DEF A, B, C
  <1>5. IsFiniteSet(A \cup B)
    BY <1>3, FS_Union
  <1>6. IsFiniteSet(EssentialFields)
    BY <1>2, <1>3, <1>5, FS_Union
  <1> QED BY <1>4, <1>6, FS_CardinalityType, FS_EmptySet

LEMMA EssentialSizeType ==
  ASSUME NEW h, IsHeap(h), NEW maxSize \in Nat
  PROVE  EssentialSize(h, maxSize) \in Nat
  <1> DEFINE perField == MaxLengthPerField(maxSize)
             size(v) == IF IsObj(v) THEN ObjectSize(h, v.of)
                        ELSE IF IsStr(v) THEN ScalarSize(TruncateString(v, perField))
                        ELSE ScalarSize(v)
             kept == EssentialFields \cap DOMAIN h[Root]
             terms == [k \in kept |-> KeyLen[k] + 4 + size(h[Root][k])]
  <1>1. perField \in Nat
    <2> DEFINE n == Cardinality(EssentialFields)
               space == AtLeast(maxSize - 200 - n * 30, 50)
    <2>1. n \in Nat /\ n > 0
      BY EssentialCount
    <2> HIDE DEF n
    <2>2. space \in Nat
      BY <2>1 DEF AtLeast
    <2> HIDE DEF space
    <2>3. space \div n \in Int
      BY <2>1, <2>2
    <2>4. perField = AtLeast(space \div n, 10)
      BY DEF MaxLengthPerField, space, n
    <2> QED BY <2>3, <2>4 DEF AtLeast
  <1>2. /\ IsFiniteSet(kept) /\ kept \subseteq Keys
        /\ \A k \in kept : h[Root][k] \in Value
    <2>1. IsFields(h[Root])
      BY HeapFields
    <2> QED BY <2>1, FieldsOf, EssentialCount, FS_Subset
  <1> HIDE DEF perField, kept
  <1>3. ASSUME NEW v \in Value
        PROVE  size(v) \in Nat
    <2>1. CASE IsObj(v)
      BY <2>1, ValueFacts, SizesType, HeapFields
    <2>2. CASE ~IsObj(v) /\ IsStr(v)
      <3>1. TruncateString(v, perField).len \in Nat
        BY <1>1, ValueFacts DEF TruncateString, AtMost, Value
      <3>2. ScalarSize(TruncateString(v, perField)) \in Nat
        BY <3>1 DEF ScalarSize
      <3> QED BY <2>2, <3>2
    <2>3. CASE ~IsObj(v) /\ ~IsStr(v)
      BY <2>3, ValueFacts
    <2> QED BY <2>1, <2>2, <2>3
  <1> HIDE DEF size
  <1>4. terms \in [kept -> Nat]
    BY <1>2, <1>3, RecordsAssumption
  <1>5. EssentialSize(h, maxSize) = 1 + LogErrorSize + SumFunction(terms)
    BY DEF EssentialSize, perField, size, kept
  <1> HIDE DEF terms
  <1>6. SumFunction(terms) \in Nat
    BY <1>2, <1>4, SumCompare
  <1> QED BY <1>5, <1>6 DEF LogErrorSize

\* The kinds of output that a destination of some kind may get.
WrittenKinds == {"record", "essential", "marker", "cut", "text", "gelf"}

\* A line fits what destination d allows.
LineFits(line, d) ==
  /\ DestKind[d] # "gelf" => /\ line.len <= MaxMessage[d]
                             /\ line.kind = "cut" => MaxMessage[d] < MarkerSize
  /\ line.kind = "gelf" /\ MaxMessage[d] > 0 =>
       line.len <= AtLeast(MaxMessage[d] - GelfOverhead, 0)

LEMMA JSONLineFits ==
  ASSUME NEW h, IsHeap(h), NEW maxSize \in Nat
  PROVE  LET line == JSONLine(h, maxSize)
         IN  /\ line \in [kind : WrittenKinds \ {"gelf"}, len : Nat]
             /\ line.len <= maxSize
             /\ line.kind = "cut" => maxSize < MarkerSize
  <1>1. RecordSize(h) \in Nat /\ EssentialSize(h, maxSize) \in Nat
    BY SizesType, EssentialSizeType
  <1> QED BY <1>1 DEF JSONLine, TruncatedLine, Output, MarkerSize, WrittenKinds

LEMMA TextLineFits ==
  ASSUME NEW h, IsHeap(h), NEW maxSize \in Nat, NEW line \in TextLines(h, maxSize)
  PROVE  /\ line \in [kind : {"text"}, len : Nat]
         /\ line.len <= maxSize
  <1> DEFINE record == h[Root]
             D == DOMAIN record \ {"time", "level", "msg"}
             terms == [k \in D |-> KeyLen[k] + 2 + FormattedSize(h, record[k])]
  <1>1. /\ DOMAIN record \subseteq Keys /\ \A k \in DOMAIN record : record[k] \in Value
        /\ IsFiniteSet(D)
    <2>1. IsFields(record)
      BY HeapFields
    <2> QED BY <2>1, FieldsOf, FS_Subset
  <1>2. ASSUME NEW v \in Value
        PROVE  FormattedSize(h, v) \in Nat
    <2>1. v.len \in Nat /\ (IsObj(v) => ObjectSize(h, v.of) \in Nat)
      BY ValueFacts, SizesType, HeapFields
    <2> QED BY <2>1 DEF FormattedSize
  <1>3. terms \in [D -> Nat]
    BY <1>1, <1>2, RecordsAssumption
  <1>4. MsgSize(record) \in Nat
    BY <1>1, ValueFacts DEF MsgSize
  <1>5. PICK n \in LevelNameLengths(record) :
           line = Output("text", AtMost(TimestampSize + 2 + n + 1 + MsgSize(record)
                                          + SumFunction(terms), maxSize))
    BY DEF TextLines
  <1>6. n \in Nat
    BY <1>5 DEF LevelNameLengths
  <1> HIDE DEF terms, D, record
  <1>7. SumFunction(terms) \in Nat
    BY <1>1, <1>3, SumCompare
  <1> QED BY <1>4, <1>5, <1>6, <1>7 DEF Output, AtMost, TimestampSize

LEMMA GelfTextFits ==
  ASSUME NEW h, IsHeap(h), NEW maxSize \in Nat
  PROVE  /\ GelfText(h, maxSize) \in [kind : {"gelf"}, len : Nat]
         /\ maxSize > 0 => GelfText(h, maxSize).len <= AtLeast(maxSize - GelfOverhead, 0)
  <1>1. \A k \in DOMAIN h[Root] : h[Root][k].len \in Nat /\ PrintedSize(h, h[Root][k]) \in Nat
    BY HeapFields, FieldsOf, ValueFacts, PrintedSizeType
  <1>2. ShortText(h) \in Nat /\ FullText(h[Root]) \in Nat
    BY <1>1 DEF ShortText, FullText
  <1> QED BY <1>2 DEF GelfText, Output, AtLeast, AtMost, GelfOverhead

LEMMA WrittenFits ==
  ASSUME NEW h, IsHeap(h), NEW d \in DOMAIN MaxMessage, NEW line \in Written(h, d)
  PROVE  line \in [kind : WrittenKinds, len : Nat] /\ LineFits(line, d)
  <1>1. MaxMessage[d] \in Nat /\ DestKind[d] \in {"json", "text", "gelf"}
    BY PipelineAssumption
  <1>2. CASE DestKind[d] = "json"
    <2>1. line = JSONLine(h, MaxMessage[d])
      BY <1>2 DEF Written
    <2> QED BY <1>1, <1>2, <2>1, JSONLineFits DEF LineFits
  <1>3. CASE DestKind[d] = "text"
    <2>1. line \in TextLines(h, MaxMessage[d])
      BY <1>3 DEF Written
    <2>2. line \in [kind : {"text"}, len : Nat] /\ line.len <= MaxMessage[d]
      BY <1>1, <2>1, TextLineFits
    <2> QED BY <1>3, <2>2 DEF LineFits, WrittenKinds
  <1>4. CASE DestKind[d] = "gelf"
    <2>1. line = GelfText(h, MaxMessage[d])
      BY <1>4 DEF Written
    <2>2. /\ line \in [kind : {"gelf"}, len : Nat]
          /\ MaxMessage[d] > 0 => line.len <= AtLeast(MaxMessage[d] - GelfOverhead, 0)
      BY <1>1, <2>1, GelfTextFits
    <2> QED BY <1>4, <2>2 DEF LineFits, WrittenKinds
  <1> QED BY <1>1, <1>2, <1>3, <1>4

-----------------------------------------------------------------------------
(* Truncation *)

\* The record itself stands nowhere but at the top.
LEMMA RootOnTop ==
  ASSUME NEW h, IsHeap(h), NEW d \in 0 .. MaxDepth, Root \in AtDepth(h, d)
  PROVE  d = 0
  <1> SUFFICES ASSUME d # 0 PROVE FALSE
    OBVIOUS
  <1>1. d \in 1 .. MaxDepth /\ d - 1 \in 0 .. MaxDepth
    BY RecordsAssumption
  <1>2. AtDepth(h, d) = HeldBy(h, Layers(h)[d - 1]) /\ Layers(h)[d - 1] \in SUBSET Places
    BY <1>1, LayersRecursion DEF AtDepth
  <1> QED BY <1>2, HeldByPlaces

\* The places of the record's strings.
LEMMA TruncatableFacts ==
  ASSUME NEW h, IsHeap(h), NEW e \in Truncatable(h)
  PROVE  /\ e \in Entries(h) /\ e = <<e[1], e[2]>>
         /\ e[1] \in Reached(h) /\ e[1] \in Places /\ e[1] \in DOMAIN h
         /\ e[2] \in DOMAIN h[e[1]] /\ e[2] \in Keys
         /\ ValueAt(h, e) = h[e[1]][e[2]] /\ ValueAt(h, e) \in Value
         /\ IsStr(ValueAt(h, e)) /\ ValueAt(h, e).len > MinTruncateLength
         /\ ~IsObj(ValueAt(h, e))
  <1>1. e \in Entries(h) /\ IsStr(ValueAt(h, e)) /\ ValueAt(h, e).len > MinTruncateLength
    BY DEF Truncatable
  <1>0. PICK o \in Reached(h) : e \in {<<o, k>> : k \in DOMAIN h[o]}
    BY <1>1 DEF Entries
  <1>2. PICK k \in DOMAIN h[o] : e = <<o, k>>
    BY <1>0
  <1>3. o \in Places /\ o \in DOMAIN h
    BY <1>2, ReachedPlaces
  <1>4. h[o][k] \in Value /\ k \in Keys
    BY <1>2, <1>3, HeapFields, FieldsOf
  <1>5. ValueAt(h, e) = h[o][k] /\ e[1] = o /\ e[2] = k
    BY <1>2 DEF ValueAt
  <1> QED BY <1>1, <1>2, <1>3, <1>4, <1>5, ValueFacts

\* What one round writes and where.
LEMMA CutFacts ==
  ASSUME NEW h, IsHeap(h), NEW e \in Candidates(h), NEW f \in WrittenTo(h, e)
  PROVE  /\ e \in Truncatable(h)
         /\ f = <<e[1], f[2]>> /\ f[2] \in DOMAIN h[e[1]]
         /\ e[1] = Root => f = e
         /\ IsHeap(WriteCut(h, e, f))
         /\ \A o \in Objects \cup {Root} :
               /\ DOMAIN WriteCut(h, e, f)[o] = DOMAIN h[o]
               /\ \A k \in DOMAIN h[o] :
                     WriteCut(h, e, f)[o][k] = IF <<o, k>> = f THEN Cut(ValueAt(h, e)) ELSE h[o][k]
  <1> DEFINE g == WriteCut(h, e, f)
             v == Cut(ValueAt(h, e))
  <1>1. e \in Truncatable(h)
    BY DEF Candidates, Longest
  <1>2. /\ e = <<e[1], e[2]>> /\ e[1] \in DOMAIN h /\ e[2] \in DOMAIN h[e[1]]
        /\ v \in Value
    BY <1>1, TruncatableFacts, ValueFacts
  <1>3. PICK d \in 0 .. MaxDepth :
           /\ e[1] \in AtDepth(h, d)
           /\ f \in IF d + 1 = SharedPathLength
                      THEN {<<e[1], k>> : k \in DOMAIN h[e[1]]} ELSE {e}
    BY DEF WrittenTo
  <1>4. f = <<e[1], f[2]>> /\ f[2] \in DOMAIN h[e[1]] /\ f[1] = e[1]
    BY <1>2, <1>3
  <1>5. e[1] = Root => f = e
    BY <1>3, RootOnTop DEF SharedPathLength
  <1>6. DOMAIN h = Objects \cup {Root} /\ \A o \in DOMAIN h : IsFields(h[o])
    BY HeapFields
  <1> HIDE DEF v
  <1>7. g = [h EXCEPT ![e[1]] = [h[e[1]] EXCEPT ![f[2]] = v]]
    BY <1>4 DEF WriteCut, v
  <1>8. \A o \in DOMAIN h :
           /\ DOMAIN g[o] = DOMAIN h[o]
           /\ \A k \in DOMAIN h[o] :
                 g[o][k] = IF o = e[1] /\ k = f[2] THEN v ELSE h[o][k]
    <2> SUFFICES ASSUME NEW o \in DOMAIN h
                 PROVE  /\ DOMAIN g[o] = DOMAIN h[o]
                        /\ \A k \in DOMAIN h[o] :
                              g[o][k] = IF o = e[1] /\ k = f[2] THEN v ELSE h[o][k]
      OBVIOUS
    <2>0. h = [x \in DOMAIN h |-> h[x]] /\ h[o] = [k \in DOMAIN h[o] |-> h[o][k]]
      BY <1>6 DEF IsFields, IsHeap, IsData
    <2> QED BY <1>7, <2>0
  <1>9. IsHeap(g)
    <2>1. g = [o \in DOMAIN h |-> g[o]]
      BY <1>7
    <2>2. ASSUME NEW o \in DOMAIN h
          PROVE  IsFields(g[o])
      <3>1. DOMAIN g[o] \subseteq Keys /\ \A k \in DOMAIN g[o] : g[o][k] \in Value
        BY <1>2, <1>6, <1>8, FieldsOf
      <3>2. g[o] = [k \in DOMAIN g[o] |-> g[o][k]]
        BY <1>6, <1>7 DEF IsFields
      <3> QED BY <3>1, <3>2 DEF IsFields
    <2> HIDE DEF g
    <2> QED BY <1>6, <2>1, <2>2 DEF IsHeap, IsData
  <1>10. \A o, k : <<o, k>> = f <=> o = e[1] /\ k = f[2]
    BY <1>4
  <1> HIDE DEF g
  <1> QED BY <1>1, <1>4, <1>5, <1>6, <1>8, <1>9, <1>10 DEF g, v

-----------------------------------------------------------------------------
(* The inductive invariant *)

(* Truncation cuts strings inside the client's data, and changes nothing else
   of it: its own fields and the maps nested in it stay as they were sent. *)
Kept(h) ==
  /\ h[Client] = input.sent[Client]
  /\ \A o \in Objects :
        /\ DOMAIN h[o] = DOMAIN input.sent[o]
        /\ \A k \in DOMAIN h[o] : IsObj(h[o][k]) => h[o][k] = input.sent[o][k]

\* The level is a number until the client's data is merged, and the record
\* stays as Bunyan wants it while it is cut.
BunyanKept ==
  /\ pc = "add" => NumericLevel(heap[Root])
  /\ pc \in {"truncate", "write"} =>
       /\ BunyanShape(heap[Root]) /\ LevelFrom(input.sent[Client], heap[Root])
       /\ heap[Root]["time"].of = ServerTime.of

AllLinesFit == \A i \in 1 .. Len(Targets) : LineFits(lines[i], Targets[i])

RecordInv == TypeOK /\ Kept(heap) /\ BunyanKept /\ AllLinesFit

\* The request and the configuration are as assumed.
LEMMA InputFacts ==
  ASSUME TypeOK
  PROVE  /\ IsData(input.sent, Objects) /\ HasData(input.sent)
         /\ input.ruleAdds \in Seq(Addition) /\ input.limit \in Nat
         /\ Len(Targets) \in Nat
         /\ dest \in 1 .. Len(Targets) =>
              /\ Targets[dest] \in DOMAIN MaxMessage
              /\ Adds \in Seq(Addition)
              /\ Adds = input.ruleAdds \o DestAdds[Targets[dest]]
  <1>1. /\ IsData(input.sent, Objects)
        /\ input.ruleAdds \in Seq(Addition) /\ input.limit \in Nat
    BY PipelineAssumption DEF TypeOK
  <1>2. Len(Targets) \in Nat
    BY PipelineAssumption
  <1>3. ASSUME dest \in 1 .. Len(Targets)
        PROVE  /\ Targets[dest] \in DOMAIN MaxMessage
               /\ DestAdds[Targets[dest]] \in Seq(Addition)
    BY <1>3, PipelineAssumption
  <1> QED BY <1>1, <1>2, <1>3, DataFields DEF Adds, AddOrder

\* What is not written fits anywhere.
LEMMA NothingFits ==
  ASSUME NEW d \in DOMAIN MaxMessage
  PROVE  LineFits(NotTried, d) /\ LineFits(Skipped, d)
  <1>1. MaxMessage[d] \in Nat
    BY PipelineAssumption
  <1> QED BY <1>1 DEF LineFits, NotTried, Skipped, Output

\* Where the loop is, when it is at a destination.
LEMMA AtDestination ==
  ASSUME TypeOK, pc # "done"
  PROVE  dest \in 1 .. Len(Targets) /\ Targets[dest] \in DOMAIN MaxMessage
  <1>1. dest \in 1 .. Len(Targets) + 1 /\ dest # Len(Targets) + 1
    BY DEF TypeOK
  <1>2. Len(Targets) \in Nat
    BY PipelineAssumption
  <1>3. dest \in 1 .. Len(Targets)
    BY <1>1, <1>2
  <1> QED BY <1>3, InputFacts

\* Changing the record changes nothing of the client's data.
PutRecord(h, record) == [h EXCEPT ![Root] = record]

LEMMA SetRecord ==
  ASSUME NEW h, IsHeap(h), NEW record, IsFields(record)
  PROVE  /\ IsHeap(PutRecord(h, record)) /\ PutRecord(h, record)[Root] = record
         /\ \A o \in Objects : PutRecord(h, record)[o] = h[o]
  <1>1. DOMAIN h = Objects \cup {Root} /\ \A o \in DOMAIN h : IsFields(h[o])
    BY HeapFields
  <1> QED BY <1>1, RecordsAssumption DEF PutRecord, IsHeap, IsData

LEMMA RecordInit == Init => RecordInv
  <1> SUFFICES ASSUME Init PROVE RecordInv
    OBVIOUS
  <1>1. input \in Inputs /\ IsData(input.sent, Objects) /\ heap = With(input.sent, Root, NoRecord)
    BY PipelineAssumption DEF Init
  <1>2. IsFields(NoRecord)
    BY DEF NoRecord, IsFields
  <1>3. /\ DOMAIN heap = Objects \cup {Root} /\ heap[Root] = NoRecord
        /\ \A o \in Objects : heap[o] = input.sent[o]
    BY <1>1, RecordsAssumption DEF With, IsData
  <1>4. IsHeap(heap)
    <2>1. \A o \in DOMAIN heap : IsFields(heap[o])
      BY <1>1, <1>2, <1>3 DEF IsData
    <2>2. heap = [o \in DOMAIN heap |-> heap[o]]
      BY <1>1 DEF With
    <2> QED BY <1>3, <2>1, <2>2 DEF IsHeap, IsData
  <1>5. Kept(heap)
    BY <1>3, RecordsAssumption DEF Kept
  <1>6. Len(Targets) \in Nat /\ (Targets = <<>> <=> Len(Targets) = 0)
    BY PipelineAssumption
  <1>7. TypeOK
    <2>1. lines = [i \in 1 .. Len(Targets) |-> Output("untried", 0)]
      BY DEF Init, NotTried
    <2>2. lines \in [1 .. Len(Targets) ->
                       [kind : {"untried", "skipped", "record", "essential", "marker", "cut",
                                "text", "gelf"}, len : Nat]]
      BY <2>1 DEF Output
    <2>3. /\ dest = 1 /\ next = 1 /\ rounds = 0 /\ merged = heap
          /\ pc = IF Targets = <<>> THEN "done" ELSE "copy"
      BY DEF Init
    <2>4. rounds \in 0 .. MaxTruncateIterations
      BY <2>3, RoundsAssumption
    <2>5. /\ dest \in 1 .. Len(Targets) + 1
          /\ pc \in {"copy", "add", "truncate", "write", "done"} /\ pc # "add"
      BY <1>6, <2>3
    <2>6. pc = "done" <=> dest = Len(Targets) + 1
      BY <1>6, <2>3
    <2> QED BY <1>1, <1>4, <2>2, <2>3, <2>4, <2>5, <2>6 DEF TypeOK
  <1>8. AllLinesFit
    <2> SUFFICES ASSUME NEW i \in 1 .. Len(Targets)
                 PROVE  LineFits(lines[i], Targets[i])
      BY DEF AllLinesFit
    <2>1. lines[i] = NotTried /\ Targets[i] \in DOMAIN MaxMessage
      BY PipelineAssumption DEF Init
    <2> QED BY <2>1, NothingFits
  <1>9. BunyanKept
    BY DEF Init, BunyanKept
  <1> QED BY <1>5, <1>7, <1>8, <1>9 DEF RecordInv

\* Changing the record only, while the request stays, keeps the client's data.
LEMMA KeptSame ==
  ASSUME Kept(heap), input' = input, \A o \in Objects : heap'[o] = heap[o]
  PROVE  Kept(heap)'
  BY RecordsAssumption DEF Kept

\* The parts of TypeOK that are about the loop and the lines.
LoopOK ==
  /\ input \in Inputs
  /\ dest \in 1 .. Len(Targets) + 1
  /\ pc \in {"copy", "add", "truncate", "write", "done"}
  /\ pc = "done" <=> dest = Len(Targets) + 1
  /\ next \in Nat
  /\ pc = "add" => next \in 1 .. Len(Adds) + 1
  /\ rounds \in 0 .. MaxTruncateIterations
LinesOK ==
  lines \in [1 .. Len(Targets) ->
               [kind : {"untried", "skipped", "record", "essential", "marker", "cut", "text",
                        "gelf"}, len : Nat]]

LEMMA TypeParts ==
  /\ TypeOK <=> LoopOK /\ LinesOK /\ IsHeap(heap) /\ IsHeap(merged)
  /\ TypeOK' <=> LoopOK' /\ LinesOK' /\ IsHeap(heap') /\ IsHeap(merged')
  <1>1. TypeOK <=> LoopOK /\ LinesOK /\ IsHeap(heap) /\ IsHeap(merged)
    BY DEF TypeOK, LoopOK, LinesOK
  <1>2. TypeOK' <=> LoopOK' /\ LinesOK' /\ IsHeap(heap') /\ IsHeap(merged')
    BY DEF TypeOK, LoopOK, LinesOK
  <1> QED BY <1>1, <1>2

\* A destination that was tried is behind.
LEMMA MovesOn ==
  ASSUME TypeOK, pc # "done", MoveOn, UNCHANGED <<input, next, rounds>>
  PROVE  LoopOK'
  <1>1. dest \in 1 .. Len(Targets) /\ Len(Targets) \in Nat
    BY AtDestination, InputFacts
  <1>2. /\ dest' \in 1 .. Len(Targets) + 1
        /\ pc' \in {"copy", "done"}
        /\ pc' = "done" <=> dest' = Len(Targets) + 1
    BY <1>1 DEF MoveOn
  <1>3. pc' # "add"
    BY <1>2
  <1> QED BY <1>2, <1>3, TypeParts DEF LoopOK

\* A line that fits is added to lines that fit.
LEMMA LineAdded ==
  ASSUME TypeOK, AllLinesFit, pc # "done",
         NEW line \in [kind : WrittenKinds \cup {"skipped"}, len : Nat],
         LineFits(line, Targets[dest]), lines' = [lines EXCEPT ![dest] = line]
  PROVE  LinesOK' /\ AllLinesFit'
  <1>1. dest \in 1 .. Len(Targets)
    BY AtDestination
  <1>2. LinesOK
    BY TypeParts
  <1>3. LinesOK'
    BY <1>1, <1>2 DEF LinesOK, WrittenKinds
  <1>4. \A i \in 1 .. Len(Targets) : lines'[i] = IF i = dest THEN line ELSE lines[i]
    BY <1>1, <1>2 DEF LinesOK
  <1>5. AllLinesFit'
    BY <1>4 DEF AllLinesFit, LineFits
  <1> QED BY <1>3, <1>5

LEMMA StartRecordStep ==
  ASSUME RecordInv, StartRecord
  PROVE  RecordInv'
  <1>1. TypeOK /\ LoopOK /\ LinesOK /\ IsHeap(heap) /\ IsHeap(merged)
    BY TypeParts DEF RecordInv
  <1>2. IsHeap(heap') /\ \A o \in Objects : heap'[o] = heap[o]
    <2>1. heap' = PutRecord(heap, BaseRecord)
      BY DEF StartRecord, PutRecord, FreshCopy
    <2> QED BY <1>1, <2>1, EnrichmentAssumption, SetRecord
  <1>3. Kept(heap)'
    BY <1>2, KeptSame DEF RecordInv, StartRecord
  <1>4. LoopOK'
    <2>1. dest \in 1 .. Len(Targets)
      BY <1>1, AtDestination DEF StartRecord
    <2>2. Len(Adds) \in Nat
      BY <1>1, <2>1, InputFacts
    <2>3. Adds' = Adds
      BY DEF Adds, StartRecord
    <2>4. 1 \in 1 .. Len(Adds) + 1
      BY <2>2
    <2> QED BY <1>1, <2>1, <2>3, <2>4 DEF LoopOK, StartRecord
  <1>5. LinesOK' /\ AllLinesFit' /\ IsHeap(merged')
    BY <1>1 DEF LinesOK, AllLinesFit, LineFits, RecordInv, StartRecord
  <1>6. BunyanKept'
    <2>1. heap'[Root] = BaseRecord
      BY <1>1, HeapFields DEF StartRecord, FreshCopy
    <2>2. NumericLevel(BaseRecord)
      BY EnrichmentAssumption DEF NumericLevel
    <2> QED BY <2>1, <2>2 DEF BunyanKept, StartRecord, NumericLevel
  <1> QED BY <1>2, <1>3, <1>4, <1>5, <1>6, TypeParts DEF RecordInv

LEMMA MakeAdditionStep ==
  ASSUME RecordInv, MakeAddition
  PROVE  RecordInv'
  <1>1. TypeOK /\ LoopOK /\ LinesOK /\ IsHeap(heap) /\ IsHeap(merged)
    BY TypeParts DEF RecordInv
  <1>2. dest \in 1 .. Len(Targets) /\ Adds \in Seq(Addition) /\ next \in 1 .. Len(Adds)
    <2>1. dest \in 1 .. Len(Targets) /\ Adds \in Seq(Addition)
      BY <1>1, AtDestination, InputFacts DEF MakeAddition
    <2>2. next \in 1 .. Len(Adds) + 1
      BY <1>1 DEF LoopOK, MakeAddition
    <2> QED BY <2>1, <2>2 DEF MakeAddition
  <1>3. IsHeap(heap') /\ \A o \in Objects : heap'[o] = heap[o]
    <2>1. Adds[next] \in Addition
      BY <1>2
    <2>2. IsFields(heap[Root])
      BY <1>1, HeapFields
    <2>3. IsFields(Apply(heap, heap[Root], Adds[next]))
      BY <1>1, <2>1, <2>2, DataFields, ApplyFields DEF MakeAddition
    <2>4. heap' = PutRecord(heap, Apply(heap, heap[Root], Adds[next]))
      BY DEF MakeAddition, PutRecord
    <2> QED BY <1>1, <2>3, <2>4, SetRecord
  <1>4. Kept(heap)'
    BY <1>3, KeptSame DEF RecordInv, MakeAddition
  <1>5. LoopOK'
    <2>1. Adds' = Adds
      BY DEF Adds, MakeAddition
    <2>2. next + 1 \in 1 .. Len(Adds) + 1 /\ next + 1 \in Nat
      BY <1>2
    <2> QED BY <1>1, <2>1, <2>2 DEF LoopOK, MakeAddition
  <1>6. LinesOK' /\ AllLinesFit' /\ IsHeap(merged')
    BY <1>1 DEF LinesOK, AllLinesFit, LineFits, RecordInv, MakeAddition
  <1>7. BunyanKept'
    <2>1. heap'[Root] = Apply(heap, heap[Root], Adds[next])
      BY <1>1, HeapFields DEF MakeAddition
    <2>2. NumericLevel(heap[Root])
      BY DEF RecordInv, BunyanKept, MakeAddition
    <2>3. NumericLevel(heap'[Root])
      BY <2>1, <2>2, ApplyLevel
    <2> QED BY <2>3 DEF BunyanKept, MakeAddition, NumericLevel
  <1> QED BY <1>3, <1>4, <1>5, <1>6, <1>7, TypeParts DEF RecordInv

LEMMA EnrichFailsStep ==
  ASSUME RecordInv, EnrichFails
  PROVE  RecordInv'
  <1> USE DEF EnrichFails
  <1>1. TypeOK /\ LoopOK /\ LinesOK /\ IsHeap(heap) /\ IsHeap(merged)
    BY TypeParts DEF RecordInv
  <1>2. LoopOK'
    BY <1>1, MovesOn
  <1>3. LinesOK' /\ AllLinesFit'
    <2>1. Targets[dest] \in DOMAIN MaxMessage
      BY <1>1, AtDestination
    <2>2. Skipped \in [kind : WrittenKinds \cup {"skipped"}, len : Nat]
      BY DEF Skipped, Output
    <2> QED BY <1>1, <2>1, <2>2, NothingFits, LineAdded DEF RecordInv
  <1>4. Kept(heap)' /\ IsHeap(heap') /\ IsHeap(merged')
    BY <1>1, KeptSame DEF RecordInv
  <1>5. BunyanKept'
    BY DEF BunyanKept, MoveOn
  <1> QED BY <1>2, <1>3, <1>4, <1>5, TypeParts DEF RecordInv

LEMMA MergeRecordStep ==
  ASSUME RecordInv, MergeRecord
  PROVE  RecordInv'
  <1>1. TypeOK /\ LoopOK /\ LinesOK /\ IsHeap(heap) /\ IsHeap(merged)
    BY TypeParts DEF RecordInv
  <1>2. /\ IsFields(Merge(heap, heap[Root])) /\ BunyanShape(Merge(heap, heap[Root]))
        /\ LevelFrom(input.sent[Client], Merge(heap, heap[Root]))
        /\ Merge(heap, heap[Root])["time"] = ServerTime
    <2>1. IsFields(heap[Root]) /\ NumericLevel(heap[Root])
      BY <1>1, HeapFields DEF RecordInv, BunyanKept, MergeRecord
    <2>2. heap[Client] = input.sent[Client]
      BY DEF RecordInv, Kept
    <2> QED BY <1>1, <2>1, <2>2, MergeFields
  <1>3. /\ IsHeap(heap') /\ heap'[Root] = Merge(heap, heap[Root])
        /\ \A o \in Objects : heap'[o] = heap[o]
    <2>1. heap' = PutRecord(heap, Merge(heap, heap[Root]))
      BY DEF MergeRecord, PutRecord
    <2> QED BY <1>1, <1>2, <2>1, SetRecord
  <1>4. Kept(heap)'
    BY <1>3, KeptSame DEF RecordInv, MergeRecord
  <1>5. LoopOK'
    BY <1>1, RoundsAssumption DEF LoopOK, MergeRecord
  <1>6. LinesOK' /\ AllLinesFit' /\ IsHeap(merged')
    BY <1>1, <1>3 DEF LinesOK, AllLinesFit, LineFits, RecordInv, MergeRecord
  <1>7. BunyanKept'
    BY <1>2, <1>3 DEF BunyanKept, BunyanShape, LevelFrom, MergeRecord
  <1> QED BY <1>3, <1>4, <1>5, <1>6, <1>7, TypeParts DEF RecordInv

LEMMA CutStringStep ==
  ASSUME RecordInv, CutString
  PROVE  RecordInv'
  <1> USE DEF CutString
  <1>1. TypeOK /\ LoopOK /\ LinesOK /\ IsHeap(heap) /\ IsHeap(merged)
    BY TypeParts DEF RecordInv
  <1>2. PICK e \in Candidates(heap) : \E f \in WrittenTo(heap, e) : heap' = WriteCut(heap, e, f)
    OBVIOUS
  <1>3. PICK f \in WrittenTo(heap, e) : heap' = WriteCut(heap, e, f)
    BY <1>2
  <1>4. /\ e \in Truncatable(heap) /\ f = <<e[1], f[2]>>
        /\ e[1] = Root => f = e
        /\ IsHeap(heap')
        /\ \A o \in Objects \cup {Root} :
              /\ DOMAIN heap'[o] = DOMAIN heap[o]
              /\ \A k \in DOMAIN heap[o] :
                    heap'[o][k] = IF <<o, k>> = f THEN Cut(ValueAt(heap, e)) ELSE heap[o][k]
    BY <1>1, <1>3, CutFacts
  <1>5. /\ e = <<e[1], e[2]>> /\ e[1] \in Places
        /\ IsStr(ValueAt(heap, e)) /\ ValueAt(heap, e) \in Value
        /\ ValueAt(heap, e) = heap[e[1]][e[2]]
    BY <1>1, <1>4, TruncatableFacts
  <1>6. /\ ~IsObj(Cut(ValueAt(heap, e))) /\ Cut(ValueAt(heap, e)).of = ValueAt(heap, e).of
    BY DEF Cut, Text, IsObj
  <1>7. Kept(heap)'
    <2>1. e[1] # Client /\ f[1] = e[1]
      BY <1>4, <1>5, RecordsAssumption DEF Places
    <2>2. \A k : <<Client, k>> # f
      BY <2>1
    <2>3. heap'[Client] = heap[Client]
      <3>1. IsFields(heap[Client]) /\ IsFields(heap'[Client])
        BY <1>1, <1>4, HeapFields, RecordsAssumption
      <3>2. \A k \in DOMAIN heap[Client] : heap'[Client][k] = heap[Client][k]
        BY <1>4, <2>2, RecordsAssumption
      <3>3. DOMAIN heap'[Client] = DOMAIN heap[Client]
        BY <1>4, RecordsAssumption
      <3> QED BY <3>1, <3>2, <3>3 DEF IsFields
    <2>4. ASSUME NEW o \in Objects
          PROVE  /\ DOMAIN heap'[o] = DOMAIN heap[o]
                 /\ \A k \in DOMAIN heap[o] : IsObj(heap'[o][k]) => heap'[o][k] = heap[o][k]
      BY <1>4, <1>6
    <2> QED BY <2>3, <2>4 DEF RecordInv, Kept
  <1>8. LoopOK'
    <2>1. rounds + 1 \in 0 .. MaxTruncateIterations
      BY <1>1, RoundsAssumption DEF LoopOK, MoreRounds
    <2> QED BY <1>1, <2>1 DEF LoopOK
  <1>9. LinesOK' /\ AllLinesFit' /\ IsHeap(merged')
    BY <1>1 DEF LinesOK, AllLinesFit, LineFits, RecordInv
  <1>10. BunyanKept'
    <2>1. /\ BunyanShape(heap[Root]) /\ LevelFrom(input.sent[Client], heap[Root])
          /\ heap[Root]["time"].of = ServerTime.of
      BY DEF RecordInv, BunyanKept
    <2>2. DOMAIN heap'[Root] = DOMAIN heap[Root]
      BY <1>4
    <2>3. ASSUME NEW k \in DOMAIN heap[Root]
          PROVE  \/ heap'[Root][k] = heap[Root][k]
                 \/ /\ IsStr(heap[Root][k]) /\ heap'[Root][k] = Cut(heap[Root][k])
      <3>1. CASE <<Root, k>> = f
        <4>1. e = <<Root, k>>
          BY <1>4, <3>1
        <4> QED BY <1>4, <1>5, <3>1, <4>1
      <3>2. CASE <<Root, k>> # f
        BY <1>4, <3>2
      <3> QED BY <3>1, <3>2
    <2>4. \A v : Cut(v).of = v.of /\ Cut(v).kind = "str"
      BY DEF Cut, Text
    <2>5. {"v", "level", "pid", "time"} \subseteq DOMAIN heap[Root]
      BY <2>1 DEF BunyanShape, BunyanNames
    <2>6. heap'[Root]["time"].of = ServerTime.of
      BY <2>1, <2>3, <2>4, <2>5
    <2>7. LevelFrom(input.sent[Client], heap'[Root])
      <3>1. ~IsStr(heap[Root]["level"])
        BY <2>1 DEF LevelFrom, IsStr
      <3>2. heap'[Root]["level"] = heap[Root]["level"]
        BY <2>3, <2>5, <3>1
      <3> QED BY <2>1, <3>2 DEF LevelFrom
    <2>8. heap'[Root]["v"].kind # "float" /\ heap'[Root]["pid"].kind # "float"
      BY <2>1, <2>3, <2>4, <2>5 DEF BunyanShape
    <2> QED BY <2>1, <2>2, <2>6, <2>7, <2>8 DEF BunyanKept, BunyanShape, LevelFrom
  <1> QED BY <1>4, <1>7, <1>8, <1>9, <1>10, TypeParts DEF RecordInv

LEMMA EndTruncationStep ==
  ASSUME RecordInv, EndTruncation
  PROVE  RecordInv'
  <1> USE DEF EndTruncation
  <1>1. TypeOK /\ LoopOK /\ LinesOK /\ IsHeap(heap) /\ IsHeap(merged)
    BY TypeParts DEF RecordInv
  <1>2. LoopOK' /\ LinesOK' /\ IsHeap(heap') /\ IsHeap(merged')
    BY <1>1 DEF LoopOK, LinesOK
  <1>3. Kept(heap)' /\ AllLinesFit'
    BY KeptSame DEF RecordInv, AllLinesFit, LineFits
  <1>4. BunyanKept'
    BY DEF RecordInv, BunyanKept, BunyanShape, LevelFrom
  <1> QED BY <1>2, <1>3, <1>4, TypeParts DEF RecordInv

LEMMA LogRecordStep ==
  ASSUME RecordInv, LogRecord
  PROVE  RecordInv'
  <1> USE DEF LogRecord
  <1>1. TypeOK /\ LoopOK /\ LinesOK /\ IsHeap(heap) /\ IsHeap(merged)
    BY TypeParts DEF RecordInv
  <1>2. LoopOK'
    BY <1>1, MovesOn
  <1>3. LinesOK' /\ AllLinesFit'
    <2>1. PICK line \in Written(heap, Targets[dest]) : lines' = [lines EXCEPT ![dest] = line]
      OBVIOUS
    <2>2. Targets[dest] \in DOMAIN MaxMessage
      BY <1>1, AtDestination
    <2>3. line \in [kind : WrittenKinds, len : Nat] /\ LineFits(line, Targets[dest])
      BY <1>1, <2>1, <2>2, WrittenFits
    <2>4. line \in [kind : WrittenKinds \cup {"skipped"}, len : Nat]
      BY <2>3
    <2> QED BY <1>1, <2>1, <2>3, <2>4, LineAdded DEF RecordInv
  <1>4. Kept(heap)' /\ IsHeap(heap') /\ IsHeap(merged')
    BY <1>1, KeptSame DEF RecordInv
  <1>5. BunyanKept'
    BY DEF BunyanKept, MoveOn
  <1> QED BY <1>2, <1>3, <1>4, <1>5, TypeParts DEF RecordInv

LEMMA RecordIdle ==
  ASSUME RecordInv, UNCHANGED vars
  PROVE  RecordInv'
  <1> USE DEF vars
  <1>1. LoopOK /\ LinesOK /\ IsHeap(heap) /\ IsHeap(merged)
    BY TypeParts DEF RecordInv
  <1>2. Adds' = Adds
    BY DEF Adds
  <1>3. LoopOK' /\ LinesOK' /\ IsHeap(heap') /\ IsHeap(merged')
    BY <1>1, <1>2 DEF LoopOK, LinesOK
  <1>4. Kept(heap)' /\ AllLinesFit' /\ BunyanKept'
    BY KeptSame DEF RecordInv, AllLinesFit, LineFits, BunyanKept, BunyanShape,
                     NumericLevel, LevelFrom
  <1> QED BY <1>3, <1>4, TypeParts DEF RecordInv

LEMMA RecordStep == RecordInv /\ [Next]_vars => RecordInv'
  <1> SUFFICES ASSUME RecordInv, [Next]_vars PROVE RecordInv'
    OBVIOUS
  <1> QED BY StartRecordStep, MakeAdditionStep, EnrichFailsStep, MergeRecordStep, CutStringStep,
             EndTruncationStep, LogRecordStep, RecordIdle DEF Next

THEOREM RecordInvariance == Spec => []RecordInv
  BY RecordInit, RecordStep, PTL DEF Spec

(* Whatever the client sends and the additions are, the record stays a map of
   well-formed values, its heap one whose objects are all there, and the loop
   within its destinations, additions and rounds. *)
THEOREM RecordTypeCorrect == Spec => []TypeOK
  <1>1. RecordInv => TypeOK
    BY DEF RecordInv
  <1> QED BY <1>1, RecordInvariance, PTL

(* Every record handed to a destination has all the fields that Bunyan requires,
   the server's time, and a level that is an integer or what the client sent,
   if that is neither number nor string (enricher.go:128-133, 225-274). *)
THEOREM BunyanFieldsHold == Spec => []BunyanFields
  <1>1. RecordInv => BunyanFields
    BY DEF RecordInv, BunyanKept, BunyanFields, BunyanShape, BunyanNames, LevelFrom
  <1> QED BY <1>1, RecordInvariance, PTL

(* For any limit, a line of a file is no longer than the limit, and the short
   and full texts of a GELF message leave GelfOverhead bytes of it to the rest.
   The rest, in which the additional fields are, is not counted: a whole message
   may be longer than its limit (file_logger.go:138-149, 295-352;
   gelf_logger.go:119-163). *)
THEOREM OutputFitsHolds == Spec => []OutputFits
  <1>1. RecordInv => OutputFits
    <2> SUFFICES ASSUME RecordInv PROVE OutputFits
      OBVIOUS
    <2>1. DOMAIN lines = 1 .. Len(Targets)
      BY TypeParts DEF RecordInv, LinesOK
    <2> QED BY <2>1 DEF RecordInv, AllLinesFit, LineFits, OutputFits, FileLinesFit
  <1> QED BY <1>1, RecordInvariance, PTL

(* No destination that the loop has passed was left out: each got a line or was
   skipped, and when the loop is done, all were.  That it is done some day
   is EveryDestinationTried, which is liveness. *)
TriedInOrder == \A i \in 1 .. dest - 1 : lines[i] # NotTried
DoneMeansTried == pc = "done" => \A i \in DOMAIN lines : lines[i] # NotTried

LEMMA TriedMoves ==
  ASSUME TypeOK, TriedInOrder, pc # "done", MoveOn, NEW line, line # NotTried,
         lines' = [lines EXCEPT ![dest] = line]
  PROVE  TriedInOrder'
  <1>1. dest \in 1 .. Len(Targets) /\ DOMAIN lines = 1 .. Len(Targets) /\ Len(Targets) \in Nat
    BY AtDestination, TypeParts, InputFacts DEF LinesOK
  <1>2. dest' - 1 = dest
    BY <1>1 DEF MoveOn
  <1>3. \A i \in 1 .. dest : lines'[i] = IF i = dest THEN line ELSE lines[i]
    BY <1>1
  <1>4. \A i \in 1 .. dest : i = dest \/ i \in 1 .. dest - 1
    BY <1>1
  <1> QED BY <1>2, <1>3, <1>4 DEF TriedInOrder

\* The loop leaves out no destination, whichever additions fail before it
\* (common_log.go:57-118).
THEOREM DoneMeansTriedHolds == Spec => []DoneMeansTried
  <1>1. Init => TriedInOrder
    BY DEF Init, TriedInOrder
  <1>2. RecordInv /\ TriedInOrder /\ [Next]_vars => TriedInOrder'
    <2> SUFFICES ASSUME RecordInv, TriedInOrder, [Next]_vars PROVE TriedInOrder'
      OBVIOUS
    <2>1. TypeOK
      BY DEF RecordInv
    <2>2. CASE EnrichFails
      <3>1. Skipped # NotTried
        BY DEF Skipped, NotTried, Output
      <3> QED BY <2>1, <2>2, <3>1, TriedMoves DEF EnrichFails
    <2>3. CASE LogRecord
      <3>1. PICK line \in Written(heap, Targets[dest]) : lines' = [lines EXCEPT ![dest] = line]
        BY <2>3 DEF LogRecord
      <3>2. IsHeap(heap) /\ Targets[dest] \in DOMAIN MaxMessage
        BY <2>1, <2>3, AtDestination, TypeParts DEF LogRecord
      <3>3. line.kind \in WrittenKinds
        BY <3>1, <3>2, WrittenFits
      <3>4. line # NotTried
        BY <3>3 DEF WrittenKinds, NotTried, Output
      <3> QED BY <2>1, <2>3, <3>1, <3>4, TriedMoves DEF LogRecord
    <2>4. CASE UNCHANGED <<dest, lines>>
      BY <2>4 DEF TriedInOrder
    <2> QED BY <2>2, <2>3, <2>4
         DEF Next, vars, StartRecord, MakeAddition, MergeRecord, CutString, EndTruncation
  <1>3. RecordInv /\ TriedInOrder => DoneMeansTried
    <2> SUFFICES ASSUME RecordInv, TriedInOrder, pc = "done" PROVE DoneMeansTried
      BY DEF DoneMeansTried
    <2>1. /\ dest = Len(Targets) + 1 /\ DOMAIN lines = 1 .. Len(Targets)
          /\ Len(Targets) \in Nat
      BY TypeParts, InputFacts DEF RecordInv, LoopOK, LinesOK
    <2> QED BY <2>1 DEF TriedInOrder, DoneMeansTried
  <1> QED BY <1>1, <1>2, <1>3, RecordInvariance, PTL DEF Spec

-----------------------------------------------------------------------------
(* The order of the sources *)

\* The value of field k, or NoValue.
At(record, k) == IF k \in DOMAIN record THEN record[k] ELSE NoValue

\* Additions that take their value from inside a nested map.
Inside(add) == add.source = "post" /\ Len(add.path) > 1

\* The field that an addition says something about gets this.
SaidBy(add) ==
  LET v == Found(input.sent, add)
  IN  IF add.source = "remove" THEN NoValue
      ELSE IF add.name = "level" THEN AsNumber(v) ELSE v

\* Addition i is the last of the first n that says something about field k.
LastSpeaker(n, k, i) ==
  /\ i \in 1 .. n
  /\ Speaks(input.sent, Adds[i], k)
  /\ \A j \in 1 .. n : Speaks(input.sent, Adds[j], k) => j <= i

(* After n additions a field is what the last one to speak made of it, and the
   base record's if none has. *)
Precedence(record, n, k) ==
  /\ (\A j \in 1 .. n : ~Speaks(input.sent, Adds[j], k)) => At(record, k) = At(BaseRecord, k)
  /\ \A i \in 1 .. n :
        LastSpeaker(n, k, i) /\ ~Inside(Adds[i]) => At(record, k) = SaidBy(Adds[i])

OrderInv ==
  /\ pc = "add" => \A k \in Keys : Precedence(heap[Root], next - 1, k)
  /\ SourcesInOrder

\* What is not found among the data as it was sent is not found in what is left.
LEMMA FoundKept ==
  ASSUME TypeOK, Kept(heap), NEW add \in Addition
  PROVE  /\ Found(heap, add) # NoValue => Found(input.sent, add) # NoValue
         /\ ~Inside(add) => Found(heap, add) = Found(input.sent, add)
  <1>1. HasData(heap) /\ HasData(input.sent)
    BY InputFacts, DataFields DEF TypeOK
  <1>2. CASE add.source # "post"
    BY <1>2 DEF Found
  <1>3. CASE add.source = "post"
    <2> PICK path \in Seq(Keys) : path = add.path
      BY DEF Addition
    <2> PICK s : s = input.sent
      OBVIOUS
    <2> PICK h : h = heap
      OBVIOUS
    <2>1. path # <<>> /\ Len(path) \in Nat /\ Len(path) \in 1 .. Len(path)
      BY <1>3 DEF Addition
    <2>2. Found(heap, add) = Walk(h, path)[Len(path)]
          /\ Found(input.sent, add) = Walk(s, path)[Len(path)]
      BY <1>3 DEF Found, PostValue
    <2>3. /\ Walk(h, path)[0] = Obj(Client) /\ Walk(s, path)[0] = Obj(Client)
          /\ \A n \in 1 .. Len(path) :
                /\ Walk(h, path)[n] = FieldOf(h, Walk(h, path)[n - 1], path[n])
                /\ Walk(s, path)[n] = FieldOf(s, Walk(s, path)[n - 1], path[n])
          /\ \A n \in 0 .. Len(path) : Walk(h, path)[n] \in OnPath
      BY <1>1, WalkRecursion
    <2> DEFINE Near(n) == /\ Walk(h, path)[n] # NoValue => Walk(s, path)[n] # NoValue
                          /\ IsObj(Walk(h, path)[n]) => Walk(s, path)[n] = Walk(h, path)[n]
               Good == {n \in 0 .. Len(path) : Near(n)}
    <2>4. 0 \in Good
      BY <2>1, <2>3
    <2>5. ASSUME NEW n \in 1 .. Len(path), n - 1 \in Good
          PROVE  n \in Good
      <3>1. CASE ~IsObj(Walk(h, path)[n - 1])
        <4>1. Walk(h, path)[n] = NoValue
          BY <2>3, <3>1 DEF FieldOf
        <4>2. ~IsObj(NoValue)
          BY DEF IsObj, NoValue
        <4> QED BY <4>1, <4>2
      <3>2. CASE IsObj(Walk(h, path)[n - 1])
        <4> PICK o : o = Walk(h, path)[n - 1].of
          OBVIOUS
        <4>1. o \in Objects
          BY <1>1, <2>3, <2>5, <3>2, FieldOfType
        <4>2. /\ Walk(h, path)[n] = IF path[n] \in DOMAIN h[o] THEN h[o][path[n]] ELSE NoValue
              /\ Walk(s, path)[n] = IF path[n] \in DOMAIN s[o] THEN s[o][path[n]] ELSE NoValue
          BY <2>3, <2>5, <3>2 DEF FieldOf
        <4>3. /\ DOMAIN h[o] = DOMAIN s[o]
              /\ \A k \in DOMAIN h[o] : IsObj(h[o][k]) => h[o][k] = s[o][k]
          BY <4>1 DEF Kept
        <4>4. \A k \in DOMAIN s[o] : s[o][k] # NoValue
          BY <1>1, <4>1, FieldsOf, ValueFacts DEF HasData
        <4>5. ~IsObj(NoValue)
          BY DEF IsObj, NoValue
        <4>6. CASE path[n] \in DOMAIN h[o]
          <5>1. Walk(h, path)[n] = h[o][path[n]] /\ Walk(s, path)[n] = s[o][path[n]]
            BY <4>2, <4>3, <4>6
          <5> QED BY <4>3, <4>4, <4>6, <5>1
        <4>7. CASE path[n] \notin DOMAIN h[o]
          <5>1. Walk(h, path)[n] = NoValue
            BY <4>2, <4>7
          <5> QED BY <4>5, <5>1
        <4> HIDE DEF Good
        <4> QED BY <4>6, <4>7
      <3> HIDE DEF Good
      <3> QED BY <3>1, <3>2
    <2>6. Near(Len(path))
      <3> HIDE DEF Good, Near
      <3>1. \A n \in 0 .. Len(path) : n \in Good
        BY <2>1, <2>4, <2>5, UpTo
      <3>2. Len(path) \in 0 .. Len(path)
        BY <2>1
      <3> QED BY <3>1, <3>2 DEF Good
    <2>7. ASSUME ~Inside(add)
          PROVE  Walk(h, path)[Len(path)] = Walk(s, path)[Len(path)]
      <3>0. ~ (Len(path) > 1)
        BY <1>3, <2>7 DEF Inside
      <3>1. Len(path) = 1
        <4>1. \A n \in Nat : n \in 1 .. n /\ ~ (n > 1) => n = 1
          OBVIOUS
        <4> HIDE DEF Near, Good
        <4> QED BY <2>1, <3>0, <4>1
      <3>2. /\ Walk(h, path)[1] = FieldOf(h, Obj(Client), path[1])
            /\ Walk(s, path)[1] = FieldOf(s, Obj(Client), path[1])
        BY <2>3, <3>1
      <3>3. h[Client] = s[Client]
        BY DEF Kept
      <3> QED BY <3>1, <3>2, <3>3 DEF FieldOf, Obj
    <2> QED BY <2>2, <2>6, <2>7
  <1> QED BY <1>2, <1>3

\* What an addition does to a field.
LEMMA ApplyAt ==
  ASSUME NEW h, NEW record, IsFields(record), NEW add, NEW k, HasData(h), add \in Addition
  PROVE  /\ k # add.name => At(Apply(h, record, add), k) = At(record, k)
         /\ add.source = "remove" => At(Apply(h, record, add), add.name) = NoValue
         /\ add.source # "remove" /\ Found(h, add) = NoValue => Apply(h, record, add) = record
         /\ add.source # "remove" /\ Found(h, add) # NoValue =>
              At(Apply(h, record, add), add.name) =
                IF add.name = "level" THEN AsNumber(Found(h, add)) ELSE Found(h, add)
  BY DEF Apply, At, With, Restrict

LEMMA AdditionInOrder ==
  ASSUME RecordInv, OrderInv, MakeAddition, NEW k \in Keys
  PROVE  Precedence(heap'[Root], next, k)
  <1> PICK add : add = Adds[next]
    OBVIOUS
  <1> PICK record : record = heap[Root]
    OBVIOUS
  <1> PICK new : new = Apply(heap, record, add)
    OBVIOUS
  <1>1. TypeOK /\ Kept(heap) /\ IsHeap(heap) /\ LoopOK
    BY TypeParts DEF RecordInv
  <1>2. /\ Adds \in Seq(Addition) /\ next \in 1 .. Len(Adds) /\ pc = "add"
        /\ ~Fails(heap, add)
    <2>1. Adds \in Seq(Addition)
      BY <1>1, AtDestination, InputFacts DEF MakeAddition
    <2>2. next \in 1 .. Len(Adds) + 1 /\ next <= Len(Adds) /\ pc = "add"
      BY <1>1 DEF LoopOK, MakeAddition
    <2> QED BY <2>1, <2>2 DEF MakeAddition
  <1>3. add \in Addition /\ HasData(heap) /\ IsFields(record)
    BY <1>1, <1>2, DataFields, HeapFields
  <1>4. heap'[Root] = new
    <2>1. heap' = [heap EXCEPT ![Root] = new]
      BY DEF MakeAddition
    <2> QED BY <1>1, <2>1, HeapFields
  <1>5. Precedence(record, next - 1, k)
    BY <1>2 DEF OrderInv
  <1>6. \A i : i \in 1 .. next <=> i \in 1 .. next - 1 \/ i = next
    BY <1>2
  <1>7. CASE ~Speaks(input.sent, add, k)
    <2>1. At(new, k) = At(record, k)
      <3>1. CASE k # add.name
        BY <1>3, <3>1, ApplyAt
      <3>2. CASE k = add.name
        <4>1. add.source # "remove" /\ Found(input.sent, add) = NoValue
          BY <1>7, <3>2 DEF Speaks
        <4>2. Found(heap, add) = NoValue
          BY <1>1, <1>3, <4>1, FoundKept
        <4> QED BY <1>3, <4>1, <4>2, ApplyAt
      <3> QED BY <3>1, <3>2
    <2>2. \A i \in 1 .. next : LastSpeaker(next, k, i) => i \in 1 .. next - 1
                                                         /\ LastSpeaker(next - 1, k, i)
      BY <1>6, <1>7 DEF LastSpeaker
    <2>3. (\A j \in 1 .. next : ~Speaks(input.sent, Adds[j], k)) =>
             \A j \in 1 .. next - 1 : ~Speaks(input.sent, Adds[j], k)
      BY <1>6
    <2> QED BY <1>4, <1>5, <2>1, <2>2, <2>3 DEF Precedence
  <1>8. CASE Speaks(input.sent, add, k)
    <2>1. \A i \in 1 .. next : LastSpeaker(next, k, i) => i = next
      <3> SUFFICES ASSUME NEW i \in 1 .. next, LastSpeaker(next, k, i) PROVE i = next
        OBVIOUS
      <3>1. next \in 1 .. next
        BY <1>2
      <3>2. next <= i
        BY <1>8, <3>1 DEF LastSpeaker
      <3> QED BY <1>2, <3>2
    <2>2. k = add.name /\ (add.source # "remove" => Found(input.sent, add) # NoValue)
      BY <1>8 DEF Speaks
    <2>3. ASSUME ~Inside(add)
          PROVE  At(new, k) = SaidBy(add)
      <3>1. CASE add.source = "remove"
        BY <1>3, <2>2, <3>1, ApplyAt DEF SaidBy
      <3>2. CASE add.source # "remove"
        <4>1. Found(heap, add) = Found(input.sent, add) /\ Found(heap, add) # NoValue
          BY <1>1, <1>3, <2>2, <2>3, <3>2, FoundKept
        <4> QED BY <1>3, <2>2, <3>2, <4>1, ApplyAt DEF SaidBy
      <3> QED BY <3>1, <3>2
    <2>4. ~ \A j \in 1 .. next : ~Speaks(input.sent, Adds[j], k)
      BY <1>2, <1>6, <1>8
    <2> QED BY <1>4, <2>1, <2>3, <2>4 DEF Precedence
  <1> QED BY <1>7, <1>8

LEMMA Greatest ==
  ASSUME NEW N \in Nat, NEW K \in SUBSET (1 .. N), K # {}
  PROVE  \E k \in K : \A j \in K : j <= k
  <1> DEFINE L == {N - k : k \in K}
  <1>1. L \subseteq Nat /\ L # {}
    <2>1. \A k \in K : N - k \in Nat /\ N - k \in L
      OBVIOUS
    <2> QED BY <2>1
  <1>2. PICK l \in L : \A m \in L : l <= m
    <2> HIDE DEF L
    <2> QED BY <1>1, Least
  <1>3. PICK k \in K : l = N - k
    BY <1>2
  <1>4. \A j \in K : N - k <= N - j
    BY <1>2, <1>3
  <1>5. \A j \in K : j <= k
    BY <1>4
  <1> QED BY <1>5

\* Completing two records gives them the same field if they agree on it.
LEMMA EnsureAgrees ==
  ASSUME NEW r, NEW q, NEW k,
         \A x \in DOMAIN r : r[x] # NoValue, \A x \in DOMAIN q : q[x] # NoValue,
         At(r, k) = At(q, k)
  PROVE  /\ k \in DOMAIN EnsureBunyanFields(r) <=> k \in DOMAIN EnsureBunyanFields(q)
         /\ k \in DOMAIN EnsureBunyanFields(q) =>
              EnsureBunyanFields(r)[k] = EnsureBunyanFields(q)[k]
  <1> DEFINE value(v) == CASE k = "level"                             -> EnsuredLevel(v)
                           [] k \in {"v", "pid"} /\ v.kind = "float" -> ToInt(v)
                           [] OTHER                                  -> v
  <1>1. ASSUME NEW f
        PROVE  /\ DOMAIN EnsureBunyanFields(f) = DOMAIN f \cup DOMAIN BunyanDefaults
               /\ k \in DOMAIN f \cup DOMAIN BunyanDefaults =>
                    EnsureBunyanFields(f)[k] = value(IF k \in DOMAIN f THEN f[k]
                                                     ELSE BunyanDefaults[k])
    BY DEF EnsureBunyanFields, Over
  <1>2. \/ k \in DOMAIN r /\ k \in DOMAIN q /\ r[k] = q[k]
        \/ k \notin DOMAIN r /\ k \notin DOMAIN q
    BY DEF At
  <1>3. CASE k \in DOMAIN r /\ k \in DOMAIN q
    <2>1. value(r[k]) = value(q[k])
      BY <1>2, <1>3
    <2> HIDE DEF value
    <2> QED BY <1>1, <1>3, <2>1
  <1>4. CASE k \notin DOMAIN r /\ k \notin DOMAIN q
    <2> HIDE DEF value
    <2> QED BY <1>1, <1>4
  <1> QED BY <1>2, <1>3, <1>4

\* Once all additions are made, the client's data is laid over the record.
LEMMA ReferenceAt ==
  ASSUME RecordInv, OrderInv, MergeRecord, NEW k \in Keys, ~FromInside(k)
  PROVE  At(Over(ClientFields(heap), heap[Root]), k) = ReferenceValue(input.sent, Adds, k)
  <1> PICK record : record = heap[Root]
    OBVIOUS
  <1> PICK sent : sent = input.sent
    OBVIOUS
  <1> PICK adds : adds = Adds
    OBVIOUS
  <1> PICK C : C = ClientFields(sent)
    OBVIOUS
  <1> PICK last : last = Deciding(sent, adds, k)
    OBVIOUS
  <1> PICK wanted : wanted = ReferenceValue(sent, adds, k)
    OBVIOUS
  <1>1. At(Over(ClientFields(heap), record), k) = At(Over(C, record), k)
    <2>1. heap[Client] = sent[Client]
      BY DEF RecordInv, Kept
    <2>2. k = "msg" /\ "msg" \notin DOMAIN sent[Client] /\ "message" \in DOMAIN sent[Client]
            => ~IsObj(sent[Client]["message"])
      BY DEF FromInside, PrintsMap
    <2>3. /\ k \in DOMAIN ClientFields(heap) <=> k \in DOMAIN C
          /\ k \in DOMAIN C => ClientFields(heap)[k] = C[k]
      BY <2>1, <2>2, ClientFieldsAgree
    <2> QED BY <2>3 DEF At, Over
  <1>2. adds \in Seq(Addition)
    BY AtDestination, InputFacts DEF RecordInv, MergeRecord
  <1>3. Precedence(record, Len(adds), k)
    <2>1. pc = "add" /\ next = Len(adds) + 1
      BY DEF MergeRecord
    <2>2. next - 1 = Len(adds)
      BY <1>2, <2>1
    <2> QED BY <2>1, <2>2 DEF OrderInv
  <1>4. DOMAIN adds = 1 .. Len(adds) /\ Len(adds) \in Nat
    BY <1>2
  <1>5. At(Over(C, record), k) = IF k \in DOMAIN C THEN C[k] ELSE At(record, k)
    BY DEF At, Over
  <1>6. CASE k \in DOMAIN C
    <2>1. wanted = C[k]
      BY <1>6 DEF ReferenceValue
    <2> QED BY <1>1, <1>5, <1>6, <2>1
  <1>7. CASE k \notin DOMAIN C /\ last = {}
    <2>1. wanted = At(BaseRecord, k)
      BY <1>7 DEF ReferenceValue, At
    <2>2. \A j \in 1 .. Len(adds) : ~Speaks(sent, adds[j], k)
      <3> SUFFICES ASSUME NEW i \in 1 .. Len(adds), Speaks(sent, adds[i], k) PROVE FALSE
        OBVIOUS
      <3> DEFINE K == {j \in 1 .. Len(adds) : Speaks(sent, adds[j], k)}
      <3>1. K \in SUBSET (1 .. Len(adds)) /\ K # {}
        OBVIOUS
      <3>2. PICK m \in K : \A j \in K : j <= m
        <4> HIDE DEF K
        <4> QED BY <1>4, <3>1, Greatest
      <3>3. m \in last
        BY <1>4, <3>2 DEF Deciding
      <3> QED BY <1>7, <3>3
    <2>3. At(record, k) = At(BaseRecord, k)
      BY <1>3, <2>2 DEF Precedence
    <2> QED BY <1>1, <1>5, <1>7, <2>1, <2>3
  <1>8. CASE k \notin DOMAIN C /\ last # {}
    <2> PICK i : i = CHOOSE j \in last : TRUE
      OBVIOUS
    <2>1. i \in last
      BY <1>8
    <2>2. i \in 1 .. Len(adds) /\ LastSpeaker(Len(adds), k, i) /\ Speaks(sent, adds[i], k)
      BY <1>4, <2>1 DEF Deciding, LastSpeaker
    <2>3. ~Inside(adds[i])
      BY <2>1 DEF FromInside, ReadInside, Inside
    <2>4. wanted = IF adds[i].source = "remove" THEN NoValue
                   ELSE IF k = "level" THEN AsNumber(Found(sent, adds[i]))
                   ELSE Found(sent, adds[i])
      BY <1>8 DEF ReferenceValue
    <2>5. At(record, k) = SaidBy(adds[i])
      BY <1>3, <2>2, <2>3 DEF Precedence
    <2>6. adds[i].name = k
      BY <2>2 DEF Speaks
    <2>7. At(Over(C, record), k) = SaidBy(adds[i])
      BY <1>5, <1>8, <2>5
    <2> QED BY <1>1, <2>4, <2>6, <2>7 DEF SaidBy
  <1> QED BY <1>6, <1>7, <1>8

\* The fields of a record are as wanted.
InOrder(record) ==
  LET wanted(k) == ReferenceValue(input.sent, Adds, k)
      said == [k \in {k \in Keys : wanted(k) # NoValue} |-> wanted(k)]
      whole == EnsureBunyanFields(With(said, "time", ServerTime))
  IN  \A k \in Keys : ~FromInside(k) =>
        /\ k \in DOMAIN record <=> k \in DOMAIN whole
        /\ k \in DOMAIN whole => record[k] = whole[k]

LEMMA MergedInOrder ==
  ASSUME RecordInv, OrderInv, MergeRecord
  PROVE  InOrder(Merge(heap, heap[Root]))
  <1> DEFINE laid == Over(ClientFields(heap), heap[Root])
             wanted(k) == ReferenceValue(input.sent, Adds, k)
             said == [k \in {k \in Keys : wanted(k) # NoValue} |-> wanted(k)]
             r == With(laid, "time", ServerTime)
             q == With(said, "time", ServerTime)
  <1>1. \A x \in DOMAIN r : r[x] # NoValue
    <2>1. IsFields(laid)
      <3>1. IsHeap(heap) /\ IsFields(heap[Root])
        BY TypeParts, HeapFields DEF RecordInv
      <3> QED BY <3>1, ClientFieldsType, OverFields
    <2>2. "time" \in Keys
      BY EnrichmentAssumption DEF BunyanNames
    <2> HIDE DEF laid
    <2>3. IsFields(r)
      BY <2>1, <2>2, WithFields, ServerTimeValue
    <2> HIDE DEF r
    <2> QED BY <2>3, FieldsOf, ValueFacts
  <1>2. \A x \in DOMAIN q : q[x] # NoValue
    <2>1. ServerTime # NoValue
      BY ServerTimeValue, ValueFacts
    <2> HIDE DEF wanted
    <2> QED BY <2>1 DEF With
  <1>3. ASSUME NEW k \in Keys, ~FromInside(k)
        PROVE  At(r, k) = At(q, k)
    <2>1. At(laid, k) = wanted(k)
      BY <1>3, ReferenceAt
    <2> HIDE DEF wanted, laid
    <2>2. At(said, k) = wanted(k)
      BY <1>3 DEF At
    <2> HIDE DEF said
    <2>3. /\ At(r, k) = IF k = "time" THEN ServerTime ELSE At(laid, k)
          /\ At(q, k) = IF k = "time" THEN ServerTime ELSE At(said, k)
      BY DEF At, With
    <2> QED BY <2>1, <2>2, <2>3
  <1>4. Merge(heap, heap[Root]) = EnsureBunyanFields(r)
    BY DEF Merge
  <1>5. ASSUME NEW k \in Keys, ~FromInside(k)
        PROVE  /\ k \in DOMAIN EnsureBunyanFields(r) <=> k \in DOMAIN EnsureBunyanFields(q)
               /\ k \in DOMAIN EnsureBunyanFields(q) =>
                    EnsureBunyanFields(r)[k] = EnsureBunyanFields(q)[k]
    <2> HIDE DEF r, q
    <2> QED BY <1>1, <1>2, <1>3, <1>5, EnsureAgrees
  <1> HIDE DEF r
  <1> QED BY <1>4, <1>5 DEF InOrder

LEMMA OrderSame ==
  ASSUME input' = input, Adds' = Adds
  PROVE  /\ \A k \in Keys : Precedence(heap[Root], next - 1, k)' <=>
                              Precedence(heap'[Root], next' - 1, k)
         /\ SourcesInOrder' <=> (pc' = "truncate" /\ rounds' = 0 => InOrder(merged'[Root]))
  BY DEF Precedence, LastSpeaker, SaidBy, SourcesInOrder, InOrder, FromInside, ReadInside, PrintsMap

LEMMA OrderStep == RecordInv /\ OrderInv /\ [Next]_vars => OrderInv'
  <1> SUFFICES ASSUME RecordInv, OrderInv, [Next]_vars
               PROVE  OrderInv'
    OBVIOUS
  <1>1. IsHeap(heap) /\ LoopOK
    BY TypeParts DEF RecordInv
  <1>2. CASE StartRecord
    <2>1. Adds' = Adds /\ input' = input /\ pc' = "add" /\ next' - 1 = 0
      BY <1>2 DEF StartRecord, Adds
    <2>2. heap'[Root] = BaseRecord
      BY <1>1, <1>2, HeapFields DEF StartRecord, FreshCopy
    <2>3. ASSUME NEW k \in Keys
          PROVE  Precedence(BaseRecord, 0, k)
      BY DEF Precedence
    <2> QED BY <2>1, <2>2, <2>3, OrderSame DEF OrderInv
  <1>3. CASE MakeAddition
    <2>1. Adds' = Adds /\ input' = input /\ pc' = "add" /\ next' = next + 1 /\ next \in Nat
      BY <1>1, <1>3 DEF MakeAddition, Adds, LoopOK
    <2>2. next' - 1 = next
      BY <2>1
    <2> QED BY <1>3, <2>1, <2>2, OrderSame, AdditionInOrder DEF OrderInv
  <1>4. CASE EnrichFails
    BY <1>4 DEF EnrichFails, MoveOn, OrderInv, SourcesInOrder
  <1>5. CASE MergeRecord
    <2>1. Adds' = Adds /\ input' = input /\ pc' = "truncate"
      BY <1>5 DEF MergeRecord, Adds
    <2>2. merged'[Root] = Merge(heap, heap[Root])
      BY <1>1, <1>5, HeapFields DEF MergeRecord
    <2> QED BY <1>5, <2>1, <2>2, OrderSame, MergedInOrder DEF OrderInv
  <1>6. CASE CutString
    <2>1. pc' = "truncate" /\ rounds' # 0
      BY <1>1, <1>6 DEF CutString, LoopOK
    <2> QED BY <2>1 DEF OrderInv, SourcesInOrder
  <1>7. CASE EndTruncation
    BY <1>7 DEF EndTruncation, OrderInv, SourcesInOrder
  <1>8. CASE LogRecord
    BY <1>8 DEF LogRecord, MoveOn, OrderInv, SourcesInOrder
  <1>9. CASE UNCHANGED vars
    <2>1. Adds' = Adds /\ input' = input
      BY <1>9 DEF vars, Adds
    <2>2. /\ pc' = pc /\ next' = next /\ heap' = heap /\ rounds' = rounds /\ merged' = merged
      BY <1>9 DEF vars
    <2>3. SourcesInOrder <=> (pc = "truncate" /\ rounds = 0 => InOrder(merged[Root]))
      BY DEF SourcesInOrder, InOrder
    <2> QED BY <2>1, <2>2, <2>3, OrderSame DEF OrderInv
  <1> QED BY <1>2, <1>3, <1>4, <1>5, <1>6, <1>7, <1>8, <1>9 DEF Next

(* Client's data wins over the destination's own additions, these over the
   rules', these over the base record, for any number of additions of any kind,
   whatever earlier destinations made of the request
   (common_log.go:64-92, enricher.go:82-136). *)
THEOREM SourcesInOrderHolds == Spec => []SourcesInOrder
  <1>1. Init => OrderInv
    BY DEF Init, OrderInv, SourcesInOrder
  <1>2. OrderInv => SourcesInOrder
    BY DEF OrderInv
  <1> QED BY <1>1, <1>2, OrderStep, RecordInvariance, PTL DEF Spec

-----------------------------------------------------------------------------
(* What truncation cuts *)

OwnPaths(m) == \A e \in Truncatable(m) : WrittenTo(m, e) = {e}

\* The strings of record m that have another value in h.
Changed(h, m) == {e \in Truncatable(m) : ValueAt(h, e) # ValueAt(m, e)}

\* h is m with some strings cut.
CutSoFar(h, m) ==
  \A o \in Objects \cup {Root} :
     /\ DOMAIN h[o] = DOMAIN m[o]
     /\ \A k \in DOMAIN m[o] :
           \/ h[o][k] = m[o][k]
           \/ <<o, k>> \in Truncatable(m) /\ h[o][k] = Cut(m[o][k])

\* No string is cut before a longer one.
LongestFirst(h, m) ==
  \A e \in Changed(h, m) : \A f \in Truncatable(m) \ Changed(h, m) :
     ValueAt(m, f).len <= ValueAt(m, e).len

\* A string that grows by being cut is a longest one of the whole record.
GrowsAlone(h, m) ==
  \A e \in Changed(h, m) :
     ValueAt(m, e).len < CutLength =>
        \A f \in Truncatable(m) : ValueAt(m, f).len <= ValueAt(m, e).len

\* When a string was cut, cutting all longer ones had not been enough.
MustCut(h, m, limit) ==
  \A e \in Changed(h, m) : OverLimit(CutLongerThan(m, ValueAt(m, e).len), limit)

\* A round changes another string, as long as there is one to be shortened.
EveryRoundCuts(h, m, n) ==
  \/ n = Cardinality(Changed(h, m))
  \/ \A e \in Truncatable(m) : ValueAt(h, e).len <= CutLength

CutState(h, m, limit, n) ==
  CutSoFar(h, m) /\ LongestFirst(h, m) /\ GrowsAlone(h, m) /\ MustCut(h, m, limit)
    /\ EveryRoundCuts(h, m, n)

CutInv ==
  (pc \in {"truncate", "write"} /\ PathsAreOwn) =>
     /\ CutState(heap, merged, input.limit, rounds)
     /\ FitsIfItCan

LEMMA FiniteMax ==
  ASSUME NEW T, IsFiniteSet(T), T # {}, NEW w \in [T -> Nat]
  PROVE  \E e \in T : \A f \in T : w[f] <= w[e]
  <1> DEFINE N == Cardinality(T)
             Top(S) == \E e \in S : \A f \in S : w[f] <= w[e]
             Good == {n \in 0 .. N : \A S \in SUBSET T : Cardinality(S) = n /\ S # {} => Top(S)}
  <1>1. N \in Nat /\ \A S \in SUBSET T : IsFiniteSet(S) /\ Cardinality(S) \in 0 .. N
    BY FS_Subset, FS_CardinalityType
  <1> HIDE DEF N
  <1>2. 0 \in Good
    <2>1. \A S \in SUBSET T : Cardinality(S) = 0 => S = {}
      BY <1>1, FS_EmptySet
    <2> HIDE DEF Top
    <2> QED BY <1>1, <2>1
  <1>3. ASSUME NEW n \in 1 .. N, n - 1 \in Good
        PROVE  n \in Good
    <2> SUFFICES ASSUME NEW S \in SUBSET T, Cardinality(S) = n, S # {} PROVE Top(S)
      BY <1>1
    <2> PICK x \in S : TRUE
      OBVIOUS
    <2>1. Cardinality(S \ {x}) = n - 1
      BY <1>1, FS_RemoveElement
    <2>2. CASE S \ {x} = {}
      <3>1. \A f \in S : f = x
        BY <2>2
      <3>2. w[x] <= w[x]
        OBVIOUS
      <3> QED BY <3>1, <3>2
    <2>3. CASE S \ {x} # {}
      <3>1. Top(S \ {x})
        BY <1>3, <2>1, <2>3
      <3>2. PICK e \in S \ {x} : \A f \in S \ {x} : w[f] <= w[e]
        BY <3>1
      <3>3. CASE w[x] <= w[e]
        BY <3>2, <3>3
      <3>4. CASE ~ (w[x] <= w[e])
        <4>1. \A f \in S : w[f] <= w[x]
          BY <3>2, <3>4
        <4> QED BY <4>1
      <3> QED BY <3>3, <3>4
    <2> QED BY <2>2, <2>3
  <1>4. N \in Good
    <2> HIDE DEF Good
    <2> QED BY <1>1, <1>2, <1>3, UpTo
  <1> QED BY <1>4 DEF N

\* The strings of a record are finitely many, and one is the longest.
LEMMA TruncatableFinite ==
  ASSUME NEW h, IsHeap(h)
  PROVE  /\ IsFiniteSet(Truncatable(h))
         /\ Truncatable(h) # {} => Candidates(h) # {}
  <1> DEFINE T == Truncatable(h)
             w == [e \in T |-> ValueAt(h, e).len]
  <1>1. IsFiniteSet(T)
    <2>1. T \in SUBSET ((Objects \cup {Root}) \X Keys)
      <3>1. \A e \in T : e = <<e[1], e[2]>> /\ e[1] \in Objects \cup {Root} /\ e[2] \in Keys
        BY TruncatableFacts DEF Places
      <3> HIDE DEF T
      <3> QED BY <3>1
    <2>2. IsFiniteSet(Objects \cup {Root})
      BY RecordsAssumption, FS_AddElement
    <2>3. IsFiniteSet((Objects \cup {Root}) \X Keys)
      BY <2>2, RecordsAssumption, FS_Product
    <2> QED BY <2>1, <2>3, FS_Subset
  <1>2. ASSUME T # {}
        PROVE  Candidates(h) # {}
    <2>1. \A e \in T : ValueAt(h, e).len \in Nat
      BY TruncatableFacts, ValueFacts
    <2>2. w \in [T -> Nat]
      BY <2>1
    <2>3. PICK e \in T : \A f \in T : w[f] <= w[e]
      <3> HIDE DEF T, w
      <3> QED BY <1>1, <1>2, <2>2, FiniteMax
    <2>4. \A f \in T : ValueAt(h, f).len <= ValueAt(h, e).len
      BY <2>3
    <2> QED BY <2>4 DEF Candidates, Longest
  <1> QED BY <1>1, <1>2

\* The strings among the entries of a map.
LEMMA TruncatableIff ==
  ASSUME NEW h, IsHeap(h), NEW o \in Objects \cup {Root}, NEW k \in DOMAIN h[o]
  PROVE  <<o, k>> \in Truncatable(h) <=>
           o \in Reached(h) /\ IsStr(h[o][k]) /\ h[o][k].len > MinTruncateLength
  <1>1. <<o, k>> \in Entries(h) <=> o \in Reached(h)
    BY DEF Entries
  <1>2. ValueAt(h, <<o, k>>) = h[o][k]
    BY DEF ValueAt
  <1> QED BY <1>1, <1>2 DEF Truncatable

\* A record some of whose strings are cut.
LEMMA CutFromFacts ==
  ASSUME NEW h, NEW m, IsHeap(h), IsHeap(m), CutSoFar(h, m)
  PROVE  /\ SameShape(m, h) /\ Entries(h) = Entries(m) /\ Reached(h) = Reached(m)
         /\ Truncatable(h) = Truncatable(m)
         /\ \A e : WrittenTo(h, e) = WrittenTo(m, e) \/ e[1] \notin Objects \cup {Root}
         /\ \A e \in Truncatable(m) :
               ValueAt(h, e) = IF e \in Changed(h, m) THEN Cut(ValueAt(m, e)) ELSE ValueAt(m, e)
  <1>0. \A v : IsStr(Cut(v)) /\ ~IsObj(Cut(v)) /\ Cut(v).len > MinTruncateLength
    BY DEF Cut, Text, IsStr, IsObj, CutLength, MinTruncateLength
  <1>1. ASSUME NEW o \in Objects \cup {Root}, NEW k \in DOMAIN m[o]
        PROVE  /\ IsObj(m[o][k]) \/ IsObj(h[o][k]) => h[o][k] = m[o][k]
               /\ \/ h[o][k] = m[o][k]
                  \/ /\ IsStr(m[o][k]) /\ m[o][k].len > MinTruncateLength
                     /\ h[o][k] = Cut(m[o][k])
    <2>1. CASE h[o][k] = m[o][k]
      BY <2>1
    <2>2. CASE <<o, k>> \in Truncatable(m) /\ h[o][k] = Cut(m[o][k])
      <3>1. IsStr(m[o][k]) /\ m[o][k].len > MinTruncateLength
        BY <2>2, TruncatableIff
      <3>2. ~IsObj(m[o][k])
        BY <3>1 DEF IsStr, IsObj
      <3> QED BY <1>0, <2>2, <3>1, <3>2
    <2> QED BY <2>1, <2>2 DEF CutSoFar
  <1>2. SameShape(m, h)
    BY <1>1 DEF SameShape, CutSoFar
  <1>3. /\ Entries(h) = Entries(m) /\ Reached(h) = Reached(m)
        /\ \A d \in 0 .. MaxDepth : AtDepth(h, d) = AtDepth(m, d)
    BY <1>2, SameLayers
  <1>4. ASSUME NEW e \in Entries(m)
        PROVE  /\ e[1] \in Objects \cup {Root} /\ e[2] \in DOMAIN m[e[1]] /\ e = <<e[1], e[2]>>
    <2>1. PICK o \in Reached(m) : e \in {<<o, k>> : k \in DOMAIN m[o]}
      BY DEF Entries
    <2>2. o \in Objects \cup {Root}
      BY ReachedPlaces, HeapFields
    <2> QED BY <2>1, <2>2
  <1>5. Truncatable(h) = Truncatable(m)
    <2>1. ASSUME NEW e \in Entries(m)
          PROVE  (IsStr(ValueAt(h, e)) /\ ValueAt(h, e).len > MinTruncateLength) <=>
                   (IsStr(ValueAt(m, e)) /\ ValueAt(m, e).len > MinTruncateLength)
      BY <1>0, <1>1, <1>4 DEF ValueAt
    <2> QED BY <1>3, <2>1 DEF Truncatable
  <1>6. ASSUME NEW e, e[1] \in Objects \cup {Root}
        PROVE  WrittenTo(h, e) = WrittenTo(m, e)
    <2>1. DOMAIN h[e[1]] = DOMAIN m[e[1]]
      BY <1>6 DEF CutSoFar
    <2>2. {d \in 0 .. MaxDepth : e[1] \in AtDepth(h, d)}
            = {d \in 0 .. MaxDepth : e[1] \in AtDepth(m, d)}
      BY <1>3
    <2> QED BY <2>1, <2>2 DEF WrittenTo
  <1>7. ASSUME NEW e \in Truncatable(m)
        PROVE  ValueAt(h, e) = IF e \in Changed(h, m) THEN Cut(ValueAt(m, e)) ELSE ValueAt(m, e)
    <2>1. e \in Entries(m)
      BY TruncatableFacts
    <2>2. ValueAt(h, e) = ValueAt(m, e) \/ ValueAt(h, e) = Cut(ValueAt(m, e))
      BY <1>1, <1>4, <2>1 DEF ValueAt
    <2> QED BY <2>2 DEF Changed
  <1> QED BY <1>2, <1>3, <1>5, <1>6, <1>7

\* Cutting all strings that are longer than n.
LEMMA CutLongerFacts ==
  ASSUME NEW m, IsHeap(m), NEW n \in Nat
  PROVE  /\ IsHeap(CutLongerThan(m, n)) /\ SameShape(m, CutLongerThan(m, n))
         /\ \A o \in Objects \cup {Root} :
              /\ DOMAIN CutLongerThan(m, n)[o] = DOMAIN m[o]
              /\ \A k \in DOMAIN m[o] :
                    CutLongerThan(m, n)[o][k] =
                      IF o \in Reached(m) /\ IsStr(m[o][k]) /\ m[o][k].len > n
                        THEN Cut(m[o][k]) ELSE m[o][k]
  <1> DEFINE g == CutLongerThan(m, n)
             value(o, k) == IF o \in Reached(m) /\ IsStr(m[o][k]) /\ m[o][k].len > n
                              THEN Cut(m[o][k]) ELSE m[o][k]
  <1>1. DOMAIN m = Objects \cup {Root} /\ \A o \in DOMAIN m : IsFields(m[o])
    BY HeapFields
  <1>2. g = [o \in DOMAIN m |-> [k \in DOMAIN m[o] |-> value(o, k)]]
    BY DEF CutLongerThan
  <1>3. ASSUME NEW o \in Objects \cup {Root}, NEW k \in DOMAIN m[o]
        PROVE  /\ value(o, k) \in Value
               /\ IsObj(m[o][k]) \/ IsObj(value(o, k)) => value(o, k) = m[o][k]
    <2>1. m[o][k] \in Value
      BY <1>1, FieldsOf
    <2>2. ~IsObj(Cut(m[o][k]))
      BY DEF Cut, Text, IsObj
    <2> QED BY <2>1, <2>2, ValueFacts
  <1> HIDE DEF value
  <1>4. \A o \in Objects \cup {Root} :
           DOMAIN g[o] = DOMAIN m[o] /\ \A k \in DOMAIN m[o] : g[o][k] = value(o, k)
    BY <1>1, <1>2
  <1>5. IsHeap(g)
    <2>1. ASSUME NEW o \in Objects \cup {Root}
          PROVE  IsFields(g[o])
      <3>1. g[o] = [k \in DOMAIN m[o] |-> value(o, k)]
        BY <1>1, <1>2
      <3>2. DOMAIN m[o] \subseteq Keys
        BY <1>1, FieldsOf
      <3> HIDE DEF g
      <3> QED BY <1>3, <3>1, <3>2 DEF IsFields
    <2>2. g = [o \in Objects \cup {Root} |-> g[o]]
      BY <1>1, <1>2
    <2> HIDE DEF g
    <2> QED BY <2>1, <2>2 DEF IsHeap, IsData
  <1>6. SameShape(m, g)
    <2> HIDE DEF g
    <2> QED BY <1>3, <1>4 DEF SameShape
  <1> QED BY <1>4, <1>5, <1>6 DEF value

\* A record that is not longer, value by value, than one of the same shape.
NoLonger(h, g) ==
  \A o \in Objects \cup {Root} : \A k \in DOMAIN h[o] : ScalarSize(h[o][k]) <= ScalarSize(g[o][k])

LEMMA OverLimitCompare ==
  ASSUME NEW h, NEW g, IsHeap(h), IsHeap(g), SameShape(h, g), NoLonger(h, g),
         NEW limit \in Nat, OverLimit(h, limit)
  PROVE  OverLimit(g, limit)
  <1>1. RecordSize(h) <= RecordSize(g)
    BY SizesCompare DEF NoLonger
  <1>2. RecordSize(h) \in Nat /\ RecordSize(g) \in Nat
    BY SizesType
  <1> QED BY <1>1, <1>2 DEF OverLimit

(* A record some of whose strings are cut is not longer than with all strings
   cut that are longer than n, if every string is where cutting it or not makes
   no difference to this. *)
LEMMA CutCompare ==
  ASSUME NEW h, NEW m, IsHeap(h), IsHeap(m), CutSoFar(h, m), NEW n \in Nat,
         n >= MinTruncateLength,
         \A e \in Changed(h, m) : ValueAt(m, e).len > n \/ ValueAt(m, e).len >= CutLength,
         \A e \in Truncatable(m) \ Changed(h, m) : ValueAt(m, e).len <= n,
         NEW limit \in Nat, OverLimit(h, limit)
  PROVE  OverLimit(CutLongerThan(m, n), limit)
  <1> DEFINE g == CutLongerThan(m, n)
  <1>1. IsHeap(g) /\ SameShape(m, g) /\ SameShape(m, h)
    BY CutLongerFacts, CutFromFacts
  <1>2. SameShape(h, g)
    <2> HIDE DEF g
    <2> QED BY <1>1 DEF SameShape
  <1>3. ASSUME NEW o \in Objects \cup {Root}, NEW k \in DOMAIN h[o]
        PROVE  ScalarSize(h[o][k]) <= ScalarSize(g[o][k])
    <2> PICK v : v = m[o][k]
      OBVIOUS
    <2>1. k \in DOMAIN m[o] /\ v \in Value /\ v.len \in Nat
      BY <1>3, HeapFields, FieldsOf, ValueFacts DEF CutSoFar
    <2>2. g[o][k] = IF o \in Reached(m) /\ IsStr(v) /\ v.len > n THEN Cut(v) ELSE v
      BY <2>1, CutLongerFacts
    <2>3. h[o][k] = v \/ (<<o, k>> \in Truncatable(m) /\ h[o][k] = Cut(v))
      BY <2>1 DEF CutSoFar
    <2>4. <<o, k>> \in Truncatable(m) <=> o \in Reached(m) /\ IsStr(v) /\ v.len > MinTruncateLength
      BY <2>1, TruncatableIff
    <2>5. ValueAt(m, <<o, k>>) = v /\ ValueAt(h, <<o, k>>) = h[o][k]
      BY DEF ValueAt
    <2>6. ScalarSize(v) \in Nat /\ ScalarSize(Cut(v)) = CutLength + 2 /\ CutLength = 13
      BY <2>1, ValueFacts DEF ScalarSize, Cut, Text, IsStr, CutLength, MinTruncateLength
    <2> HIDE DEF g
    <2>7. CASE h[o][k] = v
      <3>1. CASE o \in Reached(m) /\ IsStr(v) /\ v.len > n
        <4>1. <<o, k>> \in Truncatable(m)
          BY <2>1, <2>4, <3>1 DEF MinTruncateLength
        <4>2. <<o, k>> \notin Changed(h, m)
          BY <2>5, <2>7 DEF Changed
        <4>3. v.len <= n
          BY <2>5, <4>1, <4>2
        <4> QED BY <2>1, <3>1, <4>3
      <3>2. CASE ~ (o \in Reached(m) /\ IsStr(v) /\ v.len > n)
        <4>1. h[o][k] = v /\ g[o][k] = v
          BY <2>2, <2>7, <3>2
        <4> QED BY <2>6, <4>1
      <3> QED BY <3>1, <3>2
    <2>8. CASE h[o][k] # v
      <3>1. <<o, k>> \in Truncatable(m) /\ h[o][k] = Cut(v)
        BY <2>3, <2>8
      <3>2. <<o, k>> \in Changed(h, m)
        BY <2>5, <2>8, <3>1 DEF Changed
      <3>3. v.len > n \/ v.len >= CutLength
        BY <2>5, <3>2
      <3>4. CASE g[o][k] = Cut(v)
        BY <2>6, <3>1, <3>4
      <3>5. CASE g[o][k] # Cut(v)
        <4>1. g[o][k] = v /\ v.len >= CutLength
          BY <2>2, <2>4, <3>1, <3>3, <3>5
        <4>2. ScalarSize(v) = v.len + 2
          BY <2>4, <3>1 DEF ScalarSize
        <4> QED BY <2>1, <2>6, <3>1, <4>1, <4>2
      <3> QED BY <3>4, <3>5
    <2> QED BY <2>7, <2>8
  <1>4. NoLonger(h, g)
    <2> HIDE DEF g
    <2> QED BY <1>3 DEF NoLonger
  <1> HIDE DEF g
  <1>5. OverLimit(g, limit)
    BY <1>1, <1>2, <1>4, OverLimitCompare
  <1> QED BY <1>5 DEF g

\* One round cuts a longest string, or the same one again.
LEMMA CutStateStep ==
  ASSUME NEW h, NEW m, IsHeap(h), IsHeap(m), OwnPaths(m), NEW limit \in Nat, NEW n \in Nat,
         CutState(h, m, limit, n), OverLimit(h, limit),
         NEW e \in Candidates(h), NEW f \in WrittenTo(h, e)
  PROVE  CutState(WriteCut(h, e, f), m, limit, n + 1)
  <1> PICK g : g = WriteCut(h, e, f)
    OBVIOUS
  <1> PICK T : T = Truncatable(m)
    OBVIOUS
  <1> PICK C : C = Changed(h, m)
    OBVIOUS
  <1> PICK new : new = Changed(g, m)
    OBVIOUS
  <1> PICK L : L = ValueAt(m, e).len
    OBVIOUS
  <1> PICK v : v = ValueAt(m, e)
    OBVIOUS
  <1>1. /\ CutSoFar(h, m) /\ LongestFirst(h, m) /\ GrowsAlone(h, m) /\ MustCut(h, m, limit)
        /\ EveryRoundCuts(h, m, n)
    BY DEF CutState
  <1>2. /\ Truncatable(h) = T
        /\ \A x \in T : ValueAt(h, x) = IF x \in C THEN Cut(ValueAt(m, x)) ELSE ValueAt(m, x)
    BY <1>1, CutFromFacts
  <1>3. e \in T /\ \A x \in T : ValueAt(h, x).len <= ValueAt(h, e).len
    BY <1>2 DEF Candidates, Longest
  <1>4. /\ \A x \in T : ValueAt(m, x).len \in Nat /\ ValueAt(m, x).len > MinTruncateLength
        /\ \A x \in T :
             x = <<x[1], x[2]>> /\ x[1] \in Objects \cup {Root} /\ x[2] \in DOMAIN m[x[1]]
    BY TruncatableFacts, ValueFacts DEF Places
  <1>5. f = e
    <2>1. WrittenTo(h, e) = WrittenTo(m, e)
      BY <1>1, <1>3, <1>4, CutFromFacts
    <2> QED BY <1>3, <2>1 DEF OwnPaths
  <1>6. \A x : Cut(Cut(x)) = Cut(x) /\ Cut(x).len = CutLength
    BY DEF Cut, Text
  <1>7. Cut(ValueAt(h, e)) = Cut(v)
    BY <1>2, <1>3, <1>6
  <1>8. \A o \in Objects \cup {Root} :
           /\ DOMAIN g[o] = DOMAIN m[o]
           /\ \A k \in DOMAIN m[o] : g[o][k] = IF <<o, k>> = e THEN Cut(v) ELSE h[o][k]
    <2>1. DOMAIN h = Objects \cup {Root} /\ \A o \in Objects \cup {Root} : DOMAIN h[o] = DOMAIN m[o]
      BY <1>1, HeapFields DEF CutSoFar
    <2> QED BY <1>5, <1>7, <2>1, CutFacts
  <1>9. CutSoFar(g, m)
    <2> SUFFICES ASSUME NEW o \in Objects \cup {Root}, NEW k \in DOMAIN m[o]
                 PROVE  g[o][k] = m[o][k] \/ (<<o, k>> \in T /\ g[o][k] = Cut(m[o][k]))
      BY <1>8 DEF CutSoFar
    <2>1. CASE <<o, k>> = e
      <3>1. v = m[o][k]
        BY <2>1 DEF ValueAt
      <3> QED BY <1>3, <1>8, <2>1, <3>1
    <2>2. CASE <<o, k>> # e
      BY <1>1, <1>8, <2>2 DEF CutSoFar
    <2> QED BY <2>1, <2>2
  <1>10. \A x \in T : ValueAt(g, x) = IF x = e THEN Cut(v) ELSE ValueAt(h, x)
    <2> SUFFICES ASSUME NEW x \in T
                 PROVE  ValueAt(g, x) = IF x = e THEN Cut(v) ELSE ValueAt(h, x)
      OBVIOUS
    <2>1. x = <<x[1], x[2]>> /\ x[1] \in Objects \cup {Root} /\ x[2] \in DOMAIN m[x[1]]
      BY <1>4
    <2>2. g[x[1]][x[2]] = IF <<x[1], x[2]>> = e THEN Cut(v) ELSE h[x[1]][x[2]]
      BY <1>8, <2>1
    <2> QED BY <2>1, <2>2 DEF ValueAt
  <1>11. \A x : x \in new <=> x \in C \/ (x = e /\ Cut(v) # v)
    <2>1. \A x : x \in C <=> x \in T /\ ValueAt(h, x) # ValueAt(m, x)
      BY DEF Changed
    <2>2. \A x : x \in new <=> x \in T /\ ValueAt(g, x) # ValueAt(m, x)
      BY DEF Changed
    <2> QED BY <1>2, <1>3, <1>10, <2>1, <2>2
  <1>12. C \subseteq T
    BY DEF Changed
  <1>13. \A x \in C : ValueAt(h, x).len = CutLength
    BY <1>2, <1>6, <1>12
  <1>14. L \in Nat /\ L > MinTruncateLength
    BY <1>3, <1>4
  <1>15. ASSUME e \notin C
         PROVE  /\ \A x \in T \ C : ValueAt(m, x).len <= L
                /\ L < CutLength => \A x \in T : ValueAt(m, x).len <= L
                /\ OverLimit(CutLongerThan(m, L), limit)
    <2>1. ValueAt(h, e).len = L
      BY <1>2, <1>3, <1>15
    <2>2. \A x \in T \ C : ValueAt(m, x).len <= L
      BY <1>2, <1>3, <2>1
    <2>3. \A x \in C : CutLength <= L
      BY <1>3, <1>12, <1>13, <2>1
    <2>4. L < CutLength => C = {}
      BY <1>14, <2>3 DEF CutLength, MinTruncateLength
    <2>5. \A x \in C : L <= ValueAt(m, x).len
      BY <1>1, <1>3, <1>15 DEF LongestFirst
    <2>6. \A x \in C : ValueAt(m, x).len >= CutLength
      <3> SUFFICES ASSUME NEW x \in C PROVE ValueAt(m, x).len >= CutLength
        OBVIOUS
      <3>1. ValueAt(m, x).len \in Nat /\ CutLength <= L /\ L <= ValueAt(m, x).len
        BY <1>4, <1>12, <2>3, <2>5
      <3> QED BY <1>14, <3>1 DEF CutLength, MinTruncateLength
    <2>7. L >= MinTruncateLength
      BY <1>14 DEF MinTruncateLength
    <2>8. OverLimit(CutLongerThan(m, L), limit)
      BY <1>1, <1>14, <2>2, <2>6, <2>7, CutCompare
    <2> QED BY <2>2, <2>4, <2>8
  <1>16. LongestFirst(g, m)
    BY <1>1, <1>11, <1>15 DEF LongestFirst
  <1>17. GrowsAlone(g, m)
    BY <1>1, <1>11, <1>15 DEF GrowsAlone
  <1>18. MustCut(g, m, limit)
    BY <1>1, <1>11, <1>15 DEF MustCut
  <1>19. EveryRoundCuts(g, m, n + 1)
    <2>1. CASE \A x \in T : ValueAt(h, x).len <= CutLength
      <3>1. CutLength <= CutLength
        BY DEF CutLength, MinTruncateLength
      <3>2. \A x \in T : ValueAt(g, x).len <= CutLength
        BY <1>6, <1>10, <2>1, <3>1
      <3> QED BY <3>2 DEF EveryRoundCuts
    <2>2. CASE ~ \A x \in T : ValueAt(h, x).len <= CutLength
      <3>1. n = Cardinality(C)
        BY <1>1, <2>2 DEF EveryRoundCuts
      <3>2. PICK x \in T : ~ (ValueAt(h, x).len <= CutLength)
        BY <2>2
      <3>3. x \notin C
        BY <1>13, <3>2 DEF CutLength, MinTruncateLength
      <3>4. ValueAt(h, x).len \in Nat /\ ValueAt(h, x).len > CutLength
        BY <1>2, <1>4, <3>2, <3>3 DEF CutLength, MinTruncateLength
      <3>5. e \notin C
        BY <1>3, <1>13, <3>4 DEF CutLength, MinTruncateLength
      <3>6. L > CutLength
        <4>1. ValueAt(h, e) = v /\ ValueAt(h, x).len <= L
          BY <1>2, <1>3, <3>5
        <4> QED BY <1>14, <3>4, <4>1 DEF CutLength, MinTruncateLength
      <3>7. Cut(v) # v
        <4>1. Cut(v).len = CutLength /\ v.len = L
          BY <1>6
        <4>2. CutLength # L
          BY <1>14, <3>6 DEF CutLength, MinTruncateLength
        <4> QED BY <4>1, <4>2
      <3>8. new = C \cup {e}
        BY <1>11, <3>7
      <3>9. IsFiniteSet(C)
        BY <1>12, TruncatableFinite, FS_Subset
      <3>10. Cardinality(new) = n + 1
        BY <3>1, <3>5, <3>8, <3>9, FS_AddElement
      <3> QED BY <3>10 DEF EveryRoundCuts
    <2> QED BY <2>1, <2>2
  <1> QED BY <1>9, <1>16, <1>17, <1>18, <1>19 DEF CutState

LEMMA CutStateStart ==
  ASSUME NEW m, NEW limit
  PROVE  CutState(m, m, limit, 0)
  <1>1. Changed(m, m) = {}
    BY DEF Changed
  <1>2. Cardinality({}) = 0
    BY FS_EmptySet
  <1> QED BY <1>1, <1>2 DEF CutState, CutSoFar, LongestFirst, GrowsAlone, MustCut, EveryRoundCuts

\* Where no string is longer than n, cutting longer ones changes nothing.
LEMMA NothingLonger ==
  ASSUME NEW m, IsHeap(m), NEW n \in Nat, n >= MinTruncateLength,
         \A x \in Truncatable(m) : ValueAt(m, x).len <= n,
         NEW limit \in Nat
  PROVE  OverLimit(CutLongerThan(m, n), limit) <=> OverLimit(m, limit)
  <1> PICK g : g = CutLongerThan(m, n)
    OBVIOUS
  <1>1. /\ IsHeap(g) /\ SameShape(m, g)
        /\ \A o \in Objects \cup {Root} :
             /\ DOMAIN g[o] = DOMAIN m[o]
             /\ \A k \in DOMAIN m[o] :
                   g[o][k] = IF o \in Reached(m) /\ IsStr(m[o][k]) /\ m[o][k].len > n
                               THEN Cut(m[o][k]) ELSE m[o][k]
    BY CutLongerFacts
  <1>2. ASSUME NEW o \in Objects \cup {Root}, NEW k \in DOMAIN m[o]
        PROVE  g[o][k] = m[o][k] /\ ScalarSize(m[o][k]) \in Nat
    <2>1. m[o][k] \in Value /\ m[o][k].len \in Nat /\ ScalarSize(m[o][k]) \in Nat
      BY HeapFields, FieldsOf, ValueFacts
    <2>2. ASSUME o \in Reached(m), IsStr(m[o][k]), m[o][k].len > n
          PROVE  FALSE
      <3>1. m[o][k].len > MinTruncateLength
        BY <2>1, <2>2 DEF MinTruncateLength
      <3>2. <<o, k>> \in Truncatable(m) /\ ValueAt(m, <<o, k>>) = m[o][k]
        BY <2>2, <3>1, TruncatableIff DEF ValueAt
      <3>3. m[o][k].len <= n
        BY <3>2
      <3> QED BY <2>1, <2>2, <3>3
    <2> QED BY <1>1, <2>1, <2>2
  <1>3. SameShape(g, m) /\ NoLonger(g, m) /\ NoLonger(m, g)
    BY <1>1, <1>2 DEF SameShape, NoLonger
  <1> QED BY <1>1, <1>3, OverLimitCompare

(* When no round is left or there is no string to cut, a record that is still
   too long would be so with every string cut. *)
LEMMA CutStateEnd ==
  ASSUME NEW h, NEW m, IsHeap(h), IsHeap(m), NEW limit \in Nat, NEW n \in Nat,
         CutState(h, m, limit, n), OverLimit(h, limit),
         n >= MaxTruncateIterations \/ Candidates(h) = {}
  PROVE  \/ OverLimit(CutLongerThan(m, CutLength), limit)
         \/ Cardinality(Truncatable(m)) > MaxTruncateIterations
  <1> PICK T : T = Truncatable(m)
    OBVIOUS
  <1> PICK C : C = Changed(h, m)
    OBVIOUS
  <1>1. /\ CutSoFar(h, m) /\ GrowsAlone(h, m) /\ MustCut(h, m, limit) /\ EveryRoundCuts(h, m, n)
    BY DEF CutState
  <1>2. /\ Truncatable(h) = T /\ C \subseteq T
        /\ \A x \in T : ValueAt(h, x) = IF x \in C THEN Cut(ValueAt(m, x)) ELSE ValueAt(m, x)
    BY <1>1, CutFromFacts DEF Changed
  <1>3. IsFiniteSet(T) /\ IsFiniteSet(C) /\ Cardinality(T) \in Nat /\ Cardinality(C) \in Nat
    BY <1>2, TruncatableFinite, FS_Subset, FS_CardinalityType
  <1>4. \A x \in T : ValueAt(m, x).len \in Nat /\ ValueAt(m, x).len > MinTruncateLength
    BY TruncatableFacts, ValueFacts
  <1>5. CutLength \in Nat /\ CutLength >= MinTruncateLength /\ CutLength = 13
        /\ MinTruncateLength = 10
    BY DEF CutLength, MinTruncateLength
  <1>6. CASE Candidates(h) = {}
    <2>1. T = {} /\ C = {}
      BY <1>2, <1>6, TruncatableFinite
    <2>2. \A x \in C : ValueAt(m, x).len >= CutLength
      BY <2>1
    <2>3. \A x \in T \ C : ValueAt(m, x).len <= CutLength
      BY <2>1
    <2> QED BY <1>1, <1>5, <2>2, <2>3, CutCompare
  <1>7. CASE \A x \in T : ValueAt(h, x).len <= CutLength
    <2>1. CASE \E e \in C : ValueAt(m, e).len < CutLength
      <3> PICK e \in C : ValueAt(m, e).len < CutLength
        BY <2>1
      <3>1. ValueAt(m, e).len \in Nat /\ ValueAt(m, e).len >= MinTruncateLength
        BY <1>2, <1>4, <1>5
      <3>2. \A x \in T : ValueAt(m, x).len <= ValueAt(m, e).len
        BY <1>1, <2>1 DEF GrowsAlone
      <3>3. OverLimit(CutLongerThan(m, ValueAt(m, e).len), limit)
        BY <1>1 DEF MustCut
      <3>4. OverLimit(m, limit)
        BY <3>1, <3>2, <3>3, NothingLonger
      <3>5. \A x \in T : ValueAt(m, x).len <= CutLength
        BY <1>4, <1>5, <3>1, <3>2
      <3>6. OverLimit(CutLongerThan(m, CutLength), limit)
        BY <1>5, <3>4, <3>5, NothingLonger
      <3> QED BY <3>6
    <2>2. CASE ~ \E e \in C : ValueAt(m, e).len < CutLength
      <3>1. \A x \in C : ValueAt(m, x).len >= CutLength
        BY <1>2, <1>4, <1>5, <2>2
      <3>2. \A x \in T \ C : ValueAt(m, x).len <= CutLength
        BY <1>2, <1>7
      <3> QED BY <1>1, <1>5, <3>1, <3>2, CutCompare
    <2> QED BY <2>1, <2>2
  <1>8. CASE /\ n >= MaxTruncateIterations
             /\ ~ \A x \in T : ValueAt(h, x).len <= CutLength
    <2>1. n = Cardinality(C)
      BY <1>1, <1>8 DEF EveryRoundCuts
    <2>2. PICK x \in T : ~ (ValueAt(h, x).len <= CutLength)
      BY <1>8
    <2>3. x \notin C
      <3>1. \A v : Cut(v).len = CutLength
        BY DEF Cut, Text
      <3> QED BY <1>2, <1>5, <2>2, <3>1
    <2>4. C # T /\ C \in SUBSET T
      BY <1>2, <2>2, <2>3
    <2>5. Cardinality(C) <= Cardinality(T) /\ Cardinality(C) # Cardinality(T)
      BY <1>3, <2>4, FS_Subset
    <2> QED BY <1>3, <1>8, <2>1, <2>5, RoundsAssumption
  <1> QED BY <1>6, <1>7, <1>8

\* What truncation does to a value, it does to a string.
LEMMA OnlyStringsChange ==
  ASSUME NEW h, NEW m, IsHeap(m), CutSoFar(h, m), NEW e \in Entries(m),
         ValueAt(h, e) # ValueAt(m, e)
  PROVE  e \in Changed(h, m)
  <1>1. PICK o \in Reached(m) : e \in {<<o, k>> : k \in DOMAIN m[o]}
    BY DEF Entries
  <1>2. PICK k \in DOMAIN m[o] : e = <<o, k>>
    BY <1>1
  <1>3. o \in Objects \cup {Root}
    BY ReachedPlaces, HeapFields
  <1>4. ValueAt(h, e) = h[o][k] /\ ValueAt(m, e) = m[o][k]
    BY <1>2 DEF ValueAt
  <1>5. e \in Truncatable(m)
    BY <1>2, <1>3, <1>4 DEF CutSoFar
  <1> QED BY <1>5 DEF Changed

LEMMA CutStep == RecordInv /\ CutInv /\ [Next]_vars => CutInv'
  <1> SUFFICES ASSUME RecordInv, CutInv, [Next]_vars, PathsAreOwn', pc' \in {"truncate", "write"}
               PROVE  CutState(heap, merged, input.limit, rounds)' /\ FitsIfItCan'
    BY DEF CutInv
  <1>1. IsHeap(heap) /\ IsHeap(merged) /\ LoopOK /\ input.limit \in Nat /\ rounds \in Nat
    BY TypeParts, InputFacts, RoundsAssumption DEF RecordInv, LoopOK
  <1>2. merged' = merged => OwnPaths(merged)
    BY DEF PathsAreOwn, OwnPaths
  <1>3. merged' = merged /\ pc \in {"truncate", "write"} =>
           CutState(heap, merged, input.limit, rounds) /\ FitsIfItCan
    BY <1>2 DEF CutInv, PathsAreOwn, OwnPaths
  <1>4. CASE MergeRecord
    <2>1. pc' = "truncate" /\ merged' = heap' /\ rounds' = 0
      BY <1>4 DEF MergeRecord
    <2>2. CutState(heap, merged, input.limit, rounds)'
      BY <2>1, CutStateStart
    <2> QED BY <2>1, <2>2 DEF FitsIfItCan
  <1>5. CASE CutString
    <2>1. /\ pc = "truncate" /\ pc' = "truncate" /\ merged' = merged /\ input' = input
          /\ rounds' = rounds + 1 /\ OverLimit(heap, input.limit)
          /\ \E e \in Candidates(heap) : \E f \in WrittenTo(heap, e) : heap' = WriteCut(heap, e, f)
      BY <1>5 DEF CutString
    <2>2. PICK e \in Candidates(heap) : \E f \in WrittenTo(heap, e) : heap' = WriteCut(heap, e, f)
      BY <2>1
    <2>3. PICK f \in WrittenTo(heap, e) : heap' = WriteCut(heap, e, f)
      BY <2>2
    <2>4. CutState(heap', merged, input.limit, rounds + 1)
      BY <1>1, <1>2, <1>3, <2>1, <2>3, CutStateStep
    <2> QED BY <2>1, <2>4 DEF FitsIfItCan
  <1>6. CASE EndTruncation
    <2>1. /\ pc = "truncate" /\ merged' = merged /\ input' = input /\ rounds' = rounds
          /\ heap' = heap
          /\ \/ ~OverLimit(heap, input.limit) \/ ~MoreRounds(rounds) \/ Candidates(heap) = {}
      BY <1>6 DEF EndTruncation
    <2>2. CutState(heap, merged, input.limit, rounds)
      BY <1>3, <2>1
    <2>3. ASSUME OverLimit(heap, input.limit)
          PROVE  \/ OverLimit(CutLongerThan(merged, CutLength), input.limit)
                 \/ Cardinality(Truncatable(merged)) > MaxTruncateIterations
      <3>1. rounds >= MaxTruncateIterations \/ Candidates(heap) = {}
        BY <1>1, <2>1, <2>3, RoundsAssumption DEF MoreRounds
      <3> QED BY <1>1, <2>2, <2>3, <3>1, CutStateEnd
    <2> QED BY <2>1, <2>2, <2>3 DEF FitsIfItCan
  <1>7. CASE UNCHANGED vars
    <2>1. /\ pc' = pc /\ merged' = merged /\ input' = input /\ rounds' = rounds /\ heap' = heap
      BY <1>7 DEF vars
    <2> QED BY <1>3, <2>1 DEF FitsIfItCan, PathsAreOwn
  <1>8. StartRecord \/ MakeAddition \/ EnrichFails \/ LogRecord => pc' \notin {"truncate", "write"}
    BY DEF StartRecord, MakeAddition, EnrichFails, LogRecord, MoveOn
  <1> QED BY <1>4, <1>5, <1>6, <1>7, <1>8 DEF Next

THEOREM CutInvariance == Spec => []CutInv
  <1>1. Init => CutInv
    BY DEF Init, CutInv
  <1> QED BY <1>1, CutStep, RecordInvariance, PTL DEF Spec

(* A record leaves truncation over the limit only if cutting all of its strings
   would not be enough or there are more of them than rounds, provided that no
   path into it shares its last cell (truncate.go:19-22, 43-121). *)
THEOREM FitsIfItCanHolds == Spec => []FitsIfItCan
  <1>1. RecordInv /\ CutInv => FitsIfItCan
    BY DEF CutInv, FitsIfItCan
  <1> QED BY <1>1, CutInvariance, RecordInvariance, PTL

(* A string is cut only where cutting all longer ones would not have been
   enough, under the same proviso (truncate.go:43-121). *)
THEOREM CutsOnlyWhatMustHolds == Spec => []CutsOnlyWhatMust
  <1>1. RecordInv /\ CutInv => CutsOnlyWhatMust
    <2> SUFFICES ASSUME RecordInv, CutInv, pc = "write", PathsAreOwn, NEW e \in Entries(merged),
                        ValueAt(heap, e) # ValueAt(merged, e)
                 PROVE  OverLimit(CutLongerThan(merged, ValueAt(merged, e).len), input.limit)
      BY DEF CutsOnlyWhatMust
    <2>1. CutSoFar(heap, merged) /\ MustCut(heap, merged, input.limit) /\ IsHeap(merged)
      BY TypeParts DEF CutInv, CutState, RecordInv
    <2>2. e \in Changed(heap, merged)
      BY <2>1, OnlyStringsChange
    <2> QED BY <2>1, <2>2 DEF MustCut
  <1> QED BY <1>1, CutInvariance, RecordInvariance, PTL
=============================================================================
