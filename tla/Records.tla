------------------------------ MODULE Records ------------------------------
(***************************************************************************)
(* The data of a log record on its way to the destinations.  In Go a record *)
(* is a map whose values are strings, numbers, booleans, null, or further   *)
(* maps; maps are references, so a nested map of the client's data stands   *)
(* in every record it was copied into.  The model keeps that: a heap gives  *)
(* the fields of every object, and a value of kind "obj" names an object.   *)
(* Lists behave as maps whose keys are their indices.                      *)
(*                                                                         *)
(* A text is its length and where it came from; characters that JSON        *)
(* escapes are not modelled.                                               *)
(***************************************************************************)
EXTENDS Integers, Sequences, FiniteSets, Functions

CONSTANTS
    Keys,       \* names of fields
    KeyLen,     \* how long each name is
    Origins,    \* where texts and numbers come from
    Objects,    \* the client's data, Client itself and the maps nested in it
    MaxDepth    \* bound: what is nested deeper has no size and is not visited

\* The object names of the record being made and of the client's data.
Root == "record"
Client == "client"

ASSUME RecordsAssumption ==
    /\ IsFiniteSet(Keys) /\ KeyLen \in [Keys -> Nat]
    /\ IsFiniteSet(Objects) /\ Client \in Objects /\ Root \notin Objects
    /\ MaxDepth \in 1..4

(* A numeral is a string that strconv.Atoi reads, a decimal one that only
   ParseFloat does, as "3.5" and "1e3" are. *)
Kinds == {"str", "numeral", "decimal", "int", "float", "bool", "null"}

(* No map holds the record, or the client's data as a whole. *)
Value ==
    [kind : Kinds, len : Nat, of : Origins]
      \cup [kind : {"obj"}, len : {0}, of : Objects \ {Client}]
IsFields(f) ==
    f = [k \in DOMAIN f |-> f[k]] /\ DOMAIN f \subseteq Keys /\ \A k \in DOMAIN f : f[k] \in Value
IsData(data, objects) ==
    data = [o \in objects |-> data[o]] /\ \A o \in objects : IsFields(data[o])
IsHeap(h) == IsData(h, Objects \cup {Root})

\* Field k of a map set to v; a map, and what another one has beyond it.
With(f, k, v) == [x \in DOMAIN f \cup {k} |-> IF x = k THEN v ELSE f[x]]
Over(f, g) == [x \in DOMAIN f \cup DOMAIN g |-> IF x \in DOMAIN f THEN f[x] ELSE g[x]]

Text(n, of) == [kind |-> "str", len |-> n, of |-> of]
Scalar(kind, n, of) == [kind |-> kind, len |-> n, of |-> of]
Obj(o) == [kind |-> "obj", len |-> 0, of |-> o]

IsStr(v) == v.kind \in {"str", "numeral", "decimal"}
IsObj(v) == v.kind = "obj"

(* Bytes a value takes in JSON, its fields excluded when it is an object. *)
ScalarSize(v) == IF IsStr(v) THEN v.len + 2 ELSE v.len

(* Bytes of an object whose values take the given sizes: braces, and for every
   field its quoted name, a colon, and a comma between two fields. *)
FieldsSize(sizes) ==
    IF DOMAIN sizes = {} THEN 2
    ELSE 1 + SumFunction([k \in DOMAIN sizes |-> KeyLen[k] + 4 + sizes[k]])

(* The size of every object, given the sizes of those nested in it. *)
SizesFrom(heap, inner) ==
    [o \in DOMAIN heap |->
       FieldsSize([k \in DOMAIN heap[o] |->
         IF IsObj(heap[o][k]) THEN inner[heap[o][k].of] ELSE ScalarSize(heap[o][k])])]

(* estimateSize of every object, with d levels of nesting. *)
Sizes(heap) ==
    LET sizes[d \in 0..MaxDepth + 1] ==
          IF d = 0 THEN [o \in DOMAIN heap |-> 0] ELSE SizesFrom(heap, sizes[d - 1])
    IN  sizes

ObjectSize(heap, o) == Sizes(heap)[MaxDepth + 1][o]
RecordSize(heap) == ObjectSize(heap, Root)

(* What %v prints: a string without quotes, null as <nil>, and a map as
   map[key:value key:value]. *)
PrintedScalar(v) == IF v.kind = "null" THEN 5 ELSE v.len

PrintedMap(sizes) ==
    IF DOMAIN sizes = {} THEN 5
    ELSE 4 + SumFunction([k \in DOMAIN sizes |-> KeyLen[k] + 2 + sizes[k]])

PrintedFrom(heap, inner) ==
    [o \in DOMAIN heap |->
       PrintedMap([k \in DOMAIN heap[o] |->
         IF IsObj(heap[o][k]) THEN inner[heap[o][k].of] ELSE PrintedScalar(heap[o][k])])]

PrintedSizes(heap) ==
    LET sizes[d \in 0..MaxDepth + 1] ==
          IF d = 0 THEN [o \in DOMAIN heap |-> 0] ELSE PrintedFrom(heap, sizes[d - 1])
    IN  sizes

PrintedSize(heap, v) ==
    IF IsObj(v) THEN PrintedSizes(heap)[MaxDepth + 1][v.of] ELSE PrintedScalar(v)

(* The objects that these objects hold. *)
HeldBy(heap, objects) ==
    UNION {{heap[o][k].of : k \in {k \in DOMAIN heap[o] : IsObj(heap[o][k])}} : o \in objects}

(* The objects reached from the record by a path of d keys.  An object that
   the record holds twice may stand at two depths. *)
Layers(heap) ==
    LET at[d \in 0..MaxDepth] == IF d = 0 THEN {Root} ELSE HeldBy(heap, at[d - 1])
    IN  at
AtDepth(heap, d) == Layers(heap)[d]

Reached(heap) == UNION {AtDepth(heap, d) : d \in 0..MaxDepth}

(* Entries: the places a value stands at. *)
Entries(heap) == UNION {{<<o, k>> : k \in DOMAIN heap[o]} : o \in Reached(heap)}
ValueAt(heap, e) == heap[e[1]][e[2]]
=============================================================================
