----------------------------- MODULE Truncation -----------------------------
(***************************************************************************)
(* TruncateMapIfNeeded, one round at a time: as long as the record is over  *)
(* the limit, a longest string anywhere in it is cut to ten characters and  *)
(* "...".  Cutting a string of 11 or 12 characters makes it longer, and one *)
(* of 13 stays as it is and is found again, until the rounds run out.       *)
(*                                                                         *)
(* The place of the longest string is a Go slice that append extended at    *)
(* every level.  Its fourth element is appended to a slice of length 3 and  *)
(* capacity 4, so the paths of all entries of one object at that depth      *)
(* share their last cell, and the path found ends with the entry visited    *)
(* last.  The order of a Go map being random, that is any entry.  Deeper    *)
(* cells are shared in the same way from the sixth on, hence the bound on   *)
(* the nesting in Records.                                                 *)
(***************************************************************************)
EXTENDS Records

CONSTANT MaxTruncateIterations

ASSUME RoundsAssumption == MaxTruncateIterations \in Nat \ {0}

MinTruncateLength == 10
CutLength == MinTruncateLength + 3
SharedPathLength == 4

Cut(v) == Text(CutLength, v.of)

(* Strings long enough to be cut, and the longest of them. *)
Truncatable(heap) ==
    {e \in Entries(heap) : /\ IsStr(ValueAt(heap, e))
                           /\ ValueAt(heap, e).len > MinTruncateLength}

Longest(heap) ==
    LET strings == Truncatable(heap)
    IN  {e \in strings : \A f \in strings : ValueAt(heap, f).len <= ValueAt(heap, e).len}

(* Where the cut text of string e may be written, o being the object of e and
   every depth o stands at giving a path. *)
WrittenTo(heap, e) ==
    UNION {IF d + 1 = SharedPathLength
             THEN {<<e[1], k>> : k \in DOMAIN heap[e[1]]}
             ELSE {e}
           : d \in {d \in 0..MaxDepth : e[1] \in AtDepth(heap, d)}}

(* The heap after one round that found string e and wrote to entry f. *)
WriteCut(heap, e, f) == [heap EXCEPT ![f[1]][f[2]] = Cut(ValueAt(heap, e))]

AnyTruncatable(heap) == Truncatable(heap)           \* mutant: not the longest
\* What a round may find.
Candidates(heap) == Longest(heap)

OverLimit(heap, limit) == limit > 0 /\ RecordSize(heap) > limit

OneMoreRound(rounds) == rounds <= MaxTruncateIterations     \* mutant: off by one
OneRound(rounds) == rounds < 1                              \* mutant: no loop
(* One more round: the record is too long and rounds are left. *)
MoreRounds(rounds) == rounds < MaxTruncateIterations

(* The declarative counterpart: every string of the record that is longer than
   n is cut, no other. *)
CutLongerThan(heap, n) ==
    LET reached == Reached(heap)
    IN  [o \in DOMAIN heap |-> [k \in DOMAIN heap[o] |->
           IF o \in reached /\ IsStr(heap[o][k]) /\ heap[o][k].len > n
             THEN Cut(heap[o][k])
             ELSE heap[o][k]]]
=============================================================================
