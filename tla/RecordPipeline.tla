--------------------------- MODULE RecordPipeline ---------------------------
(***************************************************************************)
(* The records of one POST /log: the body of the loop of                    *)
(* processAndLogToDestinations that LogDispatch leaves abstract.  For every *)
(* target destination the base record is copied, enriched, merged with the  *)
(* client's data, cut to the server's limit and handed to the destination.  *)
(* The maps nested in the client's data are one and the same  *)
(* in the records of all destinations, so what is cut for one is cut for    *)
(* the next.                                                               *)
(***************************************************************************)
EXTENDS Enrichment, Truncation, DestinationOutput

CONSTANTS
    Inputs,     \* [sent, ruleAdds, limit]: client's data, rules' additions, limit
    Targets,    \* sequence of destinations
    DestAdds,   \* add_log_data of each destination
    DestKind,   \* "json" or "text" for the format of a file, or "gelf"
    MaxMessage  \* max_message_size of each destination; 0 is no limit (gelf)

ASSUME PipelineAssumption ==
    /\ \A in \in Inputs : /\ IsData(in.sent, Objects)
                          /\ in.ruleAdds \in Seq(Addition)
                          /\ in.limit \in Nat
    /\ Targets \in Seq(DOMAIN MaxMessage)
    /\ DestAdds \in [DOMAIN MaxMessage -> Seq(Addition)]
    /\ DestKind \in [DOMAIN MaxMessage -> {"json", "text", "gelf"}]
    /\ \A d \in DOMAIN MaxMessage :
         MaxMessage[d] \in Nat /\ (DestKind[d] # "gelf" => MaxMessage[d] > 0)

VARIABLES
    input,      \* the request and the configuration it meets
    heap,       \* the record in the making and the client's data
    dest,       \* position in Targets
    pc,         \* "copy", "add", "truncate", "write" or "done"
    next,       \* position in Adds of the next addition
    rounds,     \* of the truncation of the current record
    merged,     \* the heap when the current record was merged (for properties)
    lines       \* what each position of Targets got

vars == <<input, heap, dest, pc, next, rounds, merged, lines>>

NotTried == Output("untried", 0)
Skipped == Output("skipped", 0)

\* What the additions of the current destination are, in their order.
Adds == AddOrder(input.ruleAdds, DestAdds[Targets[dest]])

TypeOK ==
    /\ input \in Inputs
    /\ IsHeap(heap) /\ IsHeap(merged)
    /\ dest \in 1..Len(Targets) + 1
    /\ pc \in {"copy", "add", "truncate", "write", "done"}
    /\ pc = "done" <=> dest = Len(Targets) + 1
    /\ next \in Nat
    /\ pc = "add" => next \in 1..Len(Adds) + 1
    /\ rounds \in 0..MaxTruncateIterations
    /\ lines \in [1..Len(Targets) ->
                    [kind : {"untried", "skipped", "record", "essential", "marker", "cut", "text",
                             "gelf"},
                     len : Nat]]

NoRecord == [k \in {} |-> NoValue]

Init ==
    /\ input \in Inputs
    /\ heap = With(input.sent, Root, NoRecord)
    /\ dest = 1
    /\ pc = IF Targets = <<>> THEN "done" ELSE "copy"
    /\ next = 1
    /\ rounds = 0
    /\ merged = heap
    /\ lines = [i \in 1..Len(Targets) |-> NotTried]

EarlierRecord(earlier) ==                           \* mutant: the map is not copied
    IF earlier = NoRecord THEN BaseRecord ELSE earlier
(* The record a destination starts from: a copy of the base record, whatever
   earlier destinations made of theirs. *)
FreshCopy(earlier) == BaseRecord

StartRecord ==
    /\ pc = "copy"
    /\ heap' = [heap EXCEPT ![Root] = FreshCopy(heap[Root])]
    /\ next' = 1
    /\ pc' = "add"
    /\ UNCHANGED <<input, dest, rounds, merged, lines>>

\* processAddLogData for the next of the rules' and the destination's additions.
MakeAddition ==
    /\ pc = "add"
    /\ next <= Len(Adds)
    /\ ~Fails(heap, Adds[next])
    /\ heap' = [heap EXCEPT ![Root] = Apply(heap, heap[Root], Adds[next])]
    /\ next' = next + 1
    /\ UNCHANGED <<input, dest, pc, rounds, merged, lines>>

MoveOn ==
    /\ dest' = dest + 1
    /\ pc' = IF dest < Len(Targets) THEN "copy" ELSE "done"

FailureEndsLoop ==                                  \* mutant: return for continue
    /\ pc = "add"
    /\ next <= Len(Adds)
    /\ Fails(heap, Adds[next])
    /\ lines' = [lines EXCEPT ![dest] = Skipped]
    /\ dest' = Len(Targets) + 1
    /\ pc' = "done"
    /\ UNCHANGED <<input, heap, next, rounds, merged>>
\* EnrichAndMerge fails: an error is logged, and the next destination is tried.
EnrichFails ==
    /\ pc = "add"
    /\ next <= Len(Adds)
    /\ Fails(heap, Adds[next])
    /\ lines' = [lines EXCEPT ![dest] = Skipped]
    /\ MoveOn
    /\ UNCHANGED <<input, heap, next, rounds, merged>>

MergeRecord ==
    /\ pc = "add"
    /\ next = Len(Adds) + 1
    /\ heap' = [heap EXCEPT ![Root] = Merge(heap, heap[Root])]
    /\ merged' = heap'
    /\ rounds' = 0
    /\ pc' = "truncate"
    /\ UNCHANGED <<input, dest, next, lines>>

\* One round of TruncateMapIfNeeded.
CutString ==
    /\ pc = "truncate"
    /\ OverLimit(heap, input.limit)
    /\ MoreRounds(rounds)
    /\ \E e \in Candidates(heap) : \E f \in WrittenTo(heap, e) : heap' = WriteCut(heap, e, f)
    /\ rounds' = rounds + 1
    /\ UNCHANGED <<input, dest, pc, next, merged, lines>>

(* The record fits, no round is left, or nothing can be cut.  In the last case
   handleNestedStructures finds the record itself to be the largest structure,
   cannot replace it at an empty path, and changes nothing. *)
EndTruncation ==
    /\ pc = "truncate"
    /\ \/ ~OverLimit(heap, input.limit)
       \/ ~MoreRounds(rounds)
       \/ Candidates(heap) = {}
    /\ pc' = "write"
    /\ UNCHANGED <<input, heap, dest, next, rounds, merged, lines>>

Written(h, d) ==
    CASE DestKind[d] = "json" -> {JSONLine(h, MaxMessage[d])}
      [] DestKind[d] = "text" -> TextLines(h, MaxMessage[d])
      [] DestKind[d] = "gelf" -> {GelfText(h, MaxMessage[d])}

\* loggerInstance.Log: whether the write succeeds does not change what follows.
LogRecord ==
    /\ pc = "write"
    /\ \E line \in Written(heap, Targets[dest]) : lines' = [lines EXCEPT ![dest] = line]
    /\ MoveOn
    /\ UNCHANGED <<input, heap, next, rounds, merged>>

Next ==
    \/ StartRecord \/ MakeAddition \/ EnrichFails \/ MergeRecord
    \/ CutString \/ EndTruncation
    \/ LogRecord

Spec == Init /\ [][Next]_vars

\* The handler's goroutine runs on: nothing in the loop waits.
FairSpec == Spec /\ WF_vars(Next)
-----------------------------------------------------------------------------
(* Reading of the client's data that an earlier destination may have cut: an
   addition that took its value from inside a nested map, and a message that is
   such a map and is printed. *)
ReadInside(k) ==
    \E i \in Deciding(input.sent, Adds, k) :
        Adds[i].source = "post" /\ Len(Adds[i].path) > 1
PrintsMap(k) ==
    LET sent == input.sent[Client]
    IN  /\ k = "msg" /\ "msg" \notin DOMAIN sent
        /\ "message" \in DOMAIN sent /\ IsObj(sent["message"])
FromInside(k) == ReadInside(k) \/ PrintsMap(k)

(* Every destination's record follows the order of precedence, client's data
   over its own additions over the rules' over the base record, judged by the
   data as the client sent it: nothing of an earlier destination's record shows
   in it, except inside nested maps, which are shared
   (common_log.go:64-92, enricher.go:82-136). *)
SourcesInOrder ==
    (pc = "truncate" /\ rounds = 0) =>
        LET wanted(k) == ReferenceValue(input.sent, Adds, k)
            said == [k \in {k \in Keys : wanted(k) # NoValue} |-> wanted(k)]
            whole == EnsureBunyanFields(With(said, "time", ServerTime))
        IN  \A k \in Keys : ~FromInside(k) =>
              /\ k \in DOMAIN merged[Root] <=> k \in DOMAIN whole
              /\ k \in DOMAIN whole => merged[Root][k] = whole[k]

(* What is handed to a destination has all the fields of a Bunyan record,
   whatever the additions remove and truncation cuts; the time is the server's;
   "v" and "pid" are no floating-point numbers; and the level is an integer
   unless the client sent a level that is neither number nor string, which is
   then there as it was sent (enricher.go:128-133, 225-274).  The other types
   that Bunyan asks for are not ensured: BunyanTypes. *)
BunyanFields ==
    pc = "write" =>
        LET record == heap[Root]
            sent == input.sent[Client]
        IN  /\ {"v", "name", "hostname", "pid", "level", "msg", "time"} \subseteq DOMAIN record
            /\ record["time"].of = ServerTime.of
            /\ record["v"].kind # "float" /\ record["pid"].kind # "float"
            /\ \/ record["level"].kind = "int"
               \/ /\ "level" \in DOMAIN sent /\ record["level"] = sent["level"]
                  /\ sent["level"].kind \in {"bool", "null", "obj"}

(* No string that may be cut has a path that shares its last cell. *)
PathsAreOwn ==
    \A e \in Truncatable(merged) : WrittenTo(merged, e) = {e}

(* Truncation brings a record under the limit whenever cutting its strings can:
   it ends over the limit only if the record would still be too long with every
   string cut (truncate.go:19-22, 43-121). *)
FitsIfItCan ==
    (pc = "write" /\ PathsAreOwn /\ OverLimit(heap, input.limit)) =>
        \/ OverLimit(CutLongerThan(merged, CutLength), input.limit)
        \/ Cardinality(Truncatable(merged)) > MaxTruncateIterations

(* A string is cut only if cutting all longer ones would not have been enough:
   so the time, the last of the server's own fields that may be cut, survives
   whenever longer strings can pay for it. *)
CutsOnlyWhatMust ==
    (pc = "write" /\ PathsAreOwn) =>
        \A e \in Entries(merged) :
            ValueAt(heap, e) # ValueAt(merged, e) =>
                OverLimit(CutLongerThan(merged, ValueAt(merged, e).len), input.limit)

(* No line of a file is longer than the destination's max_message_size, and a
   fragment of JSON is written only where not even the marker fits
   (file_logger.go:138-149, 295-352). *)
FileLinesFit ==
    \A i \in DOMAIN lines : DestKind[Targets[i]] # "gelf" =>
        LET maxSize == MaxMessage[Targets[i]]
        IN  /\ lines[i].len <= maxSize
            /\ lines[i].kind = "cut" => maxSize < MarkerSize

(* What is handed to a destination keeps to its limit: a file's lines do, and
   the texts of a GELF message leave GelfOverhead bytes of the limit to its
   other fields, if the limit has as many (gelf_logger.go:142-163). *)
OutputFits ==
    /\ FileLinesFit
    /\ \A i \in DOMAIN lines :
         LET maxSize == MaxMessage[Targets[i]]
         IN  lines[i].kind = "gelf" /\ maxSize > 0 =>
               lines[i].len <= AtLeast(maxSize - GelfOverhead, 0)

(* Every target gets a line, or is skipped because of an addition that fails;
   neither a failed addition nor a record that cannot be cut to the limit keeps
   the loop from the destinations that follow (common_log.go:57-118). *)
EveryDestinationTried ==
    <>(pc = "done" /\ \A i \in DOMAIN lines : lines[i] # NotTried)

(* What the comment on TruncateMapIfNeeded says (truncate.go:19-22): a round
   changes an entry that holds a longest string, and no other. *)
CutsTheLongest ==
    [][pc = "truncate" =>
         \A e \in Entries(heap) :
            heap'[e[1]][e[2]] # ValueAt(heap, e) => e \in Longest(heap)]_vars

(* What the comments on ensureBunyanFields say (enricher.go:225-270): all the
   required fields have the types that Bunyan asks for. *)
BunyanTypes ==
    pc = "write" =>
        LET record == heap[Root]
        IN  /\ \A k \in {"v", "level", "pid"} : record[k].kind = "int"
            /\ \A k \in {"name", "hostname", "msg", "time"} : IsStr(record[k])
=============================================================================
