------------------------- MODULE DestinationOutput -------------------------
(***************************************************************************)
(* What a destination makes of a record.                                   *)
(*                                                                         *)
(* A file in JSON format gets a line.  A record that is longer than the     *)
(* destination's limit is replaced by its essential fields,                 *)
(* each cut to a share of the limit; if these are still too long, by a      *)
(* fixed marker; and if the limit is shorter than the marker, by its first  *)
(* bytes, which are no JSON.                                               *)
(*                                                                         *)
(* A file in text format gets "[time] LEVEL: msg key=value ...", cut to the  *)
(* limit.                                                                   *)
(*                                                                         *)
(* Graylog gets a message: of its size only the short and the full text are *)
(* limited, by what the limit leaves after 1024 bytes for everything else.  *)
(* That the other fields, every field of the record among them, fit in      *)
(* these is not checked, so the model counts the two texts only.            *)
(***************************************************************************)
EXTENDS Records

CONSTANT Spaced     \* origins of texts with a space in them

EssentialFields == {"time", "level", "hostname", "pid", "name", "site_id", "ip_address",
                    "user_agent", "x_forwarded_for"}

LogErrorSize == 10 + 4 + 44 + 2     \* "_log_error":"Original message ... limit",
MarkerSize == 86                    \* {"_log_error":"... (details also truncated)"}

AtLeast(n, low) == IF n < low THEN low ELSE n
AtMost(n, high) == IF n <= high THEN n ELSE high

MaxLengthPerField(maxSize) ==
    LET fields == Cardinality(EssentialFields)
        space == AtLeast(maxSize - 200 - fields * 30, 50)
    IN  AtLeast(space \div fields, 10)

(* truncateString: the suffix "...truncated" is inside the length. *)
TruncateString(v, n) == [v EXCEPT !.len = AtMost(v.len, n)]

EssentialSize(heap, maxSize) ==
    LET perField == MaxLengthPerField(maxSize)
        size(v) == IF IsObj(v) THEN ObjectSize(heap, v.of)
                   ELSE IF IsStr(v) THEN ScalarSize(TruncateString(v, perField))
                   ELSE ScalarSize(v)
        kept == EssentialFields \cap DOMAIN heap[Root]
    IN  1 + LogErrorSize + SumFunction([k \in kept |-> KeyLen[k] + 4 + size(heap[Root][k])])

Output(kind, len) == [kind |-> kind, len |-> len]

NoFinalCheck(heap, maxSize) ==                      \* mutant: essential fields always fit
    Output("essential", EssentialSize(heap, maxSize))
\* createTruncatedJSONRecord
TruncatedLine(heap, maxSize) ==
    IF EssentialSize(heap, maxSize) <= maxSize
      THEN Output("essential", EssentialSize(heap, maxSize))
    ELSE IF MarkerSize <= maxSize
      THEN Output("marker", MarkerSize)
      ELSE Output("cut", maxSize)

\* FileLogger.Log up to the write, the newline not counted.
JSONLine(heap, maxSize) ==
    IF RecordSize(heap) <= maxSize
      THEN Output("record", RecordSize(heap))
      ELSE TruncatedLine(heap, maxSize)

TimestampSize == 26                 \* [2006-01-02T15:04:05.000Z]

\* levelToString: INFO and WARN have four letters, the other names five.
LevelNameLengths(record) ==
    IF "level" \in DOMAIN record /\ record["level"].kind \in {"int", "float"} THEN {4, 5} ELSE {4}

\* A message that is no string is written as a dash.
MsgSize(record) ==
    IF "msg" \in DOMAIN record /\ IsStr(record["msg"]) THEN record["msg"].len ELSE 1

\* formatValue: a string with a space is quoted, null is <nil>, an object JSON.
FormattedSize(heap, v) ==
    CASE IsObj(v)         -> ObjectSize(heap, v.of)
      [] IsStr(v)         -> v.len + IF v.of \in Spaced THEN 2 ELSE 0
      [] v.kind = "null"  -> 5
      [] OTHER            -> v.len

\* formatText and FileLogger.Log up to the write, for any level.
TextLines(heap, maxSize) ==
    LET record == heap[Root]
        fields == SumFunction([k \in DOMAIN record \ {"time", "level", "msg"} |->
                                 KeyLen[k] + 2 + FormattedSize(heap, record[k])])
    IN  {Output("text", AtMost(TimestampSize + 2 + n + 1 + MsgSize(record) + fields, maxSize))
           : n \in LevelNameLengths(record)}

GelfOverhead == 1024

\* getString(record, "message", "No message")
ShortText(heap) ==
    IF "message" \in DOMAIN heap[Root] THEN PrintedSize(heap, heap[Root]["message"]) ELSE 10

FullText(record) ==
    IF "full_message" \in DOMAIN record /\ IsStr(record["full_message"])
      THEN record["full_message"].len
      ELSE 0

\* GelfLogger.Log up to WriteMessage; a limit of 0 is none.
GelfText(heap, maxSize) ==
    LET short == ShortText(heap)
        full == FullText(heap[Root])
        available == AtLeast(maxSize - GelfOverhead, 0)
    IN  IF maxSize = 0
          THEN Output("gelf", short + full)
        ELSE IF short > available
          THEN Output("gelf", AtMost(short, available))     \* the full text is cleared
          ELSE Output("gelf", short + AtMost(full, available - short))
=============================================================================
