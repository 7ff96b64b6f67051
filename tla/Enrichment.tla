----------------------------- MODULE Enrichment -----------------------------
(***************************************************************************)
(* EnrichAndMerge: a record is made of the base record, the rules'          *)
(* add_log_data, the destination's add_log_data and the client's data, in   *)
(* this order, the later one winning; the time is set last, and then the    *)
(* fields that Bunyan requires are completed.  The loop over the additions   *)
(* is in RecordPipeline.                                                   *)
(*                                                                         *)
(* An addition is [source, name, value, path].  "static", and "request" for *)
(* a header or a query parameter, carry a value (NoValue for one that is    *)
(* absent); "post" has a path into the client's data; "remove" is the       *)
(* static value "false", which deletes the field.                          *)
(***************************************************************************)
EXTENDS Records

CONSTANT BaseRecord     \* CreateBaseRecord(siteID, gtmID, clientIP)

NoValue == [kind |-> "none", len |-> 0, of |-> ""]

Addition ==
    {add \in [source : {"static", "request", "post", "remove"}, name : Keys,
              value : Value \cup {NoValue}, path : Seq(Keys)] :
       add.source = "post" => add.path # <<>>}

BunyanNames == {"v", "name", "hostname", "pid", "level", "msg", "time"}

ASSUME EnrichmentAssumption ==
    /\ BunyanNames \subseteq Keys
    /\ {"server", "default", "printed"} \subseteq Origins
    /\ IsFields(BaseRecord)
    /\ "level" \in DOMAIN BaseRecord => BaseRecord["level"].kind = "int"

TimeLength == 30        \* of time.RFC3339Nano with all its digits
ServerTime == Text(TimeLength, "server")
DefaultLogLevel == Scalar("int", 2, "default")

(* A number keeps its printed length when it becomes an integer. *)
ToInt(v) == Scalar("int", v.len, v.of)

(* Field k of value v. *)
FieldOf(heap, v, k) ==
    IF IsObj(v) /\ k \in DOMAIN heap[v.of] THEN heap[v.of][k] ELSE NoValue

(* getValueFromMap with the dotted name split into a path: key by key. *)
Walk(heap, path) ==
    LET value[n \in 0..Len(path)] ==
          IF n = 0 THEN Obj(Client) ELSE FieldOf(heap, value[n - 1], path[n])
    IN  value
PostValue(heap, path) == Walk(heap, path)[Len(path)]

Found(heap, add) == IF add.source = "post" THEN PostValue(heap, add.path) ELSE add.value

(* processAddLogData returns an error: an addition to the level is no number. *)
Fails(heap, add) ==
    /\ add.source # "remove"
    /\ add.name = "level"
    /\ Found(heap, add).kind \notin {"none", "numeral", "decimal", "float"}

(* A level that an addition sets is parsed as a floating-point number. *)
AsNumber(v) == Scalar("float", v.len, v.of)

(* processAddLogData on one record, where it does not fail. *)
Apply(heap, record, add) ==
    LET v == Found(heap, add)
    IN  IF add.source = "remove"
          THEN Restrict(record, DOMAIN record \ {add.name})
        ELSE IF v = NoValue
          THEN record
        ELSE With(record, add.name,
                  IF add.name = "level" THEN AsNumber(v) ELSE v)

\* The order of the two sources: the rules' first, then the destination's.
AddOrder(ruleAdds, destAdds) == ruleAdds \o destAdds

(* A string as it is, anything else as fmt.Sprintf("%v", v). *)
Printed(heap, v) ==
    IF IsStr(v) THEN v ELSE Text(PrintedSize(heap, v), IF IsObj(v) THEN "printed" ELSE v.of)

(* The client's fields as they enter the record: "message" becomes "msg"
   unless there is a "msg" too. *)
ClientFields(heap) ==
    LET data == heap[Client]
        others == Restrict(data, DOMAIN data \ {"message"})
    IN  IF "message" \in DOMAIN data /\ data["message"].kind # "null"
          THEN Over(others, [msg |-> Printed(heap, data["message"])])
          ELSE others

(* Defaults of ensureBunyanFields for fields that are missing. *)
BunyanDefaults ==
    [v |-> Scalar("int", 1, "default"), name |-> Text(11, "default"),
     level |-> DefaultLogLevel, hostname |-> Text(8, "default"),
     pid |-> Scalar("int", 4, "default"), msg |-> Text(0, "default"), time |-> ServerTime]

AsItIs(v) == v                                      \* mutant: no conversion
EnsuredLevel(v) ==
    CASE v.kind \in {"float", "numeral"} -> ToInt(v)
      [] v.kind \in {"str", "decimal"}   -> DefaultLogLevel
      [] OTHER                           -> v

EnsureBunyanFields(record) ==
    LET full == Over(record, BunyanDefaults)
    IN  [k \in DOMAIN full |->
           CASE k = "level"                                        -> EnsuredLevel(full[k])
             [] k \in {"v", "pid"} /\ full[k].kind = "float"       -> ToInt(full[k])
             [] OTHER                                              -> full[k]]

(* The record that EnrichAndMerge returns, once the additions are made. *)
Merge(heap, record) ==
    EnsureBunyanFields(With(Over(ClientFields(heap), record), "time", ServerTime))

(***************************************************************************)
(* The declarative counterpart.  The value of a field is the client's if    *)
(* the client sent one, otherwise that of the last addition that has        *)
(* something to say about it, otherwise that of the base record.            *)
(***************************************************************************)
Speaks(heap, add, k) ==
    add.name = k /\ (add.source = "remove" \/ Found(heap, add) # NoValue)

(* The addition that decides field k, as a set of at most one. *)
Deciding(heap, adds, k) ==
    {i \in DOMAIN adds : /\ Speaks(heap, adds[i], k)
                         /\ \A j \in DOMAIN adds : Speaks(heap, adds[j], k) => j <= i}

ReferenceValue(heap, adds, k) ==
    LET sent == ClientFields(heap)
        last == Deciding(heap, adds, k)
        found(i) == IF k = "level" THEN AsNumber(Found(heap, adds[i])) ELSE Found(heap, adds[i])
        value(i) == IF adds[i].source = "remove" THEN NoValue ELSE found(i)
    IN  IF k \in DOMAIN sent THEN sent[k]
        ELSE IF last # {} THEN value(CHOOSE i \in last : TRUE)
        ELSE IF k \in DOMAIN BaseRecord THEN BaseRecord[k]
        ELSE NoValue
=============================================================================
