-------------------------- MODULE MCRecordPipeline --------------------------
(***************************************************************************)
(* RecordPipeline for records of some 200 bytes before the client's data,   *)
(* with the names and lengths of the real fields.  Six destinations: one    *)
(* adds nothing; one adds a long text, copies a nested map and a string      *)
(* from inside it; one takes its level from the client and may fail; one's   *)
(* limit is shorter than the marker; one is in text format; and one is a     *)
(* Graylog server whose messages have room for 30 bytes of text.           *)
(***************************************************************************)
EXTENDS RecordPipeline

MCKeyLen ==
    [v |-> 1, name |-> 4, hostname |-> 8, pid |-> 3, level |-> 5, msg |-> 3, time |-> 4,
     site_id |-> 7, client_ip |-> 9, message |-> 7, page |-> 4, ctx |-> 3, tags |-> 4,
     user_agent |-> 10, full_message |-> 12]
MCKeys == DOMAIN MCKeyLen
MCOrigins == {"base", "client", "default", "dest", "printed", "rule", "rule 1", "rule 2", "server"}
MCObjects == {Client, "ctx", "ctx.page", "ctx.page.ctx"}

MCBaseRecord ==
    [v |-> Scalar("int", 1, "base"), name |-> Text(11, "base"), hostname |-> Text(8, "base"),
     pid |-> Scalar("int", 4, "base"), level |-> DefaultLogLevel, msg |-> Text(0, "base"),
     site_id |-> Text(6, "base"), client_ip |-> Text(15, "base")]

(* The client's data: its top fields and what is nested in "ctx". *)
Sent(top, ctx, inner, innermost) ==
    [o \in MCObjects |-> CASE o = Client         -> top
                           [] o = "ctx"          -> ctx
                           [] o = "ctx.page"     -> inner
                           [] o = "ctx.page.ctx" -> innermost]
Nothing == <<>>

MCSent ==
    {\* no data, as for a downloaded script
     Sent(Nothing, Nothing, Nothing, Nothing),
     \* texts longer and shorter than the time, and just over the minimum
     Sent([message |-> Text(256, "client"), page |-> Text(31, "client"),
           tags |-> Text(12, "client"), level |-> Scalar("numeral", 2, "client")],
          Nothing, Nothing, Nothing),
     \* fields of the server's own record; msg beside message
     Sent([message |-> Scalar("float", 3, "client"), msg |-> Text(40, "client"),
           v |-> Scalar("float", 1, "client"), time |-> Text(40, "client"),
           level |-> Text(4, "client"), client_ip |-> Scalar("null", 4, "client")],
          Nothing, Nothing, Nothing),
     \* strings at the second and third level
     Sent([ctx |-> Obj("ctx"), level |-> Scalar("float", 2, "client")],
          [page |-> Obj("ctx.page"), tags |-> Text(100, "client")],
          [msg |-> Text(60, "client"), v |-> Scalar("bool", 4, "client")], Nothing),
     \* a string at the fourth level, with neighbours
     Sent([ctx |-> Obj("ctx"), level |-> Scalar("bool", 4, "client")],
          [page |-> Obj("ctx.page")], [ctx |-> Obj("ctx.page.ctx")],
          [msg |-> Text(200, "client"), v |-> Scalar("float", 3, "client"),
           tags |-> Text(12, "client")]),
     \* a message that is a map, which another field holds too
     Sent([message |-> Obj("ctx"), page |-> Obj("ctx"), level |-> Scalar("decimal", 3, "client")],
          [page |-> Obj("ctx.page"), tags |-> Text(60, "client")],
          [msg |-> Scalar("null", 4, "client"), v |-> Text(11, "client")], Nothing)}

Add(source, name, value) == [source |-> source, name |-> name, value |-> value, path |-> <<>>]
Post(name, path) == [source |-> "post", name |-> name, value |-> NoValue, path |-> path]

MCRuleAdds ==
    {<<>>,
     <<Add("static", "tags", Text(20, "rule 1")), Add("request", "tags", Text(24, "rule 2")),
       Add("request", "page", NoValue), Add("remove", "client_ip", NoValue)>>,
     <<Add("static", "level", Scalar("decimal", 3, "rule")), Post("page", <<"message">>),
       Add("remove", "name", NoValue)>>,
     <<Add("static", "level", Text(4, "rule"))>>}

MCLimits == {0, 230, 300, 420, 10000}

MCInputs == [sent : MCSent, ruleAdds : MCRuleAdds, limit : MCLimits]

MCTargets == <<"plain", "added", "levelled", "tiny", "text", "graylog">>
MCDestAdds ==
    [plain    |-> <<>>,
     added    |-> <<Add("static", "tags", Text(150, "dest")), Post("user_agent", <<"ctx", "page">>),
                    Post("site_id", <<"ctx", "tags">>)>>,
     levelled |-> <<Post("level", <<"level">>), Add("remove", "tags", NoValue)>>,
     tiny     |-> <<>>,
     text     |-> <<>>,
     graylog  |-> <<Post("message", <<"page">>), Post("full_message", <<"message">>)>>]
MCDestKind ==
    [d \in DOMAIN MCDestAdds |->
        CASE d = "graylog" -> "gelf" [] d = "text" -> "text" [] OTHER -> "json"]
MCSpaced == {"client"}
MCMaxMessage ==
    [plain |-> 4096, added |-> 250, levelled |-> 150, tiny |-> 80, text |-> 240,
     graylog |-> 1054]
=============================================================================
