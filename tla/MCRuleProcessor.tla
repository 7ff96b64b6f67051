--------------------------- MODULE MCRuleProcessor ---------------------------
(***************************************************************************)
(* RuleProcessor on every list of up to four rules out of seven: rules that *)
(* continue, final ones, a disabled one; with conditions on the site, the   *)
(* container, a header, the user agent and the address.                    *)
(***************************************************************************)
EXTENDS RuleProcessor

All == [site |-> Nil, gtms |-> {}, headers |-> <<>>, agents |-> {}, cidrs |-> {}]
Rule == [enabled |-> TRUE, continue |-> TRUE, condition |-> All, adds |-> <<>>,
         scripts |-> <<>>, downloads |-> FALSE, track |-> FALSE, dests |-> <<>>]

AddOf(n, v) == [name |-> n, value |-> v]
ScriptAt(u, a) == [url |-> u, async |-> a]

MCRuleSet == {
    [Rule EXCEPT !.adds = <<AddOf("team", 1), AddOf("team", 2)>>, !.track = TRUE,
                 !.scripts = <<ScriptAt("/a.js", TRUE)>>],
    [Rule EXCEPT !.condition.site = "shop", !.downloads = TRUE,
                 !.adds = <<AddOf("team", 1), AddOf("agent", 1)>>,
                 !.scripts = <<ScriptAt("/a.js", FALSE), ScriptAt("/b.js", TRUE)>>],
    [Rule EXCEPT !.condition.cidrs = {{"intranet"}}, !.adds = <<AddOf("agent", 2)>>],
    [Rule EXCEPT !.continue = FALSE, !.condition.gtms = {"G1", "G2"}, !.downloads = TRUE,
                 !.dests = <<"audit">>],
    [Rule EXCEPT !.continue = FALSE, !.adds = <<AddOf("team", 2)>>,
                 !.condition.headers = [h \in {"DNT"} |-> "absent"]],
    [Rule EXCEPT !.continue = FALSE, !.enabled = FALSE],
    [Rule EXCEPT !.continue = FALSE, !.condition.agents = {{"bot"}}, !.dests = <<"bots">>,
                 !.condition.headers = [h \in {"DNT"} |-> "present"],
                 !.scripts = <<ScriptAt("/b.js", FALSE)>>]}

Request == [site |-> "shop", gtm |-> "G1", headers |-> [h \in {"DNT"} |-> Nil],
            agent |-> "browser", remote |-> "home", realIP |-> Nil, forwarded |-> Nil]

\* An outsider and a trusted proxy send the same forwarding header.
MCRequestSet == {
    Request,
    [Request EXCEPT !.gtm = Nil, !.headers["DNT"] = "1", !.agent = "bot"],
    [Request EXCEPT !.gtm = Nil, !.headers["DNT"] = "1", !.forwarded = "intranet"],
    [Request EXCEPT !.gtm = Nil, !.site = "blog", !.remote = "proxy", !.forwarded = "intranet"]}
=============================================================================
