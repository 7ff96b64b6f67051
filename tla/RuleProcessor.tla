---------------------------- MODULE RuleProcessor ----------------------------
(***************************************************************************)
(* RuleProcessor.Process (internal/rules/processor.go): the loop over the   *)
(* rules of log_config that decides, for one request, whether to log,      *)
(* where to, with which additional data and which scripts.  The rules and   *)
(* the request do not change during a call; one step is one round of the   *)
(* loop.  The two maps it accumulates come out as slices in the order of a  *)
(* Go map iteration.                                                       *)
(***************************************************************************)
EXTENDS Naturals, Sequences, FiniteSets

CONSTANTS
    RuleSet,     \* the rules a configuration is made of
    RequestSet,  \* site_id, gtm_id and the *http.Request
    MaxRules,    \* bound: rules in one configuration
    Names,       \* add_log_data names
    Values,      \* and values, with their source
    Urls,        \* script_injection URLs
    Trusted,     \* addresses inside server.trusted_proxies
    Nil          \* no entry, no value, no address, no restriction

Add == [name : Names, value : Values]
Script == [url : Urls, async : BOOLEAN]
Lists(S) == UNION {[1 .. n -> S] : n \in 0 .. MaxRules}

\* Of a rule the loop itself looks at these fields.
ASSUME RulesAssumption ==
    /\ MaxRules \in Nat
    /\ \A u \in RuleSet :
        /\ {u.enabled, u.continue, u.downloads, u.track} \subseteq BOOLEAN
        /\ u.adds \in Seq(Add) /\ u.scripts \in Seq(Script)
    /\ Nil \notin Add \cup Script

VARIABLES
    rules,    \* compiledRules
    req,
    next,     \* the rule the loop is at
    phase,
    adds,     \* accumulatedDataMap
    scripts,  \* accumulatedScriptsMap
    result

vars == <<rules, req, next, phase, adds, scripts, result>>

-----------------------------------------------------------------------------
(* The client's address and the condition of a rule *)

\* GetClientIP.  A header that holds no address is passed over.  Process
\* passes no client_ip_header (useHeader = FALSE), its callers do.
AnySender(r) == TRUE                             \* mutant: headers are always believed
FromProxy(r) == r.remote \in Trusted

GetClientIP(r, useHeader) ==
    IF FromProxy(r) /\ useHeader /\ r.realIP # Nil THEN r.realIP
    ELSE IF FromProxy(r) /\ r.forwarded # Nil THEN r.forwarded
    ELSE r.remote

\* A header condition is "absent", "present" or the value required.
HeaderMatches(want, value) ==
    CASE want = "absent"  -> value = Nil
      [] want = "present" -> value # Nil
      [] OTHER            -> value = want

\* matchCompiledCondition: an empty field restricts nothing.  A glob stands for
\* the user agents it matches, a CIDR for the addresses it contains.
Matches(c, r) ==
    /\ c.site \in {Nil, r.site}
    /\ c.gtms = {} \/ r.gtm \in c.gtms
    /\ \A h \in DOMAIN c.headers : HeaderMatches(c.headers[h], r.headers[h])
    /\ c.agents = {} \/ \E g \in c.agents : r.agent \in g
    /\ c.cidrs = {} \/ \E n \in c.cidrs : GetClientIP(r, FALSE) \in n

-----------------------------------------------------------------------------
Applies(u) == u.enabled /\ Matches(u.condition, req)

NoResult == [inject |-> FALSE, log |-> FALSE, downloads |-> FALSE, track |-> FALSE,
             dests |-> Nil, addList |-> <<>>, scriptList |-> <<>>]

TypeOK ==
    /\ rules \in Seq(RuleSet)
    /\ req \in RequestSet
    /\ next \in 1 .. Len(rules) + 1
    /\ phase \in {"rules", "slices", "done"}
    /\ adds \in [Names -> Add \cup {Nil}]
    /\ scripts \in [Urls -> Script \cup {Nil}]
    /\ {result.inject, result.log, result.downloads, result.track} \subseteq BOOLEAN
    /\ result.log => phase # "rules"

Init ==
    /\ rules \in Lists(RuleSet)
    /\ req \in RequestSet
    /\ next = 1
    /\ phase = "rules"
    /\ adds = [n \in Names |-> Nil]
    /\ scripts = [u \in Urls |-> Nil]
    /\ result = NoResult

\* The positions of a rule's lists that concern a name or a URL.
AddsOf(u, n) == {k \in DOMAIN u.adds : u.adds[k].name = n}
ScriptsOf(u, l) == {k \in DOMAIN u.scripts : u.scripts[k].url = l}
FirstOf(K) == CHOOSE k \in K : \A j \in K : k <= j
LastOf(K) == CHOOSE k \in K : \A j \in K : j <= k

FirstAddKept(u) ==                               \* mutant: the first write wins
    [n \in Names |-> IF adds[n] # Nil \/ AddsOf(u, n) = {} THEN adds[n]
                     ELSE u.adds[LastOf(AddsOf(u, n))]]
MergeAdds(u) ==
    [n \in Names |-> IF AddsOf(u, n) = {} THEN adds[n] ELSE u.adds[LastOf(AddsOf(u, n))]]

LastScriptKept(u) ==                             \* mutant: a later script replaces it
    [l \in Urls |-> IF ScriptsOf(u, l) = {} THEN scripts[l]
                    ELSE u.scripts[FirstOf(ScriptsOf(u, l))]]
MergeScripts(u) ==
    [l \in Urls |-> IF scripts[l] # Nil \/ ScriptsOf(u, l) = {} THEN scripts[l]
                    ELSE u.scripts[FirstOf(ScriptsOf(u, l))]]

\* Only an option set to true is taken over (track stands for both options).
Accumulated(u) == [result EXCEPT !.inject = TRUE, !.track = @ \/ u.track]

Decided(u) == [Accumulated(u) EXCEPT
    !.log = TRUE,
    !.downloads = u.downloads,
    !.dests = IF u.dests = <<>> THEN Nil ELSE u.dests]

AtRule == phase = "rules" /\ next <= Len(rules)

SkipRule ==
    /\ AtRule
    /\ ~Applies(rules[next])
    /\ next' = next + 1
    /\ UNCHANGED <<rules, req, phase, adds, scripts, result>>

Accumulate ==
    /\ adds' = MergeAdds(rules[next])
    /\ scripts' = MergeScripts(rules[next])
    /\ next' = next + 1
    /\ UNCHANGED <<rules, req>>

ContinueRule ==
    /\ AtRule
    /\ Applies(rules[next])
    /\ rules[next].continue
    /\ Accumulate
    /\ result' = Accumulated(rules[next])
    /\ UNCHANGED phase

NoBreak == "rules"                               \* mutant: the break is missing
AfterFinal == "slices"

FinalRule ==
    /\ AtRule
    /\ Applies(rules[next])
    /\ ~rules[next].continue
    /\ Accumulate
    /\ result' = Decided(rules[next])
    /\ phase' = AfterFinal

RulesEnd ==
    /\ phase = "rules"
    /\ next = Len(rules) + 1
    /\ phase' = "slices"
    /\ UNCHANGED <<rules, req, next, adds, scripts, result>>

ValuesOf(m) == {m[x] : x \in DOMAIN m} \ {Nil}

\* A map's values in any order, each once.
Slices(m) ==
    {s \in [1 .. Cardinality(ValuesOf(m)) -> ValuesOf(m)] :
        /\ \A v \in ValuesOf(m) : \E k \in DOMAIN s : s[k] = v
        /\ \A j, k \in DOMAIN s : s[j] = s[k] => j = k}

Convert ==
    /\ phase = "slices"
    /\ \E a \in Slices(adds), s \in Slices(scripts) :
        result' = [result EXCEPT !.addList = a, !.scriptList = s]
    /\ phase' = "done"
    /\ UNCHANGED <<rules, req, next, adds, scripts>>

Next == SkipRule \/ ContinueRule \/ FinalRule \/ RulesEnd \/ Convert

Spec == Init /\ [][Next]_vars

-----------------------------------------------------------------------------
(* Properties.  They are stated over the whole rule list and do not mention  *)
(* the loop.                                                                *)

Matching == {i \in DOMAIN rules : Applies(rules[i])}
Final == {i \in Matching : ~rules[i].continue}

\* Rules that count: the matching ones up to the first final one.
Counted == {i \in Matching : \A f \in Final : i <= f}

\* Logging is decided by the first matching rule without "continue" and by
\* nothing else: destinations and download logging are those of that rule, and
\* without one nothing is logged, whatever continuing rules say, as the
\* README's rule logic has it (README.md:371-384).  The comment on the field
\* promises otherwise for script downloads: DownloadsAccumulate.
FirstFinalDecides ==
    phase = "done" =>
        /\ result.log = (Final # {})
        /\ \A f \in Final \cap Counted :
            /\ result.downloads = rules[f].downloads
            /\ result.dests = IF rules[f].dests = <<>> THEN Nil ELSE rules[f].dests
        /\ Final = {} => ~result.downloads /\ result.dests = Nil

InList(x, s) == \E k \in DOMAIN s : s[k] = x

\* Of the data the rules that count add under one name, the last is kept and
\* it is in the result once, in whatever order the map is read.
LastAddWins ==
    phase = "done" =>
        /\ \A j, k \in DOMAIN result.addList :
            result.addList[j].name = result.addList[k].name => j = k
        /\ \A a \in Add : InList(a, result.addList) <=>
            \E i \in Counted : \E k \in AddsOf(rules[i], a.name) :
                /\ rules[i].adds[k] = a
                /\ \A m \in AddsOf(rules[i], a.name) : m <= k
                /\ \A j \in Counted : AddsOf(rules[j], a.name) # {} => j <= i

\* Of the scripts they inject under one URL, the first is kept.
FirstScriptWins ==
    phase = "done" =>
        /\ \A j, k \in DOMAIN result.scriptList :
            result.scriptList[j].url = result.scriptList[k].url => j = k
        /\ \A s \in Script : InList(s, result.scriptList) <=>
            \E i \in Counted : \E k \in ScriptsOf(rules[i], s.url) :
                /\ rules[i].scripts[k] = s
                /\ \A m \in ScriptsOf(rules[i], s.url) : k <= m
                /\ \A j \in Counted : ScriptsOf(rules[j], s.url) # {} => i <= j

\* Headers name a client only if a trusted proxy sent them: a rule for some
\* networks decides about another sender by the address it sends from.
SenderDecides ==
    \A i \in Matching :
        (rules[i].condition.cidrs # {} /\ req.remote \notin Trusted) =>
            \E n \in rules[i].condition.cidrs : req.remote \in n

(* What a comment says and the code does not do *)

\* config.go:127: log_script_downloads of a rule with "continue" accumulates.
\* The final rule's value replaces what the continuing ones said.
DownloadsAccumulate ==
    (phase = "done" /\ result.log) =>
        \A i \in Counted : rules[i].continue /\ rules[i].downloads => result.downloads
=============================================================================
