------------------------------ MODULE LogHandler ------------------------------
(***************************************************************************)
(* The two handlers a page talks to: GET /logger.js (internal/handler/     *)
(* loggerjs.go), which tells it whether to log and gives it a token, and   *)
(* POST /log (log.go), which takes its records; and the token functions of  *)
(* internal/security/token.go.  Time passes between any two steps and       *)
(* between the two requests.                                               *)
(*                                                                         *)
(* What the rules decide is RuleProcessor's subject and here a function of  *)
(* the request; whether the limiter admits it is RateLimiter's, and what    *)
(* the destinations do LogDispatch's: both outcomes are possible here.      *)
(***************************************************************************)
EXTENDS Naturals, FiniteSets

CONSTANTS
    Requests,   \* handler goroutines: slots that serve one request after another
    Sites,      \* what clients send as site_id
    Gtms,       \* and as gtm_id
    NoGtm,      \* the empty gtm_id
    ValidIds,   \* those IsValidID accepts
    Traits,     \* what else of a request the rules look at
    Decision,   \* what the rules decide: "off", "log" or "downloads" (log these too)
    Message(_, _, _),   \* the text a token signs
    Garbage,    \* a token whose signature fits no message
    Sec,        \* clock ticks in a second
    Duration,   \* token expiration, in ticks
    MaxTime,    \* bound on the clock
    MaxIssued   \* bound: no script is asked for once so many tokens are out

GtmIds == Gtms \cup {NoGtm}
Times == 0 .. MaxTime

\* LoadConfig requires a positive expiration.  Messages of valid ids differ.
ASSUME HandlerAssumption ==
    /\ Decision \in [Sites \X GtmIds \X Traits -> {"off", "log", "downloads"}]
    /\ Sec \in Nat \ {0} /\ Duration \in Nat \ {0}
    /\ MaxTime \in Nat /\ MaxIssued \in Nat
    /\ Sites # {} /\ Traits # {}
    /\ NoGtm \notin ValidIds
    /\ \A s1, s2 \in Sites \cap ValidIds, g1, g2 \in (Gtms \cap ValidIds) \cup {NoGtm} :
        \A e1, e2 \in 0 .. MaxTime + Duration :
            Message(s1, g1, e1) = Message(s2, g2, e2) => s1 = s2 /\ g1 = g2 /\ e1 = e2
    /\ \A s \in Sites, g \in GtmIds, e \in 0 .. MaxTime + Duration :
            Message(s, g, e) # Garbage.sig
    /\ Garbage \in [exp : 0 .. MaxTime + Duration, sig : {Garbage.sig}]

VARIABLES
    clock,
    issued,     \* history: the tokens given out, to whom and when
    pc,         \* of each request
    req,        \* what was sent
    checkedAt,  \* history: when the token was checked
    admitted,   \* the limiter let the request in
    stored,     \* a destination stored its record
    header      \* X-Log-Status of the answer

vars == <<clock, issued, pc, req, checkedAt, admitted, stored, header>>

\* A body that does not bind (too large, no JSON, a required field missing),
\* or whose data is nested too deeply, or neither.
Bodies == {"unbound", "nested", "good"}

Signatures == {Garbage.sig} \cup
    {Message(s, g, e) : s \in Sites, g \in GtmIds, e \in 0 .. MaxTime + Duration}
Token == [exp : 0 .. MaxTime + Duration, sig : Signatures]
Page == [site : Sites, gtm : GtmIds, traits : Traits, token : Token, at : Times]
Request == [kind : {"js", "log"}, site : Sites, gtm : GtmIds, traits : Traits,
            token : Token, body : Bodies]

TypeOK ==
    /\ clock \in Times
    /\ issued \subseteq Page
    /\ pc \in [Requests -> {"idle", "query", "script", "download", "respond",
                            "limit", "bind", "token", "rules", "dispatch", "done"}]
    /\ req \in [Requests -> Request]
    /\ checkedAt \in [Requests -> Times]
    /\ admitted \in [Requests -> BOOLEAN]
    /\ stored \in [Requests -> BOOLEAN]
    /\ header \in [Requests -> {"none", "success", "error", "failure",
                                "script_download_success", "script_download_error"}]

NoRequest == [kind |-> "js", site |-> CHOOSE s \in Sites : TRUE, gtm |-> NoGtm,
              traits |-> CHOOSE w \in Traits : TRUE, token |-> Garbage, body |-> "good"]

Init ==
    /\ clock = 0
    /\ issued = {}
    /\ pc = [r \in Requests |-> "idle"]
    /\ req = [r \in Requests |-> NoRequest]
    /\ checkedAt = [r \in Requests |-> 0]
    /\ admitted = [r \in Requests |-> FALSE]
    /\ stored = [r \in Requests |-> FALSE]
    /\ header = [r \in Requests |-> "none"]

Tick ==
    /\ clock < MaxTime
    /\ clock' = clock + 1
    /\ UNCHANGED <<issued, pc, req, checkedAt, admitted, stored, header>>

-----------------------------------------------------------------------------
(* Helpers *)

\* The identifiers of a request, with the gtm_id optional.
AnyIds(q) == TRUE                                \* mutant: the format is not checked
IdsValid(q) == q.site \in ValidIds /\ q.gtm \in ValidIds \cup {NoGtm}

DecisionFor(q) == Decision[<<q.site, q.gtm, q.traits>>]

InTheWrongUnit(t) == (t + Duration) * Sec        \* mutant: a duration taken for seconds
\* GenerateToken: the expiry is rounded down to a second, .Unix().
ExpiresAt(t) == ((t + Duration) \div Sec) * Sec

WithoutGtm(q, t) ==                              \* mutant: only the site is signed
    [exp |-> ExpiresAt(t), sig |-> Message(q.site, NoGtm, ExpiresAt(t))]
NewToken(q, t) == [exp |-> ExpiresAt(t), sig |-> Message(q.site, q.gtm, ExpiresAt(t))]

\* ValidateToken
TokenValid(q, t) ==
    /\ q.token.sig = Message(q.site, q.gtm, q.token.exp)
    /\ t <= q.token.exp

Goto(r, l) == pc' = [pc EXCEPT ![r] = l]

Begin(r, q, l) ==
    /\ pc[r] \in {"idle", "done"}
    /\ Goto(r, l)
    /\ req' = [req EXCEPT ![r] = q]
    /\ checkedAt' = [checkedAt EXCEPT ![r] = 0]
    /\ admitted' = [admitted EXCEPT ![r] = FALSE]
    /\ stored' = [stored EXCEPT ![r] = FALSE]
    /\ header' = [header EXCEPT ![r] = "none"]
    /\ UNCHANGED <<clock, issued>>

Forward(r, l) == Goto(r, l) /\ UNCHANGED <<clock, issued, req, checkedAt, stored, header>>

-----------------------------------------------------------------------------
(* GET /logger.js *)

GetScript(r, s, g, w) ==
    /\ Cardinality(issued) < MaxIssued
    /\ Begin(r, [NoRequest EXCEPT !.site = s, !.gtm = g, !.traits = w], "query")

\* A missing or malformed id gets a script that logs nothing.
CheckQuery(r) ==
    /\ pc[r] = "query"
    /\ Forward(r, IF IdsValid(req[r]) THEN "script" ELSE "done")
    /\ UNCHANGED admitted

DecideScript(r) ==
    /\ pc[r] = "script"
    /\ Forward(r, IF DecisionFor(req[r]) = "downloads" THEN "download" ELSE "respond")
    /\ UNCHANGED admitted

\* processAndLogToDestinations for the download itself
RecordDownload(r) ==
    /\ pc[r] = "download"
    /\ \E ok \in BOOLEAN :
        /\ stored' = [stored EXCEPT ![r] = ok]
        /\ header' = [header EXCEPT ![r] =
             IF ok THEN "script_download_success" ELSE "script_download_error"]
    /\ Goto(r, "respond")
    /\ UNCHANGED <<clock, issued, req, checkedAt, admitted>>

\* A token is generated only if the rules decide to log.
RespondScript(r) ==
    LET q == req[r] IN
    /\ pc[r] = "respond"
    /\ Goto(r, "done")
    /\ issued' = IF DecisionFor(q) = "off" THEN issued
                 ELSE issued \cup {[site |-> q.site, gtm |-> q.gtm, traits |-> q.traits,
                                    token |-> NewToken(q, clock), at |-> clock]}
    /\ UNCHANGED <<clock, req, checkedAt, admitted, stored, header>>

ScriptStep(r) ==
    \/ CheckQuery(r)
    \/ DecideScript(r)
    \/ RecordDownload(r)
    \/ RespondScript(r)

-----------------------------------------------------------------------------
(* POST /log *)

\* A beacon may be late, sent twice or never; a page may have been served by
\* another site's script.
Post(r, s, g, w, k, b) ==
    Begin(r, [kind |-> "log", site |-> s, gtm |-> g, traits |-> w, token |-> k, body |-> b],
          "limit")

\* rateLimitMiddleware
Admit(r) ==
    /\ pc[r] = "limit"
    /\ Forward(r, "bind")
    /\ admitted' = [admitted EXCEPT ![r] = TRUE]

Refuse(r) ==
    /\ pc[r] = "limit"
    /\ Forward(r, "done")
    /\ UNCHANGED admitted

BodyAccepted(q) == q.body = "good" /\ IdsValid(q)

\* ShouldBindJSON, IsValidID, SanitizeMapRecursively: the client gets an OK.
Bind(r) ==
    /\ pc[r] = "bind"
    /\ Forward(r, IF BodyAccepted(req[r]) THEN "token" ELSE "done")
    /\ UNCHANGED admitted

CheckToken(r) ==
    /\ pc[r] = "token"
    /\ checkedAt' = [checkedAt EXCEPT ![r] = clock]
    /\ \/ /\ TokenValid(req[r], clock)
          /\ Goto(r, "rules")
          /\ UNCHANGED header
       \/ /\ ~TokenValid(req[r], clock)
          /\ Goto(r, "done")
          /\ header' = [header EXCEPT ![r] = "failure"]
    /\ UNCHANGED <<clock, issued, req, admitted, stored>>

ApplyRules(r) ==
    /\ pc[r] = "rules"
    /\ Forward(r, IF DecisionFor(req[r]) = "off" THEN "done" ELSE "dispatch")
    /\ UNCHANGED admitted

AlwaysSuccess(ok) == "success"                   \* mutant: the result is not looked at
LogStatus(ok) == IF ok THEN "success" ELSE "error"

\* processAndLogToDestinations, and the header from its result
Dispatch(r) ==
    /\ pc[r] = "dispatch"
    /\ \E ok \in BOOLEAN :
        /\ stored' = [stored EXCEPT ![r] = ok]
        /\ header' = [header EXCEPT ![r] = LogStatus(ok)]
    /\ Goto(r, "done")
    /\ UNCHANGED <<clock, issued, req, checkedAt, admitted>>

LogStep(r) ==
    \/ Admit(r) \/ Refuse(r)
    \/ Bind(r)
    \/ CheckToken(r)
    \/ ApplyRules(r)
    \/ Dispatch(r)

-----------------------------------------------------------------------------
Known == {p.token : p \in issued} \cup {Garbage}

Arrive(r) ==
    \E s \in Sites, g \in GtmIds, w \in Traits :
        \/ GetScript(r, s, g, w)
        \/ \E k \in Known, b \in Bodies : Post(r, s, g, w, k, b)

Next ==
    \/ Tick
    \/ \E r \in Requests : Arrive(r) \/ ScriptStep(r) \/ LogStep(r)

Spec == Init /\ [][Next]_vars

-----------------------------------------------------------------------------
(* Properties *)

\* The page p sent this record with the ids and the token it was given.
SentBy(p, r) ==
    /\ req[r].kind = "log"
    /\ req[r].site = p.site /\ req[r].gtm = p.gtm
    /\ req[r].token = p.token

PastToken(r) == pc[r] \in {"rules", "dispatch"} \/ header[r] \in {"success", "error"}

Backed(r) ==
    \E p \in issued :
        /\ SentBy(p, r)
        /\ p.at <= checkedAt[r] /\ checkedAt[r] <= p.at + Duration

\* However late, mixed up or malformed requests are: a record gets past the
\* token check only if a script with just these two ids was given just this
\* token, no longer ago than a token lives.
Authorised == \A r \in Requests : PastToken(r) => Backed(r)

\* A page that was told to log can log: its well-formed records are neither
\* rejected nor dropped in silence until a second before its token's nominal
\* end (the rounding may take up to a second), if the limiter admits them.
ToldMeansLogged ==
    \A r \in Requests : \A p \in issued :
        (/\ pc[r] = "done"
         /\ SentBy(p, r)
         /\ req[r].traits = p.traits /\ req[r].body = "good"
         /\ admitted[r]
         /\ checkedAt[r] + Sec <= p.at + Duration)
            => header[r] \in {"success", "error"}

\* X-Log-Status says what became of the record: stored exactly if it says so,
\* and silence means that it could not be read or the rules did not want it.
AnswerTellsOutcome ==
    \A r \in Requests :
        pc[r] = "done" =>
            /\ stored[r] <=> header[r] \in {"success", "script_download_success"}
            /\ (req[r].kind = "log" /\ admitted[r] /\ header[r] = "none") =>
                    ~BodyAccepted(req[r]) \/ DecisionFor(req[r]) = "off"
=============================================================================
