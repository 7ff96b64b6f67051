--------------------------- MODULE LogHandlerProofs ---------------------------
(***************************************************************************)
(* Type correctness of LogHandler and its authorisation property, for any   *)
(* ids, rules, expiration and number of requests.  The invariant below ties *)
(* each stage of a request to what was checked before it: the ids are valid *)
(* from the first check on, a token that was sent is one that was given out *)
(* or signs nothing, and what was given out carries the message of its page *)
(* and an expiry no later than its lifetime.                                *)
(***************************************************************************)
EXTENDS LogHandler, TLAPS

Expiries == 0 .. MaxTime + Duration

\* Every token given out signs the valid ids of its page, with its expiry.
IssuedWell ==
    \A p \in issued :
        /\ IdsValid(p)
        /\ p.token = [exp |-> ExpiresAt(p.at), sig |-> Message(p.site, p.gtm, ExpiresAt(p.at))]
        /\ p.at <= clock

\* What the stage of a request says about it.
StageOf(r) ==
    /\ pc[r] \in {"query", "script", "download", "respond"} => req[r].kind = "js"
    /\ pc[r] \in {"limit", "bind", "token", "rules", "dispatch"} => req[r].kind = "log"
    /\ pc[r] \in {"script", "download", "respond", "token", "rules", "dispatch"} =>
            IdsValid(req[r])
    /\ pc[r] \in {"limit", "bind", "token", "rules"} => header[r] = "none"
    /\ req[r].token \in Known

HandlerInv ==
    /\ TypeOK
    /\ IssuedWell
    /\ \A r \in Requests : StageOf(r)
    /\ Authorised

-----------------------------------------------------------------------------
(* Expiry and tokens *)

\* Rounding to a whole second never goes up.
LEMMA RoundedDown ==
  ASSUME NEW x \in Nat, NEW s \in Nat, s > 0
  PROVE  (x \div s) * s \in Nat /\ (x \div s) * s <= x
  <1>1. x \div s \in Nat
    BY SMT
  <1>2. (x \div s) * s <= x
    BY SMT
  <1>3. (x \div s) * s \in Nat
    BY <1>1, SMT
  <1> QED BY <1>2, <1>3

LEMMA ExpiryBound ==
  ASSUME NEW t \in Times
  PROVE  ExpiresAt(t) \in Expiries /\ ExpiresAt(t) <= t + Duration
  <1>1. t + Duration \in Nat /\ Sec \in Nat /\ Sec > 0 /\ t <= MaxTime /\ MaxTime \in Nat
    BY HandlerAssumption DEF Times
  <1>2. Duration \in Nat /\ t \in Nat
    BY HandlerAssumption DEF Times
  <1>3. ExpiresAt(t) \in Nat /\ ExpiresAt(t) <= t + Duration
    BY <1>1, RoundedDown DEF ExpiresAt
  <1> QED BY <1>1, <1>2, <1>3 DEF Expiries

LEMMA NewTokenType ==
  ASSUME NEW q \in Request, NEW t \in Times
  PROVE  NewToken(q, t) \in Token
  BY ExpiryBound DEF NewToken, Token, Signatures, Request, Expiries

LEMMA NoRequestType == NoRequest \in Request /\ NoRequest.token = Garbage /\ NoRequest.kind = "js"
  <1>1. (CHOOSE s \in Sites : TRUE) \in Sites /\ (CHOOSE w \in Traits : TRUE) \in Traits
    BY HandlerAssumption
  <1>2. Garbage \in Token
    BY HandlerAssumption DEF Token, Signatures
  <1> QED BY <1>1, <1>2 DEF NoRequest, Request, GtmIds, Bodies

\* A token is honoured only for the ids it was given out for, within its lifetime.
LEMMA HonouredToken ==
  ASSUME TypeOK, IssuedWell,
         NEW q \in Request, IdsValid(q), q.token \in Known, TokenValid(q, clock)
  PROVE  \E p \in issued :
            /\ p.site = q.site /\ p.gtm = q.gtm /\ p.token = q.token
            /\ p.at <= clock /\ clock <= p.at + Duration
  <1> DEFINE e == q.token.exp
  <1>1. /\ q.site \in Sites /\ q.gtm \in GtmIds /\ q.token \in Token
        /\ e \in 0 .. MaxTime + Duration
    BY DEF Request, Token
  <1>2. q.token # Garbage
    BY <1>1, HandlerAssumption DEF TokenValid
  <1>3. PICK p \in issued : p.token = q.token
    BY <1>2 DEF Known
  <1>4. /\ p \in Page /\ p.at \in Times /\ p.site \in Sites /\ p.gtm \in GtmIds
    BY DEF TypeOK, Page
  <1>5. /\ IdsValid(p) /\ p.at <= clock
        /\ p.token = [exp |-> ExpiresAt(p.at), sig |-> Message(p.site, p.gtm, ExpiresAt(p.at))]
    BY DEF IssuedWell
  <1>6. /\ e = ExpiresAt(p.at)
        /\ Message(p.site, p.gtm, e) = Message(q.site, q.gtm, e)
    BY <1>3, <1>5 DEF TokenValid
  <1>7. p.site = q.site /\ p.gtm = q.gtm
    <2>1. /\ p.site \in Sites \cap ValidIds /\ p.gtm \in (Gtms \cap ValidIds) \cup {NoGtm}
          /\ q.site \in Sites \cap ValidIds /\ q.gtm \in (Gtms \cap ValidIds) \cup {NoGtm}
      BY <1>1, <1>4, <1>5 DEF IdsValid, GtmIds
    <2> QED BY <2>1, <1>1, <1>6, HandlerAssumption
  <1>8. clock <= p.at + Duration
    <2>1. clock <= e
      BY DEF TokenValid
    <2>2. e <= p.at + Duration
      BY <1>4, <1>6, ExpiryBound
    <2>3. clock \in Nat /\ e \in Nat /\ p.at \in Nat /\ Duration \in Nat
      BY <1>1, <1>4, HandlerAssumption DEF TypeOK, Times
    <2> QED BY <2>1, <2>2, <2>3
  <1> QED BY <1>3, <1>5, <1>7, <1>8

-----------------------------------------------------------------------------
(* The steps *)

LEMMA InitHandlerInv == Init => HandlerInv
  <1> SUFFICES ASSUME Init PROVE HandlerInv
    OBVIOUS
  <1>1. TypeOK
    BY NoRequestType, HandlerAssumption DEF Init, TypeOK, Times
  <1>2. IssuedWell /\ (\A r \in Requests : StageOf(r)) /\ Authorised
    BY NoRequestType DEF Init, IssuedWell, StageOf, Known, Authorised, PastToken
  <1> QED BY <1>1, <1>2 DEF HandlerInv

LEMMA TickKeeps == HandlerInv /\ Tick => HandlerInv'
  <1> SUFFICES ASSUME HandlerInv, Tick PROVE HandlerInv'
    OBVIOUS
  <1>1. TypeOK' /\ clock < clock'
    BY HandlerAssumption DEF HandlerInv, TypeOK, Tick, Times
  <1>2. IssuedWell'
    <2> SUFFICES ASSUME NEW p \in issued
                 PROVE  p.at <= clock'
      BY DEF HandlerInv, IssuedWell, Tick, IdsValid, ExpiresAt
    <2>1. p.at \in Nat /\ clock \in Nat /\ clock' \in Nat
      BY <1>1, HandlerAssumption DEF HandlerInv, TypeOK, Times, Page
    <2>2. p.at <= clock
      BY DEF HandlerInv, IssuedWell
    <2> QED BY <1>1, <2>1, <2>2
  <1>3. (\A r \in Requests : StageOf(r))'
    BY DEF HandlerInv, Tick, StageOf, Known, IdsValid
  <1>4. Authorised'
    BY DEF HandlerInv, Tick, Authorised, PastToken, Backed, SentBy
  <1> QED BY <1>1, <1>2, <1>3, <1>4 DEF HandlerInv

\* A request that begins has passed no check yet; the token it brings is known.
LEMMA BeginKeeps ==
  ASSUME HandlerInv, NEW r \in Requests, NEW q \in Request, NEW l \in {"query", "limit"},
         Begin(r, q, l), q.token \in Known, q.kind = IF l = "query" THEN "js" ELSE "log"
  PROVE  HandlerInv'
  <1>1. TypeOK'
    BY HandlerAssumption DEF HandlerInv, TypeOK, Begin, Goto, Times
  <1>2. IssuedWell' /\ Known' = Known
    BY DEF HandlerInv, IssuedWell, Begin, IdsValid, ExpiresAt, Known
  <1>3. ASSUME NEW x \in Requests PROVE StageOf(x)'
    <2>1. CASE x = r
      <3>1. pc'[x] = l /\ req'[x] = q /\ header'[x] = "none"
        BY <2>1 DEF HandlerInv, TypeOK, Begin, Goto
      <3> QED BY <3>1, <1>2 DEF StageOf
    <2>2. CASE x # r
      <3>1. pc'[x] = pc[x] /\ req'[x] = req[x] /\ header'[x] = header[x]
        BY <2>2 DEF HandlerInv, TypeOK, Begin, Goto
      <3> QED BY <3>1, <1>2 DEF HandlerInv, StageOf, IdsValid
    <2> QED BY <2>1, <2>2
  <1>4. Authorised'
    <2> SUFFICES ASSUME NEW x \in Requests, PastToken(x)'
                 PROVE  Backed(x)'
      BY DEF Authorised
    <2>1. x # r
      BY DEF HandlerInv, TypeOK, Begin, Goto, PastToken
    <2>2. pc'[x] = pc[x] /\ req'[x] = req[x] /\ header'[x] = header[x]
          /\ checkedAt'[x] = checkedAt[x] /\ issued' = issued
      BY <2>1 DEF HandlerInv, TypeOK, Begin, Goto
    <2> QED BY <2>2 DEF HandlerInv, Authorised, PastToken, Backed, SentBy
  <1> QED BY <1>1, <1>2, <1>3, <1>4 DEF HandlerInv

LEMMA ArriveKeeps ==
  ASSUME HandlerInv, NEW r \in Requests, Arrive(r)
  PROVE  HandlerInv'
  <1> PICK s \in Sites, g \in GtmIds, w \in Traits :
        \/ GetScript(r, s, g, w)
        \/ \E k \in Known, b \in Bodies : Post(r, s, g, w, k, b)
    BY DEF Arrive
  <1>1. CASE GetScript(r, s, g, w)
    <2> DEFINE q == [NoRequest EXCEPT !.site = s, !.gtm = g, !.traits = w]
    <2>1. q \in Request /\ q.token = Garbage /\ q.kind = "js"
      BY NoRequestType DEF Request
    <2>2. Begin(r, q, "query") /\ q.token \in Known
      BY <1>1, <2>1 DEF GetScript, Known
    <2> QED BY <2>1, <2>2, BeginKeeps
  <1>2. ASSUME NEW k \in Known, NEW b \in Bodies, Post(r, s, g, w, k, b)
        PROVE  HandlerInv'
    <2> DEFINE q == [kind |-> "log", site |-> s, gtm |-> g, traits |-> w, token |-> k,
                     body |-> b]
    <2>1. k \in Token
      <3>1. Garbage \in Token
        BY HandlerAssumption DEF Token, Signatures
      <3> QED BY <3>1 DEF Known, HandlerInv, TypeOK, Page
    <2>2. q \in Request /\ q.token \in Known /\ q.kind = "log"
      BY <2>1 DEF Request
    <2>3. Begin(r, q, "limit")
      BY <1>2 DEF Post
    <2> QED BY <2>2, <2>3, BeginKeeps
  <1> QED BY <1>1, <1>2

\* A step of one request touches no other: what it leaves of its own request decides.
LEMMA OthersUntouched ==
  ASSUME HandlerInv, TypeOK', IssuedWell', NEW r \in Requests,
         issued \subseteq issued',
         \A x \in Requests \ {r} :
            pc'[x] = pc[x] /\ req'[x] = req[x] /\ header'[x] = header[x]
            /\ checkedAt'[x] = checkedAt[x],
         StageOf(r)', PastToken(r)' => Backed(r)'
  PROVE  HandlerInv'
  <1>1. Known \subseteq Known'
    BY DEF Known
  <1>2. ASSUME NEW x \in Requests \ {r} PROVE StageOf(x)'
    BY <1>1, <1>2 DEF HandlerInv, StageOf, IdsValid
  <1>3. ASSUME NEW x \in Requests \ {r}, PastToken(x)' PROVE Backed(x)'
    BY <1>3 DEF HandlerInv, Authorised, PastToken, Backed, SentBy
  <1> QED BY <1>2, <1>3 DEF HandlerInv, Authorised

LEMMA ScriptStepKeeps ==
  ASSUME HandlerInv, NEW r \in Requests, ScriptStep(r)
  PROVE  HandlerInv'
  <1> USE DEF ScriptStep, CheckQuery, DecideScript, RecordDownload, Forward, Goto
  <1>0. TypeOK /\ StageOf(r) /\ req[r] \in Request
    BY DEF HandlerInv, TypeOK
  <1>1. CASE RespondScript(r)
    <2> DEFINE q == req[r]
               page == [site |-> q.site, gtm |-> q.gtm, traits |-> q.traits,
                        token |-> NewToken(q, clock), at |-> clock]
    <2>1. IdsValid(q) /\ page \in Page /\ clock \in Times
      BY <1>0, <1>1, NewTokenType DEF RespondScript, StageOf, TypeOK, Page, Request
    <2>2. issued' \subseteq issued \cup {page} /\ issued \subseteq issued'
      BY <1>1 DEF RespondScript
    <2>3. TypeOK'
      BY <1>0, <1>1, <2>1, <2>2 DEF RespondScript, TypeOK
    <2>4. IssuedWell'
      <3>1. IdsValid(page) /\ page.at <= clock
        BY <2>1, HandlerAssumption DEF IdsValid, Times
      <3>2. page.token = [exp |-> ExpiresAt(page.at),
                          sig |-> Message(page.site, page.gtm, ExpiresAt(page.at))]
        BY DEF NewToken
      <3>3. clock' = clock
        BY <1>1 DEF RespondScript
      <3> HIDE DEF page
      <3> QED BY <2>2, <3>1, <3>2, <3>3 DEF HandlerInv, IssuedWell, IdsValid, ExpiresAt
    <2>5. pc'[r] = "done" /\ req' = req /\ header' = header /\ checkedAt' = checkedAt
      BY <1>0, <1>1 DEF RespondScript, TypeOK
    <2>6. StageOf(r)'
      BY <1>0, <2>2, <2>5 DEF StageOf, Known
    <2>7. PastToken(r)' => Backed(r)'
      BY <2>2, <2>5 DEF HandlerInv, Authorised, PastToken, Backed, SentBy
    <2>8. \A x \in Requests \ {r} : pc'[x] = pc[x]
      BY <1>0, <1>1 DEF RespondScript, TypeOK
    <2> QED BY <2>2, <2>3, <2>4, <2>5, <2>6, <2>7, <2>8, OthersUntouched
  <1>2. CASE ~RespondScript(r)
    <2>1. TypeOK' /\ issued' = issued /\ clock' = clock /\ req' = req /\ checkedAt' = checkedAt
      BY <1>0, <1>2 DEF TypeOK
    <2>2. IssuedWell' /\ Known' = Known
      BY <2>1 DEF HandlerInv, IssuedWell, IdsValid, ExpiresAt, Known
    <2>3. StageOf(r)'
      BY <1>0, <1>2, <2>1, <2>2 DEF StageOf, IdsValid, TypeOK
    <2>4. pc'[r] \notin {"rules", "dispatch"}
          /\ (header'[r] \in {"success", "error"} => header'[r] = header[r])
      BY <1>0, <1>2 DEF TypeOK
    <2>5. PastToken(r)' => Backed(r)'
      BY <2>1, <2>4 DEF HandlerInv, Authorised, PastToken, Backed, SentBy
    <2>6. \A x \in Requests \ {r} : pc'[x] = pc[x] /\ header'[x] = header[x]
      BY <1>0, <1>2 DEF TypeOK
    <2> QED BY <2>1, <2>2, <2>3, <2>5, <2>6, OthersUntouched
  <1> QED BY <1>1, <1>2

\* Only the token check lets a record past it, and it knows the token's page.
LEMMA LogStepKeeps ==
  ASSUME HandlerInv, NEW r \in Requests, LogStep(r)
  PROVE  HandlerInv'
  <1> USE DEF Admit, Refuse, Bind, ApplyRules, Forward, Goto
  <1>0. TypeOK /\ StageOf(r) /\ req[r] \in Request /\ clock \in Times
    BY DEF HandlerInv, TypeOK
  <1>1. issued' = issued /\ clock' = clock /\ req' = req
    BY DEF LogStep, CheckToken, Dispatch
  <1>2. IssuedWell' /\ Known' = Known
    BY <1>1 DEF HandlerInv, IssuedWell, IdsValid, ExpiresAt, Known
  <1>3. TypeOK'
    <2>1. CASE CheckToken(r)
      BY <1>0, <2>1 DEF CheckToken, TypeOK
    <2>2. CASE Dispatch(r)
      <3>1. PICK ok \in BOOLEAN : /\ stored' = [stored EXCEPT ![r] = ok]
                                 /\ header' = [header EXCEPT ![r] = LogStatus(ok)]
        BY <2>2 DEF Dispatch
      <3>2. LogStatus(ok) \in {"success", "error"}
        BY DEF LogStatus
      <3> QED BY <1>0, <2>2, <3>1, <3>2 DEF Dispatch, TypeOK
    <2>3. CASE Admit(r) \/ Refuse(r) \/ Bind(r) \/ ApplyRules(r)
      BY <1>0, <2>3 DEF TypeOK
    <2> QED BY <2>1, <2>2, <2>3 DEF LogStep
  <1>4. \A x \in Requests \ {r} : /\ pc'[x] = pc[x] /\ header'[x] = header[x]
                                  /\ checkedAt'[x] = checkedAt[x]
    BY <1>0 DEF LogStep, CheckToken, Dispatch, TypeOK
  <1>5. StageOf(r)' /\ (PastToken(r)' => Backed(r)')
    <2>1. CASE CheckToken(r) /\ TokenValid(req[r], clock)
      <3>1. pc'[r] = "rules" /\ header' = header /\ checkedAt'[r] = clock /\ pc[r] = "token"
        BY <1>0, <2>1 DEF CheckToken, TypeOK
      <3>2. PICK p \in issued : /\ p.site = req[r].site /\ p.gtm = req[r].gtm
                               /\ p.token = req[r].token
                               /\ p.at <= clock /\ clock <= p.at + Duration
        BY <1>0, <2>1, <3>1, HonouredToken DEF HandlerInv, StageOf
      <3>3. StageOf(r)'
        BY <1>0, <1>1, <1>2, <3>1 DEF StageOf, IdsValid
      <3> QED BY <1>0, <1>1, <3>1, <3>2, <3>3 DEF Backed, SentBy, StageOf
    <2>2. CASE CheckToken(r) /\ ~TokenValid(req[r], clock)
      BY <1>0, <1>1, <1>2, <2>2 DEF CheckToken, TypeOK, StageOf, PastToken
    <2>3. CASE Dispatch(r)
      <3>1. pc[r] = "dispatch" /\ pc'[r] = "done" /\ checkedAt' = checkedAt
        BY <1>0, <2>3 DEF Dispatch, TypeOK
      <3>2. Backed(r)'
        BY <1>1, <3>1 DEF HandlerInv, Authorised, PastToken, Backed, SentBy
      <3> QED BY <1>0, <1>1, <1>2, <3>1, <3>2 DEF StageOf
    <2>4. CASE ApplyRules(r)
      <3>1. pc[r] = "rules" /\ pc'[r] \in {"dispatch", "done"} /\ header' = header
            /\ checkedAt' = checkedAt
        BY <1>0, <2>4 DEF TypeOK
      <3>2. Backed(r)'
        BY <1>1, <3>1 DEF HandlerInv, Authorised, PastToken, Backed, SentBy
      <3> QED BY <1>0, <1>1, <1>2, <3>1, <3>2 DEF StageOf, IdsValid
    <2>5. CASE Admit(r) \/ Refuse(r) \/ Bind(r)
      <3>1. pc'[r] \in {"bind", "token", "done"} /\ header' = header /\ header[r] = "none"
            /\ (pc'[r] = "token" => IdsValid(req[r])) /\ pc[r] \in {"limit", "bind"}
        BY <1>0, <2>5 DEF TypeOK, StageOf, BodyAccepted
      <3> QED BY <1>0, <1>1, <1>2, <3>1 DEF StageOf, IdsValid, PastToken
    <2> QED BY <2>1, <2>2, <2>3, <2>4, <2>5 DEF LogStep
  <1> QED BY <1>1, <1>2, <1>3, <1>4, <1>5, OthersUntouched

-----------------------------------------------------------------------------
(* The theorems *)

\* The invariant holds in every reachable state: each stage of a request of
\* log.go or loggerjs.go knows what the stages before it checked.
THEOREM HandlerInvariance == Spec => []HandlerInv
  <1>1. HandlerInv /\ [Next]_vars => HandlerInv'
    <2> SUFFICES ASSUME HandlerInv, [Next]_vars PROVE HandlerInv'
      OBVIOUS
    <2>1. CASE Tick
      BY <2>1, TickKeeps
    <2>2. CASE \E r \in Requests : Arrive(r) \/ ScriptStep(r) \/ LogStep(r)
      BY <2>2, ArriveKeeps, ScriptStepKeeps, LogStepKeeps
    <2>3. CASE UNCHANGED vars
      BY <2>3 DEF vars, HandlerInv, TypeOK, IssuedWell, StageOf, Known, IdsValid, ExpiresAt,
             Authorised, PastToken, Backed, SentBy
    <2> QED BY <2>1, <2>2, <2>3 DEF Next
  <1> QED BY <1>1, InitHandlerInv, PTL DEF Spec

\* Requests, tokens and answers have the types the handlers give them.
THEOREM HandlerTypeCorrect == Spec => []TypeOK
  <1>1. HandlerInv => TypeOK
    BY DEF HandlerInv
  <1> QED BY <1>1, HandlerInvariance, PTL

\* No record gets past the token check of log.go without a script of /logger.js
\* that was given this token for these ids within the token's lifetime.
THEOREM AuthorisedHolds == Spec => []Authorised
  <1>1. HandlerInv => Authorised
    BY DEF HandlerInv
  <1> QED BY <1>1, HandlerInvariance, PTL

-----------------------------------------------------------------------------
(* What the answer tells *)

AnswerInv ==
    \A r \in Requests :
        /\ stored[r] <=> header[r] \in {"success", "script_download_success"}
        /\ pc[r] = "limit" => ~admitted[r]
        /\ (pc[r] = "done" /\ req[r].kind = "log" /\ admitted[r] /\ header[r] = "none") =>
                ~BodyAccepted(req[r]) \/ DecisionFor(req[r]) = "off"

LEMMA AnswerInvStep ==
  ASSUME TypeOK, HandlerInv, AnswerInv, [Next]_vars
  PROVE  AnswerInv'
  <1> USE DEF Goto, Forward
  <1>1. CASE Tick \/ UNCHANGED vars
    BY <1>1 DEF Tick, vars, AnswerInv, BodyAccepted, IdsValid, DecisionFor
  <1>2. ASSUME NEW r \in Requests, Arrive(r) \/ ScriptStep(r) \/ LogStep(r)
        PROVE  AnswerInv'
    <2>1. ASSUME NEW x \in Requests \ {r}
          PROVE  /\ pc'[x] = pc[x] /\ req'[x] = req[x] /\ stored'[x] = stored[x]
                 /\ admitted'[x] = admitted[x] /\ header'[x] = header[x]
      BY <1>2, <2>1 DEF TypeOK, Arrive, GetScript, Post, Begin, ScriptStep, CheckQuery,
             DecideScript, RecordDownload, RespondScript, LogStep, Admit, Refuse, Bind,
             CheckToken, ApplyRules, Dispatch
    <2>2. /\ stored'[r] <=> header'[r] \in {"success", "script_download_success"}
          /\ pc'[r] = "limit" => ~admitted'[r]
      <3>1. CASE Arrive(r)
        BY <3>1 DEF TypeOK, Arrive, GetScript, Post, Begin
      <3>2. CASE ScriptStep(r)
        BY <3>2 DEF AnswerInv, TypeOK, ScriptStep, CheckQuery, DecideScript, RecordDownload,
               RespondScript
      <3>3. CASE CheckToken(r)
        BY <3>3 DEF AnswerInv, TypeOK, CheckToken, HandlerInv, StageOf
      <3>4. CASE Dispatch(r)
        BY <3>4 DEF TypeOK, Dispatch, LogStatus
      <3>5. CASE Admit(r) \/ Refuse(r) \/ Bind(r) \/ ApplyRules(r)
        BY <3>5 DEF AnswerInv, TypeOK, Admit, Refuse, Bind, ApplyRules
      <3> QED BY <1>2, <3>1, <3>2, <3>3, <3>4, <3>5 DEF LogStep
    <2>3. ASSUME pc'[r] = "done", req'[r].kind = "log", admitted'[r], header'[r] = "none"
          PROVE  ~BodyAccepted(req'[r]) \/ DecisionFor(req'[r]) = "off"
      <3>1. ~Arrive(r)
        BY <2>3 DEF TypeOK, Arrive, GetScript, Post, Begin
      <3>2. ~ScriptStep(r)
        BY <2>3 DEF TypeOK, HandlerInv, StageOf, ScriptStep, CheckQuery, DecideScript,
               RecordDownload, RespondScript
      <3>3. ~Admit(r) /\ ~CheckToken(r) /\ ~Dispatch(r)
        BY <2>3 DEF TypeOK, Admit, CheckToken, Dispatch, LogStatus
      <3>4. ~Refuse(r)
        BY <2>3 DEF AnswerInv, TypeOK, Refuse
      <3>5. CASE Bind(r)
        BY <2>3, <3>5 DEF TypeOK, Bind
      <3>6. CASE ApplyRules(r)
        BY <2>3, <3>6 DEF TypeOK, ApplyRules
      <3> QED BY <1>2, <3>1, <3>2, <3>3, <3>4, <3>5, <3>6 DEF LogStep
    <2> QED BY <2>1, <2>2, <2>3 DEF AnswerInv, BodyAccepted, IdsValid, DecisionFor
  <1> QED BY <1>1, <1>2 DEF Next

\* X-Log-Status of log.go and loggerjs.go says what became of the record.
THEOREM AnswerTellsOutcomeHolds == Spec => []AnswerTellsOutcome
  <1>1. Init => AnswerInv
    BY DEF Init, AnswerInv
  <1>2. HandlerInv /\ AnswerInv /\ [Next]_vars => AnswerInv'
    BY AnswerInvStep DEF HandlerInv
  <1>3. AnswerInv => AnswerTellsOutcome
    BY DEF AnswerInv, AnswerTellsOutcome
  <1> QED BY <1>1, <1>2, <1>3, HandlerInvariance, PTL DEF Spec

-----------------------------------------------------------------------------
(* Whoever is told to log can log *)

\* Tokens go to pages the rules want to hear from, and a record rejected for
\* its token had none that was good at that time.
RejectedInv ==
    /\ \A p \in issued : DecisionFor(p) # "off"
    /\ \A r \in Requests : req[r].kind = "log" =>
        /\ header[r] \in {"none", "success", "error", "failure"}
        /\ header[r] = "failure" => ~TokenValid(req[r], checkedAt[r])

LEMMA RejectedInvStep ==
  ASSUME TypeOK, HandlerInv, RejectedInv, [Next]_vars
  PROVE  RejectedInv'
  <1> USE DEF Goto, Forward
  <1>1. CASE Tick \/ UNCHANGED vars
    BY <1>1 DEF Tick, vars, RejectedInv, TokenValid, DecisionFor
  <1>2. ASSUME NEW r \in Requests, Arrive(r) \/ ScriptStep(r) \/ LogStep(r)
        PROVE  RejectedInv'
    <2>1. ASSUME NEW x \in Requests \ {r}
          PROVE  /\ req'[x] = req[x] /\ header'[x] = header[x]
                 /\ checkedAt'[x] = checkedAt[x]
      BY <1>2, <2>1 DEF TypeOK, Arrive, GetScript, Post, Begin, ScriptStep, CheckQuery,
             DecideScript, RecordDownload, RespondScript, LogStep, Admit, Refuse, Bind,
             CheckToken, ApplyRules, Dispatch
    <2>2. \A p \in issued' : DecisionFor(p) # "off"
      <3>1. CASE RespondScript(r)
        <4>1. PICK p : /\ issued' \subseteq issued \cup {p}
                       /\ DecisionFor(p) = "off" => issued' = issued
          <5> DEFINE n == [site |-> req[r].site, gtm |-> req[r].gtm, traits |-> req[r].traits,
                           token |-> NewToken(req[r], clock), at |-> clock]
          <5>1. DecisionFor(n) = DecisionFor(req[r])
            BY DEF DecisionFor
          <5>2. issued' = IF DecisionFor(req[r]) = "off" THEN issued ELSE issued \cup {n}
            BY <3>1 DEF RespondScript
          <5> QED BY <5>1, <5>2
        <4> QED BY <4>1 DEF RejectedInv, DecisionFor
      <3>2. CASE issued' = issued
        BY <3>2 DEF RejectedInv, DecisionFor
      <3>3. Arrive(r) \/ LogStep(r) => issued' = issued
        BY DEF Arrive, GetScript, Post, Begin, LogStep, Admit, Refuse, Bind, CheckToken,
               ApplyRules, Dispatch
      <3>4. ScriptStep(r) => RespondScript(r) \/ issued' = issued
        BY DEF ScriptStep, CheckQuery, DecideScript, RecordDownload
      <3> QED BY <1>2, <3>1, <3>2, <3>3, <3>4
    <2>3. req'[r].kind = "log" =>
            /\ header'[r] \in {"none", "success", "error", "failure"}
            /\ header'[r] = "failure" => ~TokenValid(req'[r], checkedAt'[r])
      <3>1. CASE Arrive(r)
        BY <3>1 DEF TypeOK, Arrive, GetScript, Post, Begin
      <3>2. CASE ScriptStep(r)
        BY <3>2 DEF TypeOK, HandlerInv, StageOf, ScriptStep, CheckQuery, DecideScript,
               RecordDownload, RespondScript
      <3>3. CASE CheckToken(r)
        <4>1. /\ req'[r] = req[r] /\ checkedAt'[r] = clock
              /\ header[r] = "none"
              /\ header'[r] = "failure" => ~TokenValid(req[r], clock)
              /\ header'[r] \in {"none", "failure"}
          BY <3>3 DEF CheckToken, TypeOK, HandlerInv, StageOf
        <4> QED BY <4>1 DEF TokenValid
      <3>4. CASE Dispatch(r)
        BY <3>4 DEF TypeOK, Dispatch, LogStatus
      <3>5. CASE Admit(r) \/ Refuse(r) \/ Bind(r) \/ ApplyRules(r)
        BY <3>5 DEF RejectedInv, TypeOK, Admit, Refuse, Bind, ApplyRules, TokenValid
      <3> QED BY <1>2, <3>1, <3>2, <3>3, <3>4, <3>5 DEF LogStep
    <2> QED BY <2>1, <2>2, <2>3 DEF RejectedInv, TokenValid
  <1> QED BY <1>1, <1>2 DEF Next

\* Rounding the expiry to a second costs less than a second.
LEMMA ExpiryNotEarly ==
  ASSUME NEW t \in Times
  PROVE  t + Duration < ExpiresAt(t) + Sec
  <1>1. \A x, s \in Nat : s > 0 => x < (x \div s) * s + s
    <2> TAKE x, s \in Nat
    <2> HAVE s > 0
    <2> QED BY SMT
  <1>2. t + Duration \in Nat /\ Sec \in Nat /\ Sec > 0
    BY HandlerAssumption DEF Times
  <1> QED BY <1>1, <1>2 DEF ExpiresAt

\* The records of a page that was told to log, sent in time, are logged.
THEOREM ToldMeansLoggedHolds == Spec => []ToldMeansLogged
  <1>1. Init => RejectedInv /\ AnswerInv
    BY NoRequestType DEF Init, RejectedInv, AnswerInv
  <1>2. HandlerInv /\ AnswerInv /\ RejectedInv /\ [Next]_vars => RejectedInv' /\ AnswerInv'
    BY RejectedInvStep, AnswerInvStep DEF HandlerInv
  <1>3. HandlerInv /\ AnswerInv /\ RejectedInv => ToldMeansLogged
    <2> SUFFICES ASSUME HandlerInv, AnswerInv, RejectedInv,
                        NEW r \in Requests, NEW p \in issued,
                        pc[r] = "done", SentBy(p, r), req[r].traits = p.traits,
                        req[r].body = "good", admitted[r],
                        checkedAt[r] + Sec <= p.at + Duration
                 PROVE  header[r] \in {"success", "error"}
      BY DEF ToldMeansLogged
    <2>1. /\ IdsValid(p) /\ p.at \in Times /\ checkedAt[r] \in Times
          /\ p.token = [exp |-> ExpiresAt(p.at), sig |-> Message(p.site, p.gtm, ExpiresAt(p.at))]
      BY DEF HandlerInv, IssuedWell, TypeOK, Page
    <2>2. BodyAccepted(req[r]) /\ DecisionFor(req[r]) # "off" /\ req[r].kind = "log"
      BY <2>1 DEF SentBy, BodyAccepted, IdsValid, RejectedInv, DecisionFor
    <2>3. checkedAt[r] <= ExpiresAt(p.at)
      BY <2>1, ExpiryNotEarly, ExpiryBound, HandlerAssumption DEF Times, Expiries
    <2>4. TokenValid(req[r], checkedAt[r])
      BY <2>1, <2>3 DEF TokenValid, SentBy
    <2> QED BY <2>2, <2>4 DEF AnswerInv, RejectedInv
  <1> QED BY <1>1, <1>2, <1>3, HandlerInvariance, PTL DEF Spec
=============================================================================
