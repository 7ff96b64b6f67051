----------------------------- MODULE ConfigReload -----------------------------
(***************************************************************************)
(* cmd/weblogproxy/main.go: the life of the process.  Start-up loads the    *)
(* configuration, builds the loggers and the rules and starts the server;  *)
(* a goroutine polls the file's modification time and reloads it; a signal  *)
(* drains the server and ends the process.  config_reload is enabled.      *)
(*                                                                         *)
(* The configuration file is edited by others at any moment.  A call of    *)
(* Manager.InitLoggers is one step here: LoggerManager shows that no reader *)
(* sees the map before it returns, and what it then holds.                 *)
(***************************************************************************)
EXTENDS Naturals

CONSTANTS
    Contents,    \* what the file may hold, half-written versions included
    Gone,        \* there is no file
    Valid,       \* contents LoadConfig and ValidateConfig accept
    Compilable,  \* those whose CIDRs and patterns NewRuleProcessor accepts too
    MayFail,     \* those with a destination that can fail to open
    Nothing,     \* no configuration yet
    MaxTime,     \* bound on the clock of modification times
    MaxInflight  \* bound on the requests being served

ASSUME ReloadAssumption ==
    /\ Gone \notin Contents /\ Nothing \notin Contents /\ Nothing # Gone
    /\ Valid \subseteq Contents
    /\ Compilable \subseteq Valid
    /\ MayFail \subseteq Valid
    /\ MaxTime \in Nat \ {0}
    /\ MaxInflight \in Nat

VARIABLES
    file,       \* the content of the file now
    mtime,      \* its modification time
    now,        \* the clock of the file system
    main,       \* the main goroutine
    serverCfg,  \* the configuration given to NewServer and its handlers
    current,    \* currentCfg and currentRuleProc
    table,      \* whose destinations the logger manager holds, and whether some failed
    rl,         \* the reload goroutine
    lastMod,    \* lastModTime
    seen,       \* info.ModTime()
    newCfg,     \* the configuration being reloaded
    inflight,   \* requests being served
    maxMtime,   \* history: the latest modification time so far
    distinct,   \* history: the last edit has a later stamp than any before it
    watched     \* history: the last edit came after the first Stat

fileVars == <<file, mtime, now, maxMtime>>
mainVars == <<main, serverCfg, inflight>>
loopVars == <<rl, lastMod, seen, newCfg>>
editVars == <<distinct, watched>>
vars == <<fileVars, mainVars, loopVars, current, table, editVars>>

Times == 0 .. MaxTime

TypeOK ==
    /\ file \in Contents \cup {Gone}
    /\ mtime \in Times /\ now \in Times /\ maxMtime \in Times
    /\ main \in {"load", "loggers", "rules", "watch", "serving", "stopping", "exited", "fatal"}
    /\ serverCfg \in Valid \cup {Nothing}
    /\ current \in Contents \cup {Nothing}
    /\ table \in [from : Contents \cup {Nothing}, failed : BOOLEAN]
    /\ rl \in {"off", "sleep", "load", "loggers", "rules", "publish"}
    /\ lastMod \in Times /\ seen \in Times
    /\ newCfg \in Contents \cup {Nothing}
    /\ inflight \in 0 .. MaxInflight
    /\ distinct \in BOOLEAN /\ watched \in BOOLEAN

Init ==
    /\ file \in Contents
    /\ mtime = 1 /\ now = 1 /\ maxMtime = 1
    /\ main = "load"
    /\ serverCfg = Nothing
    /\ current = Nothing
    /\ table = [from |-> Nothing, failed |-> FALSE]
    /\ rl = "off"
    /\ lastMod = 0 /\ seen = 0
    /\ newCfg = Nothing
    /\ inflight = 0
    /\ distinct = TRUE
    /\ watched = FALSE

-----------------------------------------------------------------------------
(* The file and its editors *)

Later(t) == IF t > maxMtime THEN t ELSE maxMtime

TimePasses ==
    /\ now < MaxTime
    /\ now' = now + 1
    /\ UNCHANGED <<file, mtime, maxMtime, mainVars, loopVars, current, table, editVars>>

\* An edit stamps the current time; restoring a backup may bring an older one.
\* The clock is coarse: two edits may get the same stamp.
Edit(c, t) ==
    /\ t \in 1 .. now
    /\ file' = c
    /\ mtime' = t
    /\ maxMtime' = Later(t)
    /\ distinct' = (t > maxMtime)
    /\ watched' = (rl # "off")
    /\ UNCHANGED <<now, mainVars, loopVars, current, table>>

Remove ==
    /\ file # Gone
    /\ file' = Gone
    /\ distinct' = FALSE
    /\ UNCHANGED <<mtime, now, maxMtime, watched, mainVars, loopVars, current, table>>

-----------------------------------------------------------------------------
(* Start-up *)

\* LoadConfig and ValidateConfig, or exit code 1.
LoadAtStart ==
    /\ main = "load"
    /\ IF file \in Valid
       THEN main' = "loggers" /\ serverCfg' = file
       ELSE main' = "fatal" /\ UNCHANGED serverCfg
    /\ UNCHANGED <<fileVars, loopVars, inflight, current, table, editVars>>

LoggersAtStart(failed) ==
    /\ main = "loggers"
    /\ failed => serverCfg \in MayFail
    /\ table' = [from |-> serverCfg, failed |-> failed]
    /\ main' = IF failed THEN "fatal" ELSE "rules"
    /\ UNCHANGED <<fileVars, loopVars, serverCfg, inflight, current, editVars>>

RulesAtStart ==
    /\ main = "rules"
    /\ IF serverCfg \in Compilable
       THEN main' = "watch" /\ current' = serverCfg
       ELSE main' = "fatal" /\ UNCHANGED current
    /\ UNCHANGED <<fileVars, loopVars, serverCfg, inflight, table, editVars>>

\* The first os.Stat, long after the file was read; then the reload goroutine
\* and the server are started.
Watch ==
    /\ main = "watch"
    /\ lastMod' = IF file = Gone THEN 0 ELSE mtime
    /\ rl' = "sleep"
    /\ main' = "serving"
    /\ watched' = (file = serverCfg)
    /\ UNCHANGED <<fileVars, distinct, seen, newCfg, serverCfg, inflight, current, table>>

StartStep ==
    \/ LoadAtStart
    \/ \E failed \in BOOLEAN : LoggersAtStart(failed)
    \/ RulesAtStart
    \/ Watch

-----------------------------------------------------------------------------
(* The reload goroutine *)

Alive == main \in {"serving", "stopping"}

\* time.Sleep and os.Stat; an error goes back to sleep.
Poll ==
    /\ rl = "sleep" /\ Alive
    /\ file # Gone
    /\ mtime > lastMod
    /\ seen' = mtime
    /\ rl' = "load"
    /\ UNCHANGED <<fileVars, mainVars, lastMod, newCfg, current, table, editVars>>

AcceptAny(c) == TRUE                             \* mutant: errors are only logged
Accepted(c) == c \in Valid

\* LoadConfig reads the file as it is now, not as it was at os.Stat.
LoadAgain ==
    /\ rl = "load" /\ Alive
    /\ IF Accepted(file)
       THEN rl' = "loggers" /\ newCfg' = file
       ELSE rl' = "sleep" /\ UNCHANGED newCfg
    /\ UNCHANGED <<fileVars, mainVars, lastMod, seen, current, table, editVars>>

IgnoresFailure(failed) == "rules"                \* mutant: the error of InitLoggers is dropped
AfterInit(failed) == IF failed THEN "sleep" ELSE "rules"

\* The old loggers are closed whatever the outcome.  After an error the loop
\* goes back to sleep and, lastMod being unchanged, tries again.
LoggersAgain(failed) ==
    /\ rl = "loggers" /\ Alive
    /\ failed => newCfg \in MayFail
    /\ table' = [from |-> newCfg, failed |-> failed]
    /\ rl' = AfterInit(failed)
    /\ UNCHANGED <<fileVars, mainVars, lastMod, seen, newCfg, current, editVars>>

\* An error of NewRuleProcessor comes after the loggers were replaced.
RulesAgain ==
    /\ rl = "rules" /\ Alive
    /\ rl' = IF newCfg \in Compilable THEN "publish" ELSE "sleep"
    /\ UNCHANGED <<fileVars, mainVars, lastMod, seen, newCfg, current, table, editVars>>

StatAgain == mtime                               \* mutant: the time is read after the load
AppliedTime == seen

\* The server and its handlers keep serverCfg, as the line logged here says.
Publish ==
    /\ rl = "publish" /\ Alive
    /\ current' = newCfg
    /\ lastMod' = AppliedTime
    /\ rl' = "sleep"
    /\ UNCHANGED <<fileVars, mainVars, seen, newCfg, table, editVars>>

ReloadStep ==
    \/ Poll
    \/ LoadAgain
    \/ \E failed \in BOOLEAN : LoggersAgain(failed)
    \/ RulesAgain
    \/ Publish

-----------------------------------------------------------------------------
(* Requests and shutdown *)

Accept ==
    /\ main = "serving"
    /\ inflight < MaxInflight
    /\ inflight' = inflight + 1
    /\ UNCHANGED <<fileVars, loopVars, main, serverCfg, current, table, editVars>>

Finish ==
    /\ Alive
    /\ inflight > 0
    /\ inflight' = inflight - 1
    /\ UNCHANGED <<fileVars, loopVars, main, serverCfg, current, table, editVars>>

\* ListenAndServe returns an error: Fatal.
ServerFails ==
    /\ main = "serving"
    /\ main' = "fatal"
    /\ UNCHANGED <<fileVars, loopVars, serverCfg, inflight, current, table, editVars>>

\* SIGINT or SIGTERM: srv.Shutdown stops accepting.
Signal ==
    /\ main = "serving"
    /\ main' = "stopping"
    /\ UNCHANGED <<fileVars, loopVars, serverCfg, inflight, current, table, editVars>>

DrainOnly == FALSE                               \* mutant: no context deadline
DeadlineExpired == TRUE

\* Shutdown returns when the last request has, or when its ten seconds are
\* over.  os.Exit runs no deferred call: CloseAll never runs.
Exit ==
    /\ main = "stopping"
    /\ inflight = 0 \/ DeadlineExpired
    /\ main' = "exited"
    /\ UNCHANGED <<fileVars, loopVars, serverCfg, inflight, current, table, editVars>>

-----------------------------------------------------------------------------
Next ==
    \/ TimePasses
    \/ \E c \in Contents, t \in Times : Edit(c, t)
    \/ Remove
    \/ StartStep
    \/ ReloadStep
    \/ Accept \/ Finish \/ ServerFails \/ Signal \/ Exit

Spec == Init /\ [][Next]_vars

\* The goroutines run; a destination that can be opened is opened one day if
\* it is tried for ever.  Nobody has to edit the file, send a signal or
\* finish a request.
FairSpec ==
    /\ Spec
    /\ WF_vars(StartStep)
    /\ WF_vars(ReloadStep)
    /\ SF_vars(LoggersAgain(FALSE))
    /\ WF_vars(Exit)

-----------------------------------------------------------------------------
(* Properties *)

\* However the file changes under the loop, even between os.Stat and LoadConfig:
\* the loggers in use come from a content that LoadConfig accepted, the rules
\* that the loop holds from one that NewRuleProcessor accepted too, and a
\* configuration is published only with all its loggers open.  Loggers of a
\* content that NewRuleProcessor refuses after the swap (main.go:144-153) are
\* in use nevertheless: InvalidConfigNotApplied.
OnlyLoadableInUse ==
    /\ table.from \in Valid \cup {Nothing}
    /\ current \in Compilable \cup {Nothing}
    /\ rl = "publish" => table = [from |-> newCfg, failed |-> FALSE]

\* What a reload can apply: the handlers keep serverCfg until a restart.
Applied == current = file /\ table = [from |-> file, failed |-> FALSE]

\* When the loop would take the file for unchanged, the configuration in use
\* is that of the file, even if the file was edited between Stat and Load.
\* (The last edit came after the first Stat, with a stamp of its own.)
NoEditMissed ==
    (rl = "sleep" /\ distinct /\ watched /\ mtime <= lastMod) => Applied

\* An acceptable edit is applied in the end, after failing attempts too, if
\* the server goes on and the file is left alone.
EditsTakeEffect ==
    <>[](main = "serving" /\ distinct /\ watched /\ file \in Compilable) => <>[]Applied

\* A signal ends the process even if a request never finishes.
ShutdownTerminates == main = "stopping" ~> main = "exited"

(* What the changelog says and the code does not do *)

\* CHANGELOG.md: an invalid configuration is an error and is not applied.
\* One whose rules do not compile has its log destinations applied.
InvalidConfigNotApplied ==
    (rl = "sleep" /\ Alive) => table.from \in Compilable
=============================================================================
