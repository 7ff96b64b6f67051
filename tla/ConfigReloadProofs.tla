--------------------------- MODULE ConfigReloadProofs ---------------------------
(***************************************************************************)
(* Proofs about ConfigReload for any contents of the file, any edits and    *)
(* any times.  The properties speak of the two goroutines at rest;           *)
(* ReloadInv adds what each of their stages knows.                          *)
(***************************************************************************)
EXTENDS ConfigReload, TLAPS

\* No stamp is later than the latest one; a last edit with a stamp of its own
\* has it.
Stamps ==
    /\ mtime <= maxMtime /\ lastMod <= maxMtime /\ seen <= maxMtime
    /\ distinct => mtime = maxMtime /\ file \in Contents

\* The reload goroutine starts when start-up is over.
StartingAlone ==
    /\ main \in {"load", "loggers", "rules", "watch"} => rl = "off"
    /\ rl = "off" => ~watched

\* What start-up has made of the configuration it read.
StartUp ==
    /\ main \in {"loggers", "rules", "watch"} => serverCfg \in Valid
    /\ main \in {"rules", "watch"} => table = [from |-> serverCfg, failed |-> FALSE]
    /\ main = "watch" => current = serverCfg

\* What a reload has made of the configuration it read.
Reloading ==
    /\ rl \in {"loggers", "rules", "publish"} => newCfg \in Valid
    /\ rl \in {"rules", "publish"} => table = [from |-> newCfg, failed |-> FALSE]
    /\ rl = "publish" => newCfg \in Compilable

Used ==
    /\ table.from \in Valid \cup {Nothing}
    /\ current \in Compilable \cup {Nothing}

\* A reload is about a stamp later than the one applied last; and if the file
\* was not edited since that stamp was read, what was loaded is the file.
AboutLastEdit ==
    (rl \in {"load", "loggers", "rules", "publish"} /\ distinct) =>
        /\ mtime > lastMod
        /\ (rl # "load" /\ mtime <= seen) => newCfg = file

ReloadInv ==
    /\ TypeOK
    /\ Stamps
    /\ StartingAlone
    /\ StartUp
    /\ Reloading
    /\ Used
    /\ AboutLastEdit
    /\ NoEditMissed

-----------------------------------------------------------------------------

\* The process starts in the invariant.
LEMMA InitInv == Init => ReloadInv
  <1> SUFFICES ASSUME Init PROVE ReloadInv
    OBVIOUS
  <1> USE ReloadAssumption DEF Init
  <1>1. 0 \in Times /\ 1 \in Times
    BY DEF Times
  <1>2. TypeOK
    <2>1. table \in [from : Contents \cup {Nothing}, failed : BOOLEAN]
      OBVIOUS
    <2>2. distinct \in BOOLEAN /\ watched \in BOOLEAN
      OBVIOUS
    <2>3. inflight \in 0 .. MaxInflight
      OBVIOUS
    <2> QED BY <1>1, <2>1, <2>2, <2>3 DEF TypeOK
  <1>3. Stamps
    BY DEF Stamps
  <1>4. StartingAlone /\ StartUp /\ Reloading /\ AboutLastEdit
    BY DEF StartingAlone, StartUp, Reloading, AboutLastEdit
  <1>5. Used
    BY DEF Used
  <1>6. NoEditMissed
    BY DEF NoEditMissed
  <1> QED BY <1>2, <1>3, <1>4, <1>5, <1>6 DEF ReloadInv

\* Time, requests and the end of the process touch nothing the invariant is about.
LEMMA PassiveInv ==
  ASSUME ReloadInv, TimePasses \/ Accept \/ Finish \/ ServerFails \/ Signal \/ Exit
  PROVE  ReloadInv'
  <1> USE ReloadAssumption
          DEF TimePasses, Accept, Finish, ServerFails, Signal, Exit, Alive, fileVars, mainVars,
              loopVars, editVars, ReloadInv
  <1>1. TypeOK'
    BY DEF TypeOK, Times
  <1>2. Stamps' /\ StartingAlone' /\ StartUp' /\ Reloading' /\ Used'
    BY DEF Stamps, StartingAlone, StartUp, Reloading, Used
  <1>3. AboutLastEdit' /\ NoEditMissed'
    BY DEF AboutLastEdit, NoEditMissed, Applied
  <1> QED BY <1>1, <1>2, <1>3

\* An edit with a stamp of its own is later than all the loop has seen; after
\* any other one nothing is claimed.
LEMMA EditInv ==
  ASSUME ReloadInv, NEW c \in Contents, NEW t \in Times, Edit(c, t)
  PROVE  ReloadInv'
  <1> USE DEF Edit, mainVars, loopVars, ReloadInv
  <1>1. maxMtime' \in Times /\ mtime' <= maxMtime' /\ maxMtime <= maxMtime'
    BY ReloadAssumption DEF TypeOK, Times, Later
  <1>2. distinct' => mtime' = maxMtime' /\ maxMtime < mtime'
    BY DEF Later
  <1>3. distinct' \in BOOLEAN /\ watched' \in BOOLEAN
    OBVIOUS
  <1>4. TypeOK'
    BY <1>1, <1>3 DEF TypeOK
  <1>5. Stamps'
    BY <1>1, <1>2, ReloadAssumption DEF TypeOK, Times, Stamps
  <1>6. rl' = "off" => ~watched'
    OBVIOUS
  <1>7. StartingAlone' /\ StartUp' /\ Reloading' /\ Used'
    BY <1>6 DEF StartingAlone, StartUp, Reloading, Used
  <1>8. distinct' => lastMod' < mtime' /\ seen' < mtime'
    BY <1>2, ReloadAssumption DEF TypeOK, Times, Stamps
  <1>9. AboutLastEdit' /\ NoEditMissed'
    BY <1>1, <1>8, ReloadAssumption DEF TypeOK, Times, AboutLastEdit, NoEditMissed
  <1> QED BY <1>4, <1>5, <1>7, <1>9

\* After a removal nothing is claimed until the next edit.
LEMMA RemoveInv ==
  ASSUME ReloadInv, Remove
  PROVE  ReloadInv'
  <1> USE DEF Remove, mainVars, loopVars, ReloadInv
  <1>1. TypeOK'
    BY DEF TypeOK
  <1>2. Stamps' /\ AboutLastEdit' /\ NoEditMissed'
    BY DEF Stamps, AboutLastEdit, NoEditMissed
  <1>3. StartingAlone' /\ StartUp' /\ Reloading' /\ Used'
    BY DEF StartingAlone, StartUp, Reloading, Used
  <1> QED BY <1>1, <1>2, <1>3

\* Start-up makes what StartUp says, and the loop starts from there.
LEMMA StartStepInv ==
  ASSUME ReloadInv, StartStep
  PROVE  ReloadInv'
  <1> USE ReloadAssumption
          DEF StartStep, LoadAtStart, LoggersAtStart, RulesAtStart, Watch, fileVars, mainVars,
              loopVars, editVars, ReloadInv
  <1>1. TypeOK'
    <2>1. CASE LoadAtStart
      BY <2>1 DEF TypeOK
    <2>2. CASE \E failed \in BOOLEAN : LoggersAtStart(failed)
      BY <2>2 DEF TypeOK, StartUp
    <2>3. CASE RulesAtStart
      BY <2>3 DEF TypeOK
    <2>4. CASE Watch
      <3>1. lastMod' \in Times /\ watched' \in BOOLEAN
        BY <2>4 DEF TypeOK, Times
      <3> QED BY <2>4, <3>1 DEF TypeOK
    <2> QED BY <2>1, <2>2, <2>3, <2>4
  <1>2. Stamps' /\ StartingAlone'
    BY DEF TypeOK, Times, Stamps, StartingAlone
  <1>3. StartUp' /\ Reloading' /\ Used'
    BY DEF TypeOK, StartingAlone, StartUp, Reloading, Used
  <1>4. AboutLastEdit' /\ NoEditMissed'
    BY DEF TypeOK, Times, Stamps, StartingAlone, StartUp, AboutLastEdit, NoEditMissed, Applied
  <1> QED BY <1>1, <1>2, <1>3, <1>4

\* A poll takes the stamp that decides what the reload is about.
LEMMA PollInv ==
  ASSUME ReloadInv, Poll
  PROVE  ReloadInv'
  BY DEF Poll, Alive, fileVars, mainVars, loopVars, editVars, ReloadInv, TypeOK, Times, Stamps,
         StartingAlone, StartUp, Reloading, Used, AboutLastEdit, NoEditMissed

\* A load keeps what it accepts.
LEMMA LoadAgainInv ==
  ASSUME ReloadInv, LoadAgain
  PROVE  ReloadInv'
  <1> USE ReloadAssumption
          DEF LoadAgain, Accepted, Alive, fileVars, mainVars, editVars, ReloadInv
  <1>1. TypeOK' /\ Stamps' /\ StartingAlone' /\ StartUp' /\ Reloading' /\ Used'
    BY DEF TypeOK, Times, Stamps, StartingAlone, StartUp, Reloading, Used
  <1>2. AboutLastEdit' /\ NoEditMissed'
    BY DEF TypeOK, Times, AboutLastEdit, NoEditMissed
  <1> QED BY <1>1, <1>2

\* New loggers are those of an accepted configuration, failed ones included.
LEMMA LoggersAgainInv ==
  ASSUME ReloadInv, NEW failed \in BOOLEAN, LoggersAgain(failed)
  PROVE  ReloadInv'
  <1> USE ReloadAssumption
          DEF LoggersAgain, AfterInit, Alive, fileVars, mainVars, editVars, ReloadInv
  <1>1. TypeOK' /\ Stamps' /\ StartingAlone' /\ StartUp' /\ Reloading' /\ Used'
    BY DEF TypeOK, Times, Stamps, StartingAlone, StartUp, Reloading, Used
  <1>2. AboutLastEdit' /\ NoEditMissed'
    BY DEF TypeOK, Times, AboutLastEdit, NoEditMissed
  <1> QED BY <1>1, <1>2

\* Rules that do not compile end the reload with the old ones in use.
LEMMA RulesAgainInv ==
  ASSUME ReloadInv, RulesAgain
  PROVE  ReloadInv'
  <1> USE DEF RulesAgain, Alive, fileVars, mainVars, editVars, ReloadInv
  <1>1. TypeOK' /\ Stamps' /\ StartingAlone' /\ StartUp' /\ Reloading' /\ Used'
    BY DEF TypeOK, Times, Stamps, StartingAlone, StartUp, Reloading, Used
  <1>2. AboutLastEdit' /\ NoEditMissed'
    BY DEF TypeOK, Times, AboutLastEdit, NoEditMissed
  <1> QED BY <1>1, <1>2

\* What is published is the file, unless it was edited since the poll.
LEMMA PublishInv ==
  ASSUME ReloadInv, Publish
  PROVE  ReloadInv'
  <1> USE ReloadAssumption
          DEF Publish, AppliedTime, Alive, fileVars, mainVars, editVars, ReloadInv
  <1>1. TypeOK' /\ Stamps' /\ StartingAlone' /\ StartUp' /\ Reloading' /\ Used'
    BY DEF TypeOK, Times, Stamps, StartingAlone, StartUp, Reloading, Used
  <1>2. AboutLastEdit' /\ NoEditMissed'
    BY DEF TypeOK, Times, Reloading, AboutLastEdit, NoEditMissed, Applied
  <1> QED BY <1>1, <1>2

\* Every step preserves the invariant.
LEMMA NextInv ==
  ASSUME ReloadInv, [Next]_vars
  PROVE  ReloadInv'
  <1>1. CASE TimePasses \/ Accept \/ Finish \/ ServerFails \/ Signal \/ Exit
    BY <1>1, PassiveInv
  <1>2. CASE (\E c \in Contents, t \in Times : Edit(c, t)) \/ Remove
    BY <1>2, EditInv, RemoveInv
  <1>3. CASE StartStep
    BY <1>3, StartStepInv
  <1>4. CASE ReloadStep
    BY <1>4, PollInv, LoadAgainInv, LoggersAgainInv, RulesAgainInv, PublishInv DEF ReloadStep
  <1>5. CASE UNCHANGED vars
    BY <1>5 DEF vars, fileVars, mainVars, loopVars, editVars, ReloadInv, TypeOK, Stamps,
                StartingAlone, StartUp, Reloading, Used, AboutLastEdit, NoEditMissed, Applied
  <1> QED BY <1>1, <1>2, <1>3, <1>4, <1>5 DEF Next

\* The invariant of start-up, reload and shutdown, against any edits of the file.
THEOREM ReloadInvariance == Spec => []ReloadInv
  BY InitInv, NextInv, PTL DEF Spec

\* Types: no goroutine is at an unknown stage, nothing in use is no content.
THEOREM ReloadTypeCorrect == Spec => []TypeOK
  BY ReloadInvariance, PTL DEF ReloadInv

\* No logger in use comes from a content that LoadConfig refused, and the rules
\* the loop holds from none that does not compile; a configuration about to be
\* published has all its loggers.  That the loggers' content compiles is not
\* claimed and does not hold (main.go:144-153).
THEOREM OnlyLoadableInUseHolds == Spec => []OnlyLoadableInUse
  <1>1. ReloadInv => OnlyLoadableInUse
    BY DEF ReloadInv, Reloading, Used, OnlyLoadableInUse
  <1> QED BY <1>1, ReloadInvariance, PTL

\* An edit with a stamp of its own is never taken for applied when it is not,
\* wherever in a reload it comes.
THEOREM NoEditMissedHolds == Spec => []NoEditMissed
  BY ReloadInvariance, PTL DEF ReloadInv
=============================================================================
