# Verification of weblogproxy

TLA+ models of weblogproxy, TLC configurations that check them on small instances, and
TLAPS proofs of the main safety properties for all values of the constants.  Paths below are
relative to the root of the repository (`src/` in `PROJECT.json`).

## 1. Inventory

weblogproxy receives log records from browsers.  A page loads `/logger.js`, which holds a
token and the URL of `/log`; it then posts records to `/log`, and the program writes each
to one or more *destinations* (files, rotated files, Graylog).  Rules decide per request
whether to log, where to, with which extra fields and which scripts to inject.

| Component | State | Operations | Hard behaviour |
|---|---|---|---|
| Logger manager (`internal/logger/manager.go`) | map of logger instances, one RWMutex | `InitLoggers`, `CloseAll`; readers `GetLogger`, `GetAllEnabledLoggerNames` | rebuilt on every reload while handlers use instances they looked up before; creations fail one by one |
| Dispatch (`internal/handler/common_log.go`) | per request: names, position, instance held, `anySuccess` | the loop over target destinations | names and instances are read under different lock acquisitions; a write may hit a closed instance |
| Destination loggers (`file_logger.go`, `gelf_logger.go`) | file handle or connection | open, `Log`, `Close` | what a write after `Close` does differs per kind; lines of JSON, text and GELF are kept to a size |
| Process and reload (`cmd/weblogproxy/main.go`) | configuration in use, `lastModTime`, state of the goroutines | start-up, poll, reload, signal, shutdown | the file changes at any moment; reload has several steps that can fail; exit |
| Rule processor (`internal/rules`, `internal/iputil`) | compiled rules; accumulators of one call | `Process`, `GetClientIP` | order of rules, `continue`, maps read in random order, trusted proxies |
| Rate limiter (`internal/server/server.go`) | `sync.Map` of token buckets | middleware, hourly cleanup | no lock around `lastSeen` or the delete |
| Token validation limiter (`internal/security/token.go`) | `sync.Map` of counters | `CheckAndRecordAttempt`, cleanup | clock read before the lock; cleanup deletes after unlocking |
| Handlers (`log.go`, `loggerjs.go`), tokens | none shared; tokens are signed | `/log`, `/logger.js` | early returns, token expiry between the two requests |
| Enrichment (`internal/enricher/enricher.go`) | one record | `EnrichAndMerge`: add, merge, complete | precedence of four sources; a field whose conversion fails; nested values shared between destinations |
| Truncation (`internal/truncate/truncate.go`) | one record, rounds | `TruncateMapIfNeeded` | ends although a round may gain nothing; paths kept in slices that share memory |
| Router, CORS, headers; app logger; config parser | – | – | per-request tables, wording, parsing: not modelled |

How they interact: `main` builds the manager and the rule processor and hands both to the
server.  A request passes the rate limiter, then the handler, which asks the rule processor
and calls the dispatch loop; the loop calls the manager (shared, locked) and the instances
(shared, with a mutex each).  The reload goroutine calls `Manager.InitLoggers` on the same
manager; the rule processor it builds replaces only variables of `main`.

What makes each correct: the manager leaks and double-closes nothing and publishes exactly
what was configured and could be opened; dispatch answers "success" exactly if a destination
stored the record, stores each list entry at most once, and is complete when nothing
disturbed it; reload uses nothing of a file that does not load, loses no edit and comes to
rest on the file's content; a record follows the order of its sources, has the fields Bunyan asks
for, is cut no more than its limit asks for, and leaves in a line of bounded size; rules are
decided by the first final match, with defined winners; limiters admit a bounded number and
give their memory back.

`PROJECT.json` lists every component with its status and every hazard with its line.

## 2. Modules

| Module | Models | Uses |
|---|---|---|
| `LoggerManager` | `manager.go` | – |
| `LogDelivery` | what `POST /log` promises (abstract) | – |
| `LogDispatch` | `common_log.go`, composed with the manager and reloads | EXTENDS `LoggerManager`; `Promise == INSTANCE LogDelivery` |
| `Records` | the data of a record and the size of its JSON | – |
| `Enrichment` | `enricher.go` | EXTENDS `Records` |
| `Truncation` | `truncate.go` | EXTENDS `Records` |
| `DestinationOutput` | the lines of `file_logger.go`, the texts of `gelf_logger.go` | EXTENDS `Records` |
| `RecordPipeline` | the body of the loop of `common_log.go` | EXTENDS the three above |
| `ConfigReload` | `main.go` | – (one step per `InitLoggers`, see below) |
| `RuleProcessor` | `processor.go`, `iputil.go` | – |
| `RateLimiter` | the middleware and cleanup of `server.go` | – |
| `TokenAttempts` | the limiter of `token.go` | – |
| `LogHandler` | `loggerjs.go`, `log.go`, the tokens of `token.go`, ids of `validation` | – |
| `*Proofs` | theorems | the module they are about, `TLAPS` |
| `MC*` | constants for TLC | the module they check |

**LoggerManager.**  `loggers` is the map; an instance is its destination, its kind and the
number of the call that made it, so old and new instances of a destination differ.  `op`
says who holds the write lock: `"idle"` means a reader can have it.  Each `Close` and each
creation is a step, because handlers hold instances without the lock.  `created` and
`closed` are what the properties speak about.

**LogDispatch.**  A request slot serves one request after another.  `ReadNames` is
`GetAllEnabledLoggerNames` and the filter, in any order of a Go map iteration; `LookUp` is a
round of the loop up to the write; `WriteSucceeds` and `WriteFails` are `Log`.  After
`Close`, a plain file refuses writes, lumberjack reopens its file, and GELF reconnects (TCP)
or fails (UDP); these are facts about libraries, taken from how the loggers use them.
`BadAdds` are destinations whose `add_log_data` makes `EnrichAndMerge` fail.  `CloseAll` is
no step of `LogDispatch`, since the program never runs it: `main` ends in `os.Exit`, which
skips its deferred call.  What is in a record is the business of `RecordPipeline`.

**Records, Enrichment, Truncation, DestinationOutput, RecordPipeline.**  A round of the loop
is `StartRecord`, `MakeAddition` for each of the rules' and the destination's additions (or
`EnrichFails` at the first that fails), `MergeRecord`, `CutString` as often as the record is
over the limit, `EndTruncation` and `LogRecord`.  Go maps are references and the copy of the
record is shallow, so the model has a heap: a nested map of the client's data is one object
that all destinations' records hold, and a cut made for one is seen by the next.  What the
properties compare is the origin of a value and its length, so a text is these two; escaping
in JSON is left out, a number keeps its printed length when its type changes, and a list
behaves as a map from indices.  A string that `strconv.Atoi` accepts is a `"numeral"`, one
that only `ParseFloat` accepts (`3.5`, `1e3`) a `"decimal"`: an addition to the level may be
either, but a client's decimal level becomes the default one.  A client's `message` that is no
string is printed with `%v` (`Printed`); for a map that takes all that is nested in it
(`PrintedSize`), so what is printed for a later destination may be shorter, as an earlier one
may have cut it.  `Origins` are the places a text or a number can come from.  What the additions make of the record one
by one is checked against `ReferenceValue`, which says who decides a field without going
through them.  Sizes, depths and the path of an addition are recursive functions, not
`RECURSIVE` operators, so that they can be reasoned about.  `Truncation` has the one surprise
of this code: the path of the longest string is built with `append`, which at the fourth key
extends a slice of length 3 and capacity 4, so that all entries of one map share the last
cell and the cut may be written to a neighbour (`WrittenTo`).  `MaxDepth` is at most 4
because deeper cells are shared again, in ways the model does not follow.  Which of several
longest strings is found first depends on Go's map order: any of them.
`handleNestedStructures` has no effect, as the largest structure it finds is the record
itself, at an empty path, which cannot be assigned.  `Spaced` are the origins whose texts
hold a space and are quoted in the text format; `LevelNameLengths` leaves open whether a
level's name has four or five letters.

**ConfigReload.**  `main` and `rl` are the two goroutines.  What a content of the file is
worth is a parameter: `Valid` contents load and validate, `Compilable` ones also give a rule
processor, `MayFail` ones have a destination that may not open.  `validateConfig` does not
compile rule patterns and networks, so `Valid \ Compilable` is not empty in the code.  A
call of `InitLoggers` is one step: `PublishedIffOpen` and `MapFollowsConfig` say that
readers see nothing of its inside and what it leaves.  Modification times are coarse and may
go back.

**RuleProcessor.**  One step per round of the loop; the rules and the request are chosen in
`Init`.  A CIDR or a glob is the set of what it matches.  The properties are stated over the
rule list with no mention of the loop.

**RateLimiter.**  Entries are heap cells that live while the map or a request refers to them.
Times are kept as ages with a ceiling beyond which no comparison can tell, so there is no
horizon.  `admitted[a][m]` counts the admissions of the last `m + 1` units.  The code bounds
no delay; `Stall` is the longest that a goroutine is held up between two steps, and is
assumed to be such that a minute and two of them are no more than a day (`Burst + 2 * Stall
<= Idle`): with a limit of 60 a minute that allows stalls of twelve hours.  The bucket of
`golang.org/x/time/rate` is external: it gains one token per unit up to `Burst`.

**TokenAttempts.**  A caller takes the time, then the entry, then its lock.  Cleanup's
decision (under the lock) and its delete (after it) are two steps.  No handler calls this
limiter yet; the model is of its contract with concurrent callers.

**LogHandler.**  One step per check of a handler, with time passing between any two.
`Requests` are the goroutines; `GetScript` and `Post` start one, with whatever ids, traits
and body a client may send and with any token that is out or `Garbage`.  `Message` is the
text a token signs, a parameter: the module assumes only that valid ids and an expiry can be
read back from it.  The run gives the text `GenerateToken` writes, parts joined by colons, and
ids with a colon in them, so that it matters that ids are checked before the token is.  Times
are ticks of `1/Sec` of a second: `ExpiresAt` cuts to whole seconds as `Unix()` does.  What the
rules decide is a function of the request (`Decision`; `"downloads"` implies logging, as only a
final rule sets either); `Admit` or `Refuse` stands for the limiter and `ok` for the dispatch,
which have modules of their own.  `Bodies` has one member for each way a body can fail.

## 3. Runs

| Run | Instance | Properties |
|---|---|---|
| `dispatch` | 1 slot, 4 destinations of 3 kinds, 3 configurations, 2 reloads, a failing enrichment | `TypeOK`, `PublishedIffOpen`, `CompleteBetweenReloads`, `OrderedOnce`, `RotatedSurvivesReload`, `LeakIsBounded`, `MapFollowsConfig`, `ClosedOnceFromMap`, `LookUpFindsOpen`, `KeepsPromise`, `EveryRequestAnswered` |
| `record` | 6 destinations, 6 client data, 4 lists of additions, 5 limits | `TypeOK`, `SourcesInOrder`, `BunyanFields`, `FitsIfItCan`, `CutsOnlyWhatMust`, `OutputFits`, `EveryDestinationTried` |
| `reload` | 4 contents, clock to 3, 1 request | `TypeOK`, `OnlyLoadableInUse`, `NoEditMissed`, `EditsTakeEffect`, `ShutdownTerminates` |
| `rules` | lists of up to 4 of 7 rules, 4 requests | `TypeOK`, `FirstFinalDecides`, `LastAddWins`, `FirstScriptWins`, `SenderDecides` |
| `rate` | 1 address, 2 requests, 3 tokens a minute | `TypeOK`, `AdmissionBound`, `RefusedOnlyWhenBusy`, `LimitersReclaimed` |
| `token` | 1 key, 2 callers, 2 attempts, clock to 6 | `TypeOK`, `FailuresAreBounded`, `EntriesReclaimed` |
| `handler` | 1 slot, 2 tokens, ids with and without a colon, 1½ s expiry, clock to 3 s | `TypeOK`, `Authorised`, `ToldMeansLogged`, `AnswerTellsOutcome` |
| `reload_invalid`, `token_cleanup`, `truncate_alias`, `rules_downloads`, `bunyan_types` | as above (two rules in `rules_downloads`) | one violated statement each (section 6) |

What they show.  *dispatch*: readers never see a closed or a half-made instance, the map is
what the last configuration could open, and nothing is leaked or closed twice; a request that no reload disturbs
reaches all its destinations, in order and once each, rotated files lose nothing across a
reload, a request reopens at most one closed instance of each generation, and every request
is answered with what really happened to it (`KeepsPromise` is the refinement of
`LogDelivery`).  *record*: each destination gets a well-formed record made of its own
sources, cut no more than necessary and no less than possible, whatever happened to the
destinations before it; a file gets a line within its limit, Graylog a message of which the
two texts are (its extra fields are not counted, section 5).  The record has every field that
Bunyan requires, the server's time, and an integer level unless the client sent one that is
neither number nor string; what other types it may carry is `bunyan_types`.  *reload*: every edit that loads is applied
in the end, if its modification time is new, and nothing of a content that `LoadConfig`
refuses is ever in use; content that only `NewRuleProcessor` refuses is another matter
(`reload_invalid`); a signal always ends the process.  *rules*: the first final rule, the last addition and the first script win, for the
address the proxies vouch for. *rate* and *token*: requests and failures are bounded although
entries are deleted under their users, and memory is given back.  *handler*: a record is
accepted only with a token for its own page, within its lifetime.

Why the bounds are enough.  *dispatch*: slots write nothing another slot reads (the theorems
hold for any number of them), so one is enough; the race needs a reload between two lock
acquisitions, and with two of them a handler can hold an instance two generations old, and
the second shows that nothing is left from the call before.  The three configurations add,
drop and keep destinations of each kind; the target list names a plain file that may fail to
enrich, one that may fail to be written after it was closed, one destination twice and one
that may be disabled.
*record*: every kind of destination, sizes on both sides of every threshold (the limits, ten
and thirteen characters, the marker, what GELF leaves), nesting down to the level whose paths
are shared.  `MaxTruncateIterations` is 10 where the code has 100: no record of the run has
more than 8 strings that can be cut, but one of 13 characters that stays the longest still
makes the rounds run out.  *reload*: an original, an edited, a non-compiling and an invalid
content give every outcome of a reload; three times give an edit, a second edit and a
restored older file.  *rules*: four rules allow two continuing rules before and one after a
final one.  *rate*: entries of different addresses share nothing; the delete race needs two
requests on one; a day of 5 units is the shortest that the assumption allows with a minute of
3 and a stall of 1.  *token*: two callers race for the last of two attempts while cleanup
holds the third entry.  *handler*: requests share only the clock and the tokens, which grow,
so one slot that serves one request after another meets every state of them; two tokens
differ in ids, in time or only in when they were asked for; the clock passes the expiry of a
token given out at any of the first times.

Deadlock is not checked where the system really stops: when the process has exited, when `Process` or the loop over the destinations has
returned.

Every property has a mutant: a plausible bug in one definition (marked `mutant` in the
modules) with which TLC finds the property violated.

### Fairness

Goroutines that can run do run (`WF` on their steps; in `RecordPipeline` on `Next`, since
nothing in it waits).  A reader waiting on an RWMutex is let
in before the next writer, so a handler's steps are strongly fair in `LogDispatch`; reloads
need not happen.  In `ConfigReload` a destination that can be opened is opened some day if
it is tried for ever (`SF` on the succeeding `InitLoggers`); nobody has to edit the file,
send a signal or finish a request, since `Shutdown` has a deadline.  In the limiters time
passes, callers get their locks, and the ticker fires.  `EntriesReclaimed` is about the time
after the last call, as an entry under attack stays.

## 4. Proofs

Checked by TLAPS for any destinations, configurations, requests and rules, from the named
assumptions on the constants only.

* `LoggerManagerProofs`.  None of the invariants is inductive: between `InitLoggers` and its
  return the map names closed instances.  `MgrInv` adds what each stage guarantees: while
  closing, the map names exactly the instances that were open, split into those still in
  `toClose` and those closed; while creating, the map holds only instances of this call, for
  destinations no longer in `toCreate`.  From it: `PublishedIffOpen`, `MapFollowsConfig`,
  `ClosedOnceFromMap`, and, which no run checks, `MgrTypeOK` and `OneGeneration` (readers see
  instances of one call only).  These theorems are about any sequence of `InitLoggers` and
  `CloseAll`; the program calls only the first, so only it is in a run.
* `LogDispatchProofs`.  `DispatchInv` is `MgrInv` plus, per request, how `plan`, `todo`,
  `at`, `held` and `stored` relate: positions stored or passed over are those before the ones
  in `todo`, generations do not decrease, and while no reload began since the names were read
  the map is unchanged.  One lemma per action; reload steps touch no request, so they need
  only that the manager's facts are stable.  From it: `TypeOK`, `CompleteBetweenReloads`,
  `OrderedOnce`, `LookUpFindsOpen`.  A step of the system is to the manager one of its own
  or none (`ManagerStep`), so its three properties hold among requests as well
  (`PublishedIffOpenUnderRequests` and its two neighbours), which is where the run checks
  them.  Two more invariants stand on `DispatchInv`.  `LeakInv`: outside a
  reload, closed instances are older than the newest generation, so what a look-up gives is
  newer than anything the request reopened before; hence `LeakIsBounded`.  `RotatedInv`: a
  name that is rotated in every configuration cannot fail to open, so outside a reload it is
  in the map, and a position passed without a fault was stored; hence
  `RotatedSurvivesReload`. The last section proves the refinement (`KeepsPromiseHolds`):
  every step of `LogDispatch` maps to a step of `LogDelivery` or a stutter: `Arrive` to
  `Accept`, `WriteSucceeds` to `Deliver`, `Answer` to `Answer`, all others change nothing the
  client can see.
* `ConfigReloadProofs`.  The properties are about what is in use, and say little of a reload
  under way.  `ReloadInv` adds what each stage of the two goroutines has made of the file it
  read (`StartUp`, `Reloading`, `Used`), that they do not run at the same time before
  start-up is over (`StartingAlone`), the order of modification times (`Stamps`), and
  `AboutLastEdit`: a reload is about a stamp later than the one applied, and what it loaded
  is the file unless the file was edited since the poll.  From it: `TypeOK`,
  `OnlyLoadableInUse` (loggers in use come from a content that loads, not always from one that
  compiles), `NoEditMissed`, for any times up to `MaxTime`, itself arbitrary.
* `TokenAttemptsProofs`.  `AttemptsInv` adds that a caller knows its key and time, and that
  an entry let no more failures through than it counted, all of them before the limit.  That
  a caller without an entry finds a free cell is a counting argument (`FreeCell`) from the
  assumption that there is a cell for each key and each caller; cells stand for Go's heap.
  From it: `TypeOK`, `FailuresAreBounded`.
* `RateLimiterProofs`.  `LimiterInv` gives type correctness, with `Underway` (what a request
  has taken so far) and the same counting argument for `LoadOrStore`.  A bound on what was
  admitted is not inductive: the invariant must say what may still be admitted.  `BucketInv`
  keeps an account per address (`Account`): its entry was deleted `d` units ago, or never; of
  its admissions, `cur` went through the entry that is in the map and `old` through the deleted
  one, and for each of the two what the bucket holds and gave during the last `m + 1` units is
  at most `Burst + m`.  When the cleaner deletes again, nothing of `old` may lie in the last
  minute: an entry is deleted only after `Idle` without use, and `Burst + 2 * Stall <= Idle`.
  `EarnedBack` is the law from below: of the `m + 1` tokens earned last, those the bucket does
  not hold were given.  `OneOwner` and `FreeIsFull` say that no entry serves two addresses and
  that a new bucket is full.  From the upper law `AdmissionBound`, from the lower one
  `RefusedOnlyWhenBusy`.
* `RuleProcessorProofs`.  The loop invariant says that the accumulators are those of the
  counted rules before `next`; well-foundedness of the naturals gives the least and greatest
  positions that the merge operators choose.  From it: `TypeOK`, `FirstFinalDecides`,
  `LastAddWins`, `FirstScriptWins`; and `SenderDecides`, since the address found for an
  untrusted sender is the one it sends from, whatever the headers say.
* `LogHandlerProofs`.  `Authorised` says nothing of the stages before the token check, so
  `HandlerInv` adds what each stage knows: ids are valid from the first check on, a token that
  was sent is out or signs nothing, one that is out signs the ids of its page and an expiry
  no later than its lifetime (`RoundedDown`).  `HonouredToken` is the heart: a token that
  passes belongs to these ids, because texts of valid ids differ.  From it: `TypeOK`,
  `Authorised`; and with the relation of `stored` and `header`, `AnswerTellsOutcome`.
  `RejectedInv` adds that tokens are given only to pages with logging on and that a refusal
  means that no good token was sent; with `ExpiryNotEarly` (rounding takes less than a second)
  it gives `ToldMeansLogged`.
* `RecordPipelineProofs`.  The largest one, as its operators need theorems of their own.  The
  library's induction rules take an operator as a parameter, which the provers here cannot
  instantiate; the proofs use sets instead.  A set of numbers that is not empty has a least
  element (`Least`), so what a set has at 0 and passes on it has at every number (`UpTo`), a
  recursive function satisfies its equation (`Recursion`), and the function that
  `SumFunction` chooses exists (`SumExists`), so that sums can be compared (`SumCompare`).
  On these stand the lemmas that sizes are natural numbers and get no larger when strings get
  shorter (`SizesType`, `SizesCompare`), that what is printed has a length (`PrintedSizeType`), that cutting strings moves no object to another
  depth (`SameLayers`), that additions and the merge give well-formed records (`ApplyFields`,
  `MergeFields`, `EnsureFields`), and that each format keeps to its limit (`WrittenFits`).
  Three invariants stand on the lemmas.

  `RecordInv` adds to the types what truncation leaves of the client's data (`Kept`: names of
  fields, nested maps, and the client's own fields as they were sent), that the level is a
  number until the client's data comes in (`NumericLevel`) and from then on an integer or what
  the client sent (`LevelFrom`), that no required field is lost while the record is cut, and
  that what was written so far fits.  `Kept` is needed because all
  records share the nested maps.  From it: `TypeOK`, `BunyanFields`, `OutputFits`.  With
  `TriedInOrder` it gives `DoneMeansTried`, the safety half of `EveryDestinationTried`, which
  no run checks by itself.

  `OrderInv` says of every field what the additions made so far have made of it (`Precedence`):
  the value of the last that speaks about it, or the base record's.  An addition that reads
  inside a nested map may read what an earlier destination had cut, so the value of a field
  that it decides is exempt, as is a message that is a map and printed (`FromInside`);
  `ClientFieldsAgree` says that the client's other fields are the same for every destination; `FoundKept` says that what an addition
  does not find in the data as sent it does not find later either, and that one that does not
  read inside a nested map finds the same.  From it: `SourcesInOrder`.

  `CutInv` is about the rounds.  The two properties are about the end of truncation; in between,
  no string is cut before a longer one (`LongestFirst`), each was cut when cutting the longer
  ones had not been enough (`MustCut`), a string that grew by being cut is one of the longest of
  all (`GrowsAlone`), and as long as a string above thirteen characters is left, each round cuts
  another one (`EveryRoundCuts`).  From it: `FitsIfItCan` and `CutsOnlyWhatMust`.  Both, and the
  invariant, are about records in which no string that may be cut has a path with a shared cell
  (`PathsAreOwn`); what can happen to the others is finding 3.

Only model-checked is liveness (`EveryRequestAnswered`, `EditsTakeEffect`,
`ShutdownTerminates`, `EntriesReclaimed`, `LimitersReclaimed`, `EveryDestinationTried`), which
is out of the prover's reach.  Every invariant, every action property and the refinement that
a passing run checks are stated by a theorem.

## 5. Not modelled, and why

The router, CORS and security headers are stateless tables.  YAML parsing and field
validation enter as the sets `Valid` and `Compilable`.  The browser script runs elsewhere.
The application logger only words output.  The text of the
script and of the URL in it is not modelled.  Sanitizing of the client's data is modelled
only by its outcome, an error or data.  Of GELF the level, the facility and the extra fields
are left out; of lumberjack the rotation.  JSON escaping and records nested deeper than four
levels are left out (section 2).

Observations made while reading, with no run:

* `README.md:298` and `302` say that `v` and `level` cannot be overridden, and `303` that
  `time` can: in the code client data overrides the first two and cannot touch the third
  (`EnrichAndMerge` sets `time` last).  The text is about Bunyan itself.
* The GELF short message is the field `message`, which the client's data cannot set, since
  it becomes `msg`: without an addition the text is "No message".  The level of a GELF
  message is at most 7, and Bunyan's levels (10 to 60) all become 7.
* A truncated JSON record keeps `ip_address`; the base record calls it `client_ip`.
* A string of 11 or 12 characters grows when it is cut, and one of 13 can be cut again and
  again until the rounds run out.
* `README.md:115` says that most changes of the configuration take effect without a restart.
  The server keeps the configuration and the rules of start-up (`main.go:95-105`, `155-160`),
  and the loop says so in the log (`main.go:161`): of a reload only the log destinations reach
  the handlers.  `ConfigReload` has it (`serverCfg` never changes).
* `README.md:487` and `494-495` speak of a limit on GELF messages.  Only the short and the
  full text are cut, to the limit less 1024 bytes; the extra fields are every field of the
  record (`gelf_logger.go:119-139`) and not bounded, so a message may be longer.  `OutputFits`
  is about the two texts.
* `README.md:147` promises at most `rate_limit` requests per minute and address.  A full
  bucket and what it earns in a minute are about twice that, and a cleanup may add another
  bucket (`AdmissionBound`).
* `PRD.md:64` and `204-206` ask for 401 for a bad token and 413 for a body that is too large.
  `/log` answers 200 whatever it finds (`log.go:59-164`); only the limiter answers 429.
  `AnswerTellsOutcome` is about the header that is sent instead.
* `interface.go:16` says `Close` should be called at shutdown; `main` ends in `os.Exit`
  (`main.go:195`), which skips the deferred `CloseAll`.  Writes are unbuffered, so nothing
  answered is lost.
* `ParseDuration` refuses products that came out negative (`config.go:505`); from 213504 days
  on the product wraps around and may be positive.
* `Shutdown` before `Start` has set `httpServer` (`server.go:376`) returns at once.

## 6. Findings

1. `reload_invalid`: `CHANGELOG.md:7` promises "no reload if validation fails"; a
   configuration whose rules do not compile has its log destinations applied
   (`main.go:144-153`), and is retried with every poll.
2. `token_cleanup`: `token.go:170` says cleanup removes entries that are no longer blocked;
   it unlocks before it deletes (`token.go:178-179`) and can remove one that is.
3. `truncate_alias`: `truncate.go:20-21` says that the longest string is found and
   truncated; at the fourth level of nesting its path shares memory with that of its
   neighbours (`truncate.go:452`), and the cut text may overwrite one of them, even a number,
   while the longest string stays.
4. `rules_downloads`: `config.go:127` and `config/example.yaml:65` say that a continuing rule
   accumulates `log_script_downloads`; `processor.go:172` takes it from the final rule alone,
   as `README.md:373-377` and `processor.go:50` have it.
5. `bunyan_types`: the comments in `ensureBunyanFields` (`enricher.go:225`, `234`, `239`,
   `265`) and `DESCRIPTION.md:166` promise the types that Bunyan asks for; a level that is a
   boolean, `null` or a map, and a name, hostname or message that is no string, pass as the
   client sent them (`BunyanFields` says what does hold).

## 7. Plan

1. **Abstract manager**: readers see one configuration's loggers or wait, refined by
   `LoggerManager` and used by `ConfigReload`, with the refinement proved.
2. **Start and shutdown**: `Shutdown` racing `Start` as two goroutines of `ConfigReload`.
3. **Numeric edges**: `ParseDuration` in 64 bits.
4. **GELF**: extra fields and levels, and with them the size of the whole message.
5. **Proofs**: the remaining safety halves of the liveness properties, as `DoneMeansTried` is
   one; and what the rounds of truncation keep where paths share a cell, beyond `RecordInv`.
