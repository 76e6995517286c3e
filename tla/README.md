# Cobalt R6 boat service: a verification project

The program (package `cobalt_boat`) runs on a Raspberry Pi in a boat. It listens
to the NMEA 2000 bus, decodes what it hears, keeps a catalog of it in SQLite,
records raw captures, shows telemetry, lets operators annotate what they see,
and, in a lab mode that is closed by default, sends volume and mute frames
behind a safety policy. This directory holds TLA+ models of it, the TLC runs
that check them and the TLAPS proofs of what matters most.

Paths below are relative to `src/cobalt_boat/` unless they begin with `docs/`,
`scripts/` or `deploy/`.

## 1. The system

### Components, their state and their operations

| Component | State | Operations | Module |
|---|---|---|---|
| Safety policy (`safety/policy.py`, `safety/models.py`) | `_attempts`: per whitelisted command a deque of timestamps; the audit table | `evaluate`: gates, domain, whitelist, parameters, rate limit, audit row | `PolicyRules`, `PolicyEngine`, `SlidingWindow` |
| Command calls (`services/platform.py:417-529`, routes of `api/app.py`) | none of their own: local variables of a thread | `preview_command`, `lab_fusion_transmit` | `CommandService` |
| CAN transmitter (`can/transmit.py`) | `_bus`, opened at the first send | `send_extended`, `close` | `CommandService` |
| Canboat decoder (`can/decoder.py:50-169`) | `_process` and its pipes, the queue of lines, the reader threads | `decode`, `is_ready`, `close` | `CanboatDecoder` |
| CAN listener (`can/socketcan.py`) | `_thread`, `_stop_event`, `_running` | `start`, `stop`, the receive loop | `CanIngest` |
| Event pipeline (`on_can_event`, `events.py`) | `_decoder_faulted`, the subscribers | decode, record, publish | `CanIngest`, `CanboatDecoder` |
| Raw capture (`can/capture.py`) | session, file handle, lock | `start`, `stop`, `write_frame` | `CanIngest`, `Correlation` |
| Fusion correlation report (`platform.py:312-415`) | none: reads annotations, then the file | `fusion_correlation_report` | `Correlation` |
| Operator data (`storage/repositories.py:158-286`, `domains/garmin_switching.py`) | three tables and their events | template update, watchlist upsert and delete, annotation, profile | `OperatorStore` |
| NMEA 2000 identifiers (`can/nmea2000.py`) | none | build, parse | `Nmea2000Id` |
| Message catalog (`repositories.py:54-132`) | one row per PGN, source and destination | `record_event`, listings | `CanIngest` (partly) |
| Audit log and system events | two tables | inserts, listings | in every model that writes them (partly) |
| Database (`storage/db.py`) | one connection per transaction | `connect`, schema, `ping` | as transactions that commit or raise (partly) |
| Vessel telemetry (`domains/telemetry.py`) | the last values of the vessel with their times | `record` per PGN, `as_dict` | `VesselTelemetry` |
| Settings (`config.py`) | frozen after start | `from_env` | `Settings` (partly) |
| CAN interface set-up (`can/interface.py:20-44`) | the state of the link | `ensure_up` | `Supervision` |
| Deployment (`deploy/systemd`, `scripts/cobalt-boat-healthcheck`) | the unit, its start limit, the timer | start, restart, health check | `Supervision` (partly) |
| Candump lines (`can/candump_parse.py`, `decoder.py:171-174`) | none | print a frame as a line, read it back | `CandumpLog` |
| HTTP routes, schemas, pages (`api/`) | none | one route per operation | arrivals and answers (partly) |
| `BasicNmeaDecoder` | none | copies the identifier's fields | not modelled |
| Logging configuration, domain stubs | none | configure handlers; placeholders | not modelled |

### How they interact

*Threads.* HTTP handlers are plain functions, so the server runs each in a thread
of its pool. The listener is a thread of its own and every analyzer has a reader
thread. Of the shared objects only `CaptureManager` has a lock; policy engine,
transmitter, decoder and fault latch have none.

*A command.* Route, `preview_command` or `lab_fusion_transmit`,
`PolicyEngine.evaluate` (deque, audit insert), then for a lab call
`SocketCanTransmitter.send_extended`, then an event insert, then the answer.
Each insert is a transaction that may raise out of all of it.

*A frame.* `bus.recv`, parse, `write_frame` (outside the handler's `try`), then
`on_can_event`: decode through the analyzer's pipes, upsert the catalog, publish
to the telemetry store, all in the listener's thread.

*A life of the process.* systemd starts it, `from_env` reads the environment or
raises, `create_app` checks decoder and database, the interface is set up, the
listener starts. A timer runs the health check, which asks `/health` and `/status`
over HTTP and restarts the unit when it dislikes an answer.

*The two sides meet* in the database (transactions), in `is_ready` (the health
route spawns an analyzer when none runs), in the capture manager, and in the
capture file, which a report reads while the listener writes it.

### What is hard

- steps of two threads in an unguarded deque, a lazy bus, a lazy process;
- an answer that arrives after the caller has given up, and an analyzer that stops
  reading, over which a write waits without a limit;
- calls made of several transactions of which one fails;
- the process killed between any two steps, with a line half written;
- stop and start while the old thread is still alive, and a stop that takes longer than
  whoever asked for it expects;
- two supervisors (systemd's restart limit and the health check) over one process
  whose environment file is edited under it;
- texts of an operator that are nearly a word the program knows;
- boundaries: the exact window edge, PDU 239/240, 17 bits of PGN, data of no bytes.

Each of these is listed, at its line, under `hazards` in `PROJECT.json` with the
properties that watch it, or with the reason that none does yet.

### What makes each component correct

- policy: never more approvals than the budget in any window; every attempt has
  its row; a refusal can be explained from the rows;
- command calls: no frame without an approving row, answers and events that say
  what happened, nothing sent behind a closed gate;
- decoder: one result for each frame in its turn, none given twice or ahead of its
  frame, its own answer unless one was late; one analyzer; decoding and stopping end
  unless a write is blocked or junk goes on for ever;
- telemetry: a value is as old as it is shown, and does not turn back;
- listener and pipeline: one thread at most, a truthful running flag, no frame
  lost unexplained, telemetry ahead of the catalog only for a frame whose loss is on
  record, stop works while decode returns;
- capture and report: no gaps, and a report that is exact and is never taken back;
- operator data: events match writes, listings lose nothing, the gate shown is
  the gate that is applied;
- identifiers and candump lines: what is sent is what is seen, on the bus and in a
  replay;
- settings and supervision: a safe service comes back, an open one does not last, a
  stop that was spelt right is obeyed.

## 2. Modules and their correspondence with the code

`PROJECT.json` maps every definition to its lines. In general an action is one
access to shared state by one thread, with its guard, its effect and its failure.

**PolicyRules** has no variables: domains, whitelist, the gates and
`StaticReason`, the first check of `_evaluate_internal` that fails, in the code's
order. A domain is a word and whether it was typed with blanks or capitals;
`strip().lower()` keeps the word. `Prunes` states what the `while` loop of
`_is_rate_limited` leaves behind.

**SlidingWindow** is the abstract specification of the limiter. It keeps the whole
history of attempts and no deque: an attempt is approved exactly when fewer than
`MaxAttempts` attempts of that command, approved or not, lie in its window.

**PolicyEngine** is the engine with one caller at a time, so `evaluate` is one
action (`EvaluateDenied` or `EvaluateLimited`): prune, append, compare, insert a
row or raise. `Restart` loses the deque and keeps the table. `history` and
`firstRow` are auxiliary. It implements `SlidingWindow` with `history` as the
refinement mapping.

**CommandService** is the same engine under several threads, with the calls around
it. A thread's `pc` is the next access to something shared: test of the deque's
head, `popleft`, `append`, `len`, audit insert, open, send, event insert. `popleft`
of an empty deque is the IndexError that answers 500. The gates are frozen
settings and are checked when the call arrives, with the timestamp. `overlapped`
is auxiliary: it remembers whether two threads have ever been in the limiter for
one command, or in the transmitter, at once.

**DecoderContract** is the abstract specification of `decode` as `on_can_event` sees
it: frames are asked and given a result in turn, an answer is that of this frame or
of an earlier one that nobody was given yet, an exception latches the fault and
nothing else does.

**CanboatDecoder**: `process`, the pipes of each analyzer, the one queue that all
reader threads fill, the listener, threads that call `is_ready`, and `stop`. Every read of
`self._process` is a step of its own, because no lock guards it: in `_ensure_process` the
test for None, the poll, the spawn and the start of each reader (`Ensure` to
`StartStderrReader`), in `decode` the write and the flush, in `close` the closing of stdin
with `terminate`, the wait and the forgetting (`Terminate`, `Reap`, `Forget`). A thread
that finds None where the code asserts a process raises. So two threads may give the
second analyzer two readers and the first none; several readers overtake each other and
may lose a line, and the model lets them (`ReadLine`).

The analyzer is external: it may stop reading, skip a frame, answer late, print lines that
are no objects for as long as it likes, die. A pipe to it holds `PipeLines` lines; a write
to a full one waits (`blocked`) until the analyzer reads or exits, and `close` waits for the
lock of the stream that such a write holds. A line is the number of the frame it answers.
Junk lines come one at a time, in the queue at once: `Babble` may follow each `Read`. `stop`
begins when the health checks are idle, because the server finishes its calls before the
lifespan handler runs. `trouble` is auxiliary: it remembers whether the listener gave up on
an answer that could still come, and whether two threads were in `_ensure_process`, or the
listener still decoding during `close`. It implements DecoderContract with `asked <- frame`,
`given <- decoded`.

**VesselTelemetry** composes that decoder with the rest of `on_can_event` and with
`BoatTelemetryStore`: `Handle` records the answer and stamps it with the frame that is
being handled; a failing upsert keeps the answer from the dashboard. What a frame says (PGN and fields) is chosen at the start; a value is
known by the frame the analyzer read it from, so a stale value is visible as
`from # stamp`. A position is recorded only when both halves are in one message.

**CanIngest**: the listener's loop with the capture write, decoding, recording and
publishing as separate steps, each with its failure; `start`, `stop` and the two
capture calls. What is published is what decode returned, under its own PGN: that may be
the answer of an earlier frame, one that timed out or whose decode raised after its line was
written. `owed` is the set of frames whose answer has not been given and `answer` what each
thread's decode returned; decode may give any that is owed, or none. `done` is auxiliary:
the frames the handler has finished, and whether a failing write or statement took them
away. No route calls `start_capture`; the model lets any thread call it, as the method allows.

**OperatorStore**: a call is read, write, log, read back, each a transaction of its
own that may raise. The database may hold a template that an earlier release left
and that cannot be read now. A template's banks are one model value, and the
watchlist is the set of its PGNs, without tags and times. `written` is
auxiliary: the writes committed and the template each of them replaced.

**Nmea2000Id**: `Build` and `Parse` with shifts and masks as division and
remainder; the fields that `|` joins are disjoint, so the join is a sum. `Send`,
`Observe` and `Receive` put one frame on the bus and take it off.

**CandumpLog** puts text over Nmea2000Id: the line the decoder writes, the two formats
candump prints, and `candump_parse` that reads them. A line's data is its whole bytes and
perhaps one digit more, which the log format takes and the screen format refuses; a line
from elsewhere may have one, or declare a length that is not that of its data.

**Settings** has no variables: the texts an environment may hold, `ParseBool`,
`FromEnv`, which texts raise, and which decoder backends are refused.

**Supervision**: the unit (active, waiting, restarting, stopping, stopped, failed), the
process (none, starting, serving, stopping), the environment it was started with, the start
limit's window, the timer and the health check as its steps (two requests and a restart).
`Boot` is `run`, `create_app` and `start` in one, because nothing outside sees their middle;
`EnsureUp` may stop half way and leave the link down. `systemctl restart` is two steps,
`RestartUnit` and `StopEnds`, when there is a process to end: that takes up to `StopTicks`
(join of the listener, `close`, open requests), or up to `KillTicks`, when systemd kills it,
behind a decoder that no longer reads. The check waits for it. The timer fires `OnBootSec`
after boot and `OnUnitActiveSec` after each check: `timer` counts from the last check, and
begins as far below `Period` as the first check is to wait. The network may be up any time
before that check. systemd is external and modelled from the unit files and the script.
`calm` is auxiliary: for how long nobody has edited, broken, repaired, killed or stopped
anything.

**Correlation**: a session's file, one line at a time; a line is torn from its
first byte until it is flushed, and stays torn after a crash; a torn line is not
JSON and is skipped. A report reads the annotations first and the file later,
which are two steps. A missing file is an empty one.

**MC…** modules give the constants of the runs. **…Proofs** modules hold theorems.

Definitions with the comment "Mutant of" are faulty versions of the definition
that follows. No specification uses them; each documents a bug that the named
property would catch (`mutants` in `PROJECT.json`).

## 3. The runs

| Run | Properties | What it shows |
|---|---|---|
| PolicyEngine | `TypeOK` `RateBound` `AuditExplainsDenial` `KeepsPromise` | no window holds more approvals than the limit, the audit explains every `rate_limited` row though inserts fail, the engine implements `SlidingWindow` |
| ServiceThreads | `TypeOK` `EffectsAreAudited` `ToldTruly` `SendsBehindGates` `OverlapAloneBreaksRate` `OverlapAloneReopens` | two threads, two kinds of call, failing inserts and bus, restarts with other settings: no frame without its approving row, a call without a row did nothing, answers and events say what happened |
| RateRace | `NoFlood` **violated** | see findings |
| DecoderFaults | `TelemetryTypeOK` `KeepsContract` `LatenessAloneMispairs` `CrowdAloneLeaks` `LatenessAloneRejuvenates` `RespawnAloneTurnsBack` `OnlyPipeOrJunkHangs` | decoder and telemetry under every fault of the analyzer, a health check and a stop at any moment: the decoder implements `DecoderContract`, only a late answer makes an old value look new, only a respawn after one turns a reading back, and only a write that stays blocked or junk without end keeps decode or stop from returning |
| SlowAnalyzer | `AnswerMatchesFrame` **violated** | see findings |
| IngestFaults | `TypeOK` `OneListener` `RunningMeansAlive` `CaptureIsGapless` `FramesAccounted` `TelemetryExplained` `StopEndsListener` | every step failing, answers of earlier frames, stops that do not wait, kills, a capture session |
| StoreThreads | `TypeOK` `EventsMatchWrites` `AnnotationsOnlyGrow` `WatchAnswersExplained` `ShownGateIsPolicys` | two operators, failing transactions, restarts under other gates |
| SnapshotRace | `SnapshotsAreTrue` **violated** | see findings |
| FrameIds | `SentIsSeen` `SeenRebuilds` `ReplayIsSeen` `ReplayIsStable` | build and parse against each other at every boundary; a frame that is logged as text and read back is the frame that was seen; lines from elsewhere with wrong lengths and odd digits are read the same again |
| Report | `TypeOK` `ReportsAreExact` `ReportsOnlyGrow` | reports of a file that is being written |
| OneTrial | `HighMeansThreeTrials` **violated** | see findings |
| ServiceLives | `RecoversInTime` `OnlyMisspeltStopIsLost` `OpenLivesAreShort` `DownIsRevived` | edits of the environment file, parts that break and are repaired, kills and stops that take time: a safe service comes back in bounded time, a life in which writes are possible ends with the next check, the first one after boot at the latest, what was given up or stopped is started again |

Properties of the form "only X can break Y" (`OverlapAloneBreaksRate`,
`OverlapAloneReopens`, `LatenessAloneMispairs`, `LatenessAloneRejuvenates`,
`RespawnAloneTurnsBack`, `CrowdAloneLeaks`, `OnlyMisspeltStopIsLost`) locate a weakness
the code has: they hold in every behaviour, the ones with restarts and failures
included, until X happens, and the violation runs show that X really does break
Y (RateRace, SlowAnalyzer).

### Bounds, and why they are enough

- *Window 1, limit 1 or 2, clock to 2 or 3.* An attempt can be inside the window,
  exactly at its edge and outside, and there is time for a full window after a
  prune. PolicyEngine uses the limit 2 so that a burst can straddle an edge, four
  decisions per command, three rows, two spellings of one command.
- *Two threads, three calls.* Two threads are the least that race. Three calls let
  one leave an entry behind for two others to race over. One of the
  calls may be a preview of the same command, which the limiter also counts. Two
  threads are interchangeable, so ServiceThreads uses symmetry; it checks only
  invariants and a step property, no liveness.
- *Configurations*: lab open, lab with a closed gate, lab with an identifier that
  cannot be built, and the boat's default. `Restart` may change between any two.
- *Three frames, two analyzers, one health check, pipes of one line.* A late answer needs
  two frames to be mispaired and a third to show that it stays so; a respawn needs two
  analyzers, of which a third would repeat the second. A pipe of one line is full with the
  first frame that is not read, so writes block. The frames say: a position, a position,
  half a position, so that a value can be replaced, turn back and stay because its message
  was not whole. A failing catalog is left to IngestFaults (`StoreMayFail` is FALSE here).
  The theorems cover every number of them, every capacity, a failing catalog and whatever
  the frames say.
- *Three frames, two listeners, one session.* The second listener is the one
  started over a stop that did not wait; three frames leave one before, one in and
  one after a failure. Their PGNs differ in the three ways the handler tells apart: one
  that telemetry reads, one that it does not, none.
- *Four lines, one annotation, two reports.* A chain has three lines; the fourth
  comes between, before or after. Two reports are compared. Three annotations are
  used in OneTrial only.
- *Three operator calls by two threads*, one template and one PGN with three gate
  settings; two templates where snapshots are compared. The two threads are
  interchangeable here too.
- *FrameIds* takes each field at its least, greatest and first illegal value,
  PGNs on both sides of 0xF000 and of 17 bits, data of no, one and eight bytes,
  declared lengths below, above and far above the data, and an odd digit after none and
  after two bytes in both formats; the theorems cover all the rest.
- *ServiceLives*: a tick is twenty seconds. Start limit and its interval are 3
  starts in 3 ticks (`StartLimitBurst=3`, one minute), the first check comes 6 ticks after
  boot, its period is 3 ticks and its accuracy one; a restart, a start and a stop take at
  most one each, a stop until systemd kills 5 (its default of 90 seconds). `Horizon` 13 is the least for
  which the theorem below speaks: the longest wait for a check, one more that falls outside
  the start limit's interval, a stop and a start. The bound of `OpenLivesAreShort`, `Wait` = 7
  ticks, is reached: with `<` the run fails. A stop and a start together must be shorter than
  the period: with `StopTicks` 2 the next check is due as soon as a restart has begun the
  process, restarts it again while it starts, and `RecoversInTime` fails. Files: the boat's,
  the lab with its stop spelt right (in capitals), the lab with it misspelt, an empty port
  (which the program cannot read), a new port with interface set-up. Parts that break:
  decoder, link, the `ip` command; the database would act as the decoder does.

`CHECK_DEADLOCK FALSE` stands only where the system may really stop within the
bounds: the decoder once it is closed or its frames are used up (DecoderFaults,
SlowAnalyzer), and reports once their number is used up (Report, OneTrial).
Elsewhere a restart, a crash or an edit is always possible.

### Fairness

- `CanIngest!FairSpec`: weak fairness of `Proceed(t)` of each listener thread: opening the
  bus, the test of the stop event, the capture write, the catalog's statement, publishing
  and the way out. Python's interpreter switches threads at regular intervals, `recv` has a
  timeout, statements and file writes end. Decode is not among them: nothing says that it
  ends, so `StopEndsListener` makes an exception of a thread that is in it for ever. `start`
  and `stop` owe nothing either. The bus owes nothing: no frame need arrive, and an error of
  the bus (`RecvFails`) is never forced, or stop would seem to work thanks to it.
- `VesselTelemetry!TelemetryFairSpec` (`Fairness` of CanboatDecoder): weak fairness of the
  listener's decoding and of close. `get(timeout=...)` returns, and `wait(timeout=1.0)` does.
  A write to a full pipe is not enabled, nor is the closing of its stream, so fairness promises
  nothing of them. Threads in `is_ready`, reader threads and the analyzer owe nothing:
  neither reading, nor answers, nor an end of junk, nor death.
- `Supervision!FairSpec`: weak fairness of the program, the check and the clock taken
  together. What is due is done before the next tick, since systemd, the timer and the
  time limits of the requests are kept by clocks that run without the program. Whoever
  edits, breaks or kills owes nothing.

## 4. What is proved

All theorems hold for every value of the constants that satisfies the `ASSUME` of
their module, with no bound on time, calls, lines or reports but the named
constants, which may be any natural numbers.

**PolicyEngineProofs.** Assumption `PolicyAssumption` (the requests and gates are of
their types, window and limit are integers). `TypeCorrect` is
inductive by itself. The rate bound is not: the deque alone says nothing of what
was pruned. The invariant is

    IInv == TypeOK /\ QueueIsRecent /\ HistoryInOrder /\ PromisesKept

(the deque is the tail of the history and what is missing is outside the window;
timestamps never decrease nor run ahead of the clock; every past decision agrees
with its window). The core lemma `LimiterCall`, over `WindowSplit`, shows that the length of the pruned
deque equals the number of attempts in the window. From it:
`PrunedIsOld`, `RateBounded` (through `PromiseBounds`: take the last approved
attempt of a window) and `EngineKeepsPromise`, the refinement: the first states map
to first states, and each step to `Decide`, `Forget` or a stutter.

`DenialExplained` needs a second invariant, about the rows that this life of the
process has written: `RowsOfAttempts` (of a command, the rows stamped before any time
are no more than this life's attempts before it: an attempt leaves at most one row,
with its own stamp) and `Explained` for each of them. A denial saw `MaxAttempts`
attempts in its window; those without a row are failed inserts, and the others are rows
of the same window. `DecisionRecorded`, `RowsKept` and `StaysExplained` carry the counts
across an insert and a failed insert; after a restart there is nothing to explain yet.

**Nmea2000IdProofs.** Assumption `IdAssumption`. `Extract` and `Decompose` relate an
identifier to its six fields by integer division; `ParseParts` and `BuildParts` say
what parse and build make of them. `SentFramesAreSeen` and `ParsedFramesRebuild`
follow with an invariant that ties `wire`, `asked` and `seen`. The module goes on to
CandumpLog: `FramesBeneath` shows that the bus under the log behaves as Nmea2000Id, so
both theorems hold there (`SentAreSeenBesideLog`, `ParsedRebuildBesideLog`).
`LogLineReads` and `ScreenLineReads` say what the reader makes of a line of each
format, `CutToLength` what a declared length does to data. With the invariant
`LogInv` (which frame, which line and which reading belong together) they give
`LoggedFramesReplay` and `ForeignLinesAreStable`, the latter for lines of any declared
length and any number of digits, odd ones included.

**CorrelationProofs.** Assumption `CorrelationAssumption`. `FirstExists` gives the
least element of a set of lines; `GreedyIsExact` shows that taking the
first command and the first acknowledgement after it, without going back, finds a
chain whenever there is one. The invariant is

    IInv == TypeOK /\ ReportsRead /\ ReportsInherit /\ JobsRead /\ ReportsAreExact

(what a report or a job in progress read was whole and is still there; a report
has read at least what reports given before it began had read). `SearchIsExact`
is its last part; `MatchesAreNeverTakenBack` follows because a chain stays a chain
in a longer file and a wider window (`ChainGrows`).

**CommandServiceProofs.** Assumption `ServiceAssumption`. The invariant is

    IInv == TypeOK /\ Numbered /\ Staged /\ WireAudited /\ UnauditedDidNothing
            /\ EventsTruthful /\ AnswersTruthful

(no two threads serve one call, and every effect bears the number of a call made;
each place in a call is reached by a call of the right kind with the right verdict;
then the four statements about rows, frames, events and answers). `Staged` is what makes it inductive: it says what a thread has
already done where it stands, and no other thread can undo it. From it:
`EffectsAudited`, `Truthful`; `SentBehindGates` is the step property.

`RateBrokenByOverlapAlone` carries the single caller's argument through every place of
every thread. Its invariant `RateInv` holds as long as no two calls of one command have
been in the limiter at once, and speaks of claims: the frames that calls of a command
have put on the bus or may still put there. The claims at or after a time t are no more
than the entries of the deque behind any entry older than t, for every t the limiter may
still prune to (`Covers`); the thread in the limiter has the latest request of its
command, and prunes only what has expired (`Latest`); no window of the frames sent or
granted has more than the limit (`Rated`). `ReopenedByOverlapAlone` needs only which
thread is past the test of the bus.

**OperatorStoreProofs.** The invariant is `IInv == TypeOK /\ Staged /\ AnswersHold`: what
each call has read and written where it stands, and what its answer says of it. It
gives `EventsTellOfWrites`, `AnnotationsGrow`, `ListingsAreExplained` and
`ShownGateIsTrue` for any number of threads and calls.

**CanIngestProofs.** Assumption `IngestAssumption`. The invariant is

    IInv == TypeOK /\ Single /\ RunningMeansAlive /\ Held /\ Counted /\ Owing
            /\ OpenFile /\ CaptureIsGapless /\ Past /\ FramesAccounted

(one thread is between start and its end; what it holds is the newest frame; catalog,
errors and losses add up to what is done; a session's file ends at the frame before).
The core is the balance of the four counts, in `Balance` and `FinishKeeps`. `Owing` gives
`TelemetryExplained`: whatever may still be published, the frame on the dashboard, those
owed and each thread's answer, is `Settled` (the catalog has it or a newer one, or it is on
record why not) or `Pending` (about to be recorded by the thread that holds it). The
theorems are all six safety properties of the run IngestFaults.

**CanboatDecoderProofs.** Assumption `DecoderAssumption`. What a step does to frames and
answers is one of a few kinds (`Kinds`): nothing (`Quietly`), a frame arrives, it goes to an
analyzer (`Sends`) or comes to nothing (`ComesTo`), an answer passes on, a junk line comes.
Three arguments stand on them. `ContractKept`, the refinement, rests on

    IInv == TypeOK /\ Stages /\ Ordered

where `Stages` says where threads may be and `Ordered` that the number of a frame is in one
place at most (in a stdin, a stdout, the queue or among the results) and that a frame not
written yet is nowhere. The places are numbered, so that one function `Contents` holds all
sequences, and every step takes one element of a place (`TakeOne`; not always the head, as
readers may overtake each other) and puts it last at another or loses it (`PutLast`,
`Passes`); the line read is then one nobody was given. `OnlyCrowdLeaks` adds `Alone`: without
a crowd `alive` is at most the decoder's own process, and empty while one is being started and
after the wait of close. `OnlyLatenessMispairs` adds `InStep`: as long as the listener gave up
on no answer that could come, any answer under way, in a living analyzer's stdin, a stdout or
the queue, is that of the frame being decoded; and `Untouched`: an analyzer not yet started
was given nothing.

The second half of the module is about VesselTelemetry, under `TelemetryAssumption`.
`DecoderInside` shows that the decoder in the composition behaves as CanboatDecoder, so
its theorems hold there (`ContractKeptBelow`); with `NotAhead`, from the contract, it
gives `AgesAreTrue`. `TelemetryTypeCorrect` is the type invariant. `OnlyRespawnTurnsBack`
is a step property with the invariant

    InTurn == spawned <= 1 => Sorted(Contents)

and `OneReader`: one analyzer has one reader, so none overtakes another.
With one analyzer the places form a line (stdin, stdout, queue, results), and a frame that
lies ahead of another is an earlier one. Each step takes the head of one place and puts it
last at the next (`TakeSorted`, `PutSorted`, `MoveSorted`), which keeps the line sorted, and a
reading is always the answer to a frame that was handled (`Recorded`). With more analyzers
the pipes are rivals and the line breaks; then `OnlyLatenessMispairs` still holds, which is
why it takes both a late answer and a respawn to turn a reading back.

**SupervisionProofs.** Assumption `SupervisionAssumption`. `OpenLivesEnd` has no other
hypothesis: the invariant (`InTime`, `OpenEnds`) says that an open process is never older
than the timer of the health check allows, because nothing that is due waits for the next
tick, save a check that waits for its own restart. Its bound is

    Wait == IF BootDelay > Period THEN BootDelay + Accuracy ELSE Period + Accuracy

The other two theorems compare `Horizon` with the unit files' times, as hypotheses:
`StopsAreHeeded` asks for `Horizon > Wait + StartTicks`, and `ServiceRecovers` for

    LongEnough == /\ StopTicks + StartTicks < Period /\ Burst >= 2
                  /\ RestartSec + 2 * StartTicks <= Latest
                  /\ StartTicks + Wait <= Latest /\ StopTicks + Wait <= Latest
                  /\ Interval + Wait <= Latest

where `Latest == Horizon - 1 - StartTicks - StopTicks`. ServiceLives meets it with nothing to
spare: with `Horizon` 13 the last conjunct is an equation. So do the unit files themselves: a
tick may be a second, then interval 60, burst 3, restart 5, boot delay 120, period 60,
accuracy 15, so `Wait` is 135, and with a start of 30 seconds and a stop of 20 a horizon of
246 is enough: a service that can be repaired serves again within about four minutes of
quiet. The first conjunct is a condition on the program, that it starts and stops within a
minute. The invariant `RecoverInv` bounds `calm` by where the unit is (`Waits`, `Stops`,
`Starts`, `Checked`, `PassedEarly`): a unit that waits, stops, starts, or runs and displeases the
check has not been calm for longer than the supervisors still need. The case that decides is
a restart refused by the start limit: the check after it must fall outside the interval
(`WindowSpared`).

The proofs corrected the model in two places. `OnlyMisspeltStopIsLost` listed the texts that
lose a stop and had left out the words of other variables that a text may hold; it now
says that the text is none of the words for on. `Repaired` depended on which parts a run
lets break; it now depends on the file alone.

### Only model-checked

- Liveness (`OnlyPipeOrJunkHangs`, `StopEndsListener`, `DownIsRevived`) and anything with
  ENABLED, which is out of the prover's reach, as is induction over data; no model here
  needs recursion.
- The violation runs, which are counterexamples and need no proof.

Every invariant and every step property that a passing run checks is stated by a
theorem.

## 5. Findings

1. **More frames than the limit** (RateRace). The deque is tested and popped in two steps.
   Two threads test the same expired head. The first pops it, appends its own attempt and
   counts one; the second pops that attempt, appends its own and counts one. Both send, at
   the same time, where one may (`docs/safety-model.md:50`). `NoFlood` looks back from now
   only: over any past window the limit fails sooner, because a thread stamped later may
   rightly prune while one stamped earlier has not yet entered the limiter. If the second
   pop meets an empty deque instead, IndexError leaves `evaluate` before its insert, though
   rows are promised "for every attempt" (`safety/policy.py:38`).
2. **One late answer shifts all later ones** (SlowAnalyzer). After a timeout the
   late line is still in the queue and is taken for the next frame's answer, for as
   long as the analyzer lives (`can/decoder.py:52`). `LatenessAloneRejuvenates` shows where
   it ends: an old value on the dashboard under a new time.
3. **Two updates with one previous snapshot** (SnapshotRace). Read, write and log
   are three transactions (`docs/garmin-glass-cockpit-integration-notes.md:134`).
4. **"high" after one trial** (OneTrial). Overlapping windows count one chain three
   times (`docs/fusion-ms-ra600-nmea-guide.md:157`).

Seen while modelling, without a run of their own: there is no cooldown between
writes though `docs/safety-model.md:51` asks for one; `docs/safety-model.md:66-68`
promises an emergency switch at run time, but settings are frozen at the start; a
misspelt `COBALT_EMERGENCY_DISABLE` is off without a word (`OnlyMisspeltStopIsLost` states
exactly which texts are lost); the health check restarts a service that is in lab mode
or emergency-disabled every time it runs, and starts one that an operator stopped; a
frame whose decoding raises is not in the catalog (`docs/deployment.md:96`), which
`FramesAccounted` states as it is, but its answer may still reach the dashboard with a later
frame; an analyzer that stops reading holds the listener in a write without a timeout, and
health, which asks only whether analyzer and listener live, stays good; `stop` then waits for
the stream's lock until systemd kills the service (`OnlyPipeOrJunkHangs`); a stop and a start
that together last longer than the health check's period let the next check begin at once and
restart a service that is still starting; `start` over a listener whose join expired starts
nothing; a start whose event insert fails leaves its listener running. Two operators'
sends may each open the bus, and a health check together with the listener may each
spawn an analyzer.

## 6. Not modelled, and why

- Values of telemetry: `_to_float` and the choice between kelvin and celsius make a
  number of a text; the model knows only which frame it was read from.
- Settings that are paths, names, host or log level: any text will do. Of numbers only
  whether the text can be read; of the port, which of two.
- Timestamps, channels and comments of candump lines; tags and times of the watchlist.
- An analyzer's object that answers no frame it was given (its start-up banner, say, if it
  printed one as JSON): it would shift the answers as a late one does.
- Readers' buffers: a line is with the analyzer's stdout or in the queue. Junk is in the queue
  as soon as it is printed.
- SQLite statements and writes to files that never end: they succeed or raise.
- Timestamps that are not numbers (`float` raises out of `parse_candump_line`).
- A network that comes up only after the first health check; systemd's own failures.
- A stop that lasts until it is killed for any other reason than the decoder.
- `BasicNmeaDecoder`: it copies the identifier's fields, which `Parse` has.
- TLS, installation scripts, log rotation: no state of the program.
- Read-only listings, HTML pages, response schemas, logging, `ping`: no state of their own.
- Payload bytes of the lab frames: constants per button.
- A clock that runs backwards: `datetime.now` never decreases in the models, and no
  document says what the limiter should do then.
- The test of the deque's emptiness and the read of its head are one step
  in `PruneTest`; a switch between them ends in the same IndexError as `Pop`.
- `PolicyEngine.evaluate` is one action in the module of that name, on purpose:
  it states what holds with one caller, which is what `CommandService` then breaks.

## 7. Plan

Written in this order, the most important behaviour first: PolicyRules,
PolicyEngine over SlidingWindow with its proofs; CommandService over PolicyRules;
CanboatDecoder; CanIngest; OperatorStore; Nmea2000Id and Correlation with their
proofs; Settings and Supervision; DecoderContract and VesselTelemetry over the decoder;
CandumpLog; then the proofs of CommandService, OperatorStore, CanIngest, CanboatDecoder
and VesselTelemetry; then those of CandumpLog, Supervision, the table of PolicyEngine, the
rate of CommandService and the order of answers. Left, if the work goes on:

1. CommandService without overlap as a refinement of SlidingWindow, with the history of
   decisions as an auxiliary variable; its rate is proved, the exact answers are not.
2. An abstract specification of a capture session (a file that only grows by the next
   frame) and CanIngest as its refinement.
3. The capture routes, once the program has them (`start_capture` is called by no route).
