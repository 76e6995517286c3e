--------------------------- MODULE CanboatDecoder ---------------------------
(***************************************************************************)
(* CanboatProcessDecoder (can/decoder.py): the listener thread writes each *)
(* frame to the analyzer's stdin and takes the next line off one queue     *)
(* that the reader threads of all analyzers fill, within a timeout.  Other *)
(* threads (GET /health, start) call is_ready, which spawns an analyzer    *)
(* when there is none, and stop calls close.  on_can_event's fault latch   *)
(* and health's answer (services/platform.py) are included.                *)
(*                                                                         *)
(* An analyzer is a number, 0 stands for None; frames are numbered in the  *)
(* order the listener decodes them; a line is the number of the frame it   *)
(* answers, or Junk, one that is not a JSON object.  Every object an       *)
(* analyzer prints answers a frame it was given.                           *)
(***************************************************************************)
EXTENDS Integers, Sequences, FiniteSets

Seqs == INSTANCE SequencesExt

CONSTANTS Checkers,    \* threads that call is_ready
          MaySkip,     \* may the analyzer give no line for a frame (fast packets)?
          MayBeLate,   \* may an answer come after the timeout?
          MayDie,      \* may the analyzer exit by itself?
          SpawnMayFail,\* may Popen raise OSError?
          MayBabble,   \* may the analyzer print lines that are not JSON objects?
          PipeLines,   \* how many lines a pipe to an analyzer holds
          MayStop,     \* may the service be stopped while frames arrive?
          JoinMayExpire,\* may the listener outlast the two seconds stop waits?
          MaxFrames,   \* bound on frames
          MaxSpawns,   \* bound on analyzers
          MaxChecks    \* bound on calls of is_ready

ASSUME DecoderAssumption ==
    /\ "listener" \notin Checkers
    /\ {MaySkip, MayBeLate, MayDie, SpawnMayFail, MayBabble, MayStop,
        JoinMayExpire} \subseteq BOOLEAN
    /\ PipeLines \in Nat \ {0}
    /\ MaxFrames \in Nat /\ MaxSpawns \in Nat /\ MaxChecks \in Nat

None == 0
Junk == 0
Listener == "listener"
Threads == {Listener} \cup Checkers

Analyzers == 1..MaxSpawns
Frames == 1..MaxFrames
Lines == Frames \cup {Junk}

VARIABLES process,   \* CanboatProcessDecoder._process
          spawned,   \* how many analyzers were ever started
          alive,     \* the analyzers that have not exited
          readers,   \* per analyzer, how many threads read its stdout
          shut,      \* the analyzer whose stdin close has closed
          stdin,     \* per analyzer, frames written and not yet analyzed
          stdout,    \* per analyzer, answers its reader has not taken
          queue,     \* CanboatProcessDecoder._stdout_queue
          pc,        \* where each thread is
          target,    \* the analyzer that a blocked write is for
          frame,     \* the frame the listener decodes, or the last one
          decoded,   \* per frame decoded, the line it was given
          faulted,   \* PlatformService._decoder_faulted
          checks,    \* how many calls of is_ready were made
          stopping,  \* how far PlatformService.stop has come
          trouble    \* auxiliary: has an answer been late, have threads crowded

processes == <<process, spawned, alive, readers, shut>>
pipes == <<stdin, stdout, queue>>
platform == <<frame, decoded, faulted>>
program == <<processes, pipes, pc, target, platform, checks, stopping>>
vars == <<program, trouble>>

\* What a frame came to, when it is not an answer.
Undecoded == 0
Raised == -1

\* Where a thread is while it is in _ensure_process.
Entering == {"ensure", "poll", "spawn", "readers", "stderr"}

TypeOK ==
    /\ process \in Analyzers \cup {None}
    /\ spawned \in 0..MaxSpawns
    /\ alive \subseteq 1..spawned
    /\ readers \in [Analyzers -> Nat]
    /\ shut \in Analyzers \cup {None}
    /\ stdin \in [Analyzers -> Seq(Frames)]
    /\ stdout \in [Analyzers -> Seq(Frames)]
    /\ queue \in Seq(Lines)
    /\ pc \in [Threads -> Entering \cup {"idle", "answer", "write", "blocked", "flush", "read"}]
    /\ target \in Analyzers \cup {None}
    /\ frame \in 0..MaxFrames
    /\ decoded \in Seq(Frames \cup {Undecoded, Raised})
    /\ faulted \in BOOLEAN
    /\ checks \in 0..MaxChecks
    /\ stopping \in {"no", "joining", "terminating", "terminated", "closed"}
    /\ trouble \subseteq {"late", "crowd"}

Init ==
    /\ process = None
    /\ spawned = 0
    /\ alive = {}
    /\ readers = [a \in Analyzers |-> 0]
    /\ shut = None
    /\ stdin = [a \in Analyzers |-> <<>>]
    /\ stdout = [a \in Analyzers |-> <<>>]
    /\ queue = <<>>
    /\ pc = [t \in Threads |-> "idle"]
    /\ target = None
    /\ frame = 0
    /\ decoded = <<>>
    /\ faulted = FALSE
    /\ checks = 0
    /\ stopping = "no"
    /\ trouble = {}

---------------------------------------------------------------------------
(* _ensure_process, shared by decode and is_ready, which take no lock: each  *)
(* step reads self._process anew.                                           *)

Goto(t, label) == pc' = [pc EXCEPT ![t] = label]

\* Where the caller goes on: decode writes, is_ready answers.
AfterEnsure(t) == IF t = Listener THEN "write" ELSE "answer"

\* poll() is None: the process runs.
Runs(a) == a # None /\ a \in alive

\* The listener is back for the next frame, which decode gave to this one.
Decoded(result) ==
    /\ decoded' = Append(decoded, result)
    /\ Goto(Listener, "idle")

\* Mutant of DecodeRaises: the frame is dropped and nothing is latched.
DecodeRaisesQuietly == Decoded(Raised) /\ UNCHANGED faulted

\* decode raised: on_can_event latches the fault and drops the frame.
DecodeRaises == Decoded(Raised) /\ faulted' = TRUE

\* _ensure_process raises: decode does with it, or is_ready.
EnsureRaises(t) ==
    /\ IF t = Listener THEN DecodeRaises ELSE Goto(t, "idle") /\ UNCHANGED <<decoded, faulted>>
    /\ UNCHANGED frame

\* Mutant of Ensure: an analyzer is started for every call.
EnsureAnew(t) ==
    /\ pc[t] = "ensure"
    /\ Goto(t, "spawn")
    /\ UNCHANGED <<processes, pipes, target, platform, checks, stopping>>

\* self._process is not None and ...
Ensure(t) ==
    /\ pc[t] = "ensure"
    /\ Goto(t, IF process = None THEN "spawn" ELSE "poll")
    /\ UNCHANGED <<processes, pipes, target, platform, checks, stopping>>

\* ... self._process.poll() is None.
EnsurePoll(t) ==
    /\ pc[t] = "poll"
    /\ IF process = None THEN EnsureRaises(t)
       ELSE /\ Goto(t, IF Runs(process) THEN AfterEnsure(t) ELSE "spawn")
            /\ UNCHANGED platform
    /\ UNCHANGED <<processes, pipes, target, checks, stopping>>

Spawn(t) ==
    /\ pc[t] = "spawn"
    /\ spawned < MaxSpawns
    /\ spawned' = spawned + 1
    /\ process' = spawned'
    /\ alive' = alive \cup {spawned'}
    /\ Goto(t, "readers")
    /\ UNCHANGED <<readers, shut, pipes, target, platform, checks, stopping>>

\* Popen raises: decode raises with it, is_ready (silent_fail) forgets the
\* process.  The bound on analyzers makes the last attempts fail.
SpawnFails(t) ==
    /\ pc[t] = "spawn"
    /\ SpawnMayFail \/ spawned = MaxSpawns
    /\ IF t = Listener THEN DecodeRaises /\ UNCHANGED <<process, frame>>
                       ELSE /\ process' = None
                            /\ Goto(t, "answer")
                            /\ UNCHANGED platform
    /\ UNCHANGED <<spawned, alive, readers, shut, pipes, target, checks, stopping>>

\* A reader thread is started for the stdout of the process there is now.
StartReader(t) ==
    /\ pc[t] = "readers"
    /\ IF process = None THEN EnsureRaises(t) /\ UNCHANGED readers
       ELSE /\ readers' = [readers EXCEPT ![process] = @ + 1]
            /\ Goto(t, "stderr")
            /\ UNCHANGED platform
    /\ UNCHANGED <<process, spawned, alive, shut, pipes, target, checks, stopping>>

\* And one for its stderr.
StartStderrReader(t) ==
    /\ pc[t] = "stderr"
    /\ IF process = None THEN EnsureRaises(t)
       ELSE Goto(t, AfterEnsure(t)) /\ UNCHANGED platform
    /\ UNCHANGED <<processes, pipes, target, checks, stopping>>

EnsureProcess(t) ==
    \/ Ensure(t) \/ EnsurePoll(t) \/ Spawn(t) \/ SpawnFails(t)
    \/ StartReader(t) \/ StartStderrReader(t)

---------------------------------------------------------------------------
(* decode, called by the listener for one frame after another.              *)

FrameArrives ==
    /\ pc[Listener] = "idle"
    /\ frame < MaxFrames
    /\ stopping = "no"
    /\ frame' = frame + 1
    /\ Goto(Listener, "ensure")
    /\ UNCHANGED <<processes, pipes, target, decoded, faulted, checks, stopping>>

\* The frame goes into the pipe of a.
Send(a) ==
    /\ stdin' = [stdin EXCEPT ![a] = Append(@, frame)]
    /\ Goto(Listener, "flush")
    /\ UNCHANGED <<decoded, faulted>>

HasRoom(a) == Len(stdin[a]) < PipeLines

\* A write to no process, one that has exited or one whose stdin is closed
\* raises.  While the pipe is full it waits, without a limit.
Write ==
    /\ pc[Listener] = "write"
    /\ CASE ~Runs(process) \/ process = shut -> DecodeRaises /\ UNCHANGED <<stdin, target>>
         [] OTHER -> IF HasRoom(process) THEN Send(process) /\ UNCHANGED target
                     ELSE /\ target' = process
                          /\ Goto(Listener, "blocked")
                          /\ UNCHANGED <<stdin, decoded, faulted>>
    /\ UNCHANGED <<processes, stdout, queue, frame, checks, stopping>>

\* The write goes on when the analyzer reads, and raises when it exits.
WriteGoesOn ==
    /\ pc[Listener] = "blocked"
    /\ \/ target \notin alive /\ DecodeRaises /\ UNCHANGED stdin
       \/ target \in alive /\ HasRoom(target) /\ Send(target)
    /\ target' = None
    /\ UNCHANGED <<processes, stdout, queue, frame, checks, stopping>>

\* The flush is of the process there is now; the frame is written already.
Flush ==
    /\ pc[Listener] = "flush"
    /\ IF process \in {None, shut} THEN DecodeRaises
       ELSE Goto(Listener, "read") /\ UNCHANGED <<decoded, faulted>>
    /\ UNCHANGED <<processes, pipes, target, frame, checks, stopping>>

\* Mutant of Read: a line that is not an object ends the wait.
ReadGivesUpOnJunk ==
    /\ pc[Listener] = "read"
    /\ queue # <<>>
    /\ queue' = Tail(queue)
    /\ Decoded(IF Head(queue) = Junk THEN Undecoded ELSE Head(queue))
    /\ UNCHANGED <<processes, stdin, stdout, target, frame, faulted, checks, stopping>>

\* Mutant of Read: the line stays in the queue.
ReadPeeks ==
    /\ pc[Listener] = "read"
    /\ queue # <<>>
    /\ Head(queue) # Junk
    /\ Decoded(Head(queue))
    /\ UNCHANGED <<processes, pipes, target, frame, faulted, checks, stopping>>

\* _read_json_line takes lines until one is a JSON object.
Read ==
    /\ pc[Listener] = "read"
    /\ queue # <<>>
    /\ queue' = Tail(queue)
    /\ IF Head(queue) = Junk THEN UNCHANGED <<pc, decoded>> ELSE Decoded(Head(queue))
    /\ UNCHANGED <<processes, stdin, stdout, target, frame, faulted, checks, stopping>>

\* An answer can still come.
Owed ==
    \/ \E i \in 1..Len(queue) : queue[i] # Junk
    \/ \E a \in Analyzers : stdout[a] # <<>> \/ (a \in alive /\ stdin[a] # <<>>)

\* Mutant of Timeout: get() waits without a limit.
TimeoutNever == FALSE /\ UNCHANGED program

\* get() waits a second for every line.
Timeout ==
    /\ pc[Listener] = "read"
    /\ queue = <<>>
    /\ MayBeLate \/ ~Owed
    /\ Decoded(Undecoded)
    /\ UNCHANGED <<processes, pipes, target, frame, faulted, checks, stopping>>

---------------------------------------------------------------------------
(* is_ready and health.                                                     *)

Check(t) ==
    /\ pc[t] = "idle"
    /\ stopping = "no"
    /\ checks < MaxChecks
    /\ checks' = checks + 1
    /\ Goto(t, "ensure")
    /\ UNCHANGED <<processes, pipes, target, platform, stopping>>

\* The poll of is_ready; its answer changes nothing here.
AnswerReady(t) ==
    /\ pc[t] = "answer"
    /\ Goto(t, "idle")
    /\ UNCHANGED <<processes, pipes, target, platform, checks, stopping>>

---------------------------------------------------------------------------
(* The analyzers (external) and the reader threads.                         *)

\* The analyzer takes a frame and prints a line for it, or none.
Analyze(a) ==
    /\ a \in alive
    /\ stdin[a] # <<>>
    /\ stdin' = [stdin EXCEPT ![a] = Tail(@)]
    /\ \/ stdout' = [stdout EXCEPT ![a] = Append(@, Head(stdin[a]))]
       \/ MaySkip /\ UNCHANGED stdout
    /\ UNCHANGED <<processes, queue, pc, target, platform, checks, stopping>>

\* It may print anything else at any time, also for ever: one such line at a
\* time, and the reader takes it at once, since it may be printed later too.
Babble(a) ==
    /\ MayBabble
    /\ a \in alive
    /\ readers[a] > 0
    /\ \A i \in 1..Len(queue) : queue[i] # Junk
    /\ queue' = Append(queue, Junk)
    /\ UNCHANGED <<processes, stdin, stdout, pc, target, platform, checks, stopping>>

\* Mutant of ReadLine: the newest line is taken first.
ReadLineFirst(a) ==
    /\ readers[a] > 0
    /\ stdout[a] # <<>>
    /\ queue' = <<Head(stdout[a])>> \o queue
    /\ stdout' = [stdout EXCEPT ![a] = Tail(@)]
    /\ UNCHANGED <<processes, stdin, pc, target, platform, checks, stopping>>

\* _stdout_reader; the pipe outlives the process.  Several readers of one
\* stream overtake each other and lose what the other has buffered.
ReadLine(a) ==
    /\ \E i \in 1..Len(stdout[a]) :
          /\ i <= readers[a]
          /\ stdout' = [stdout EXCEPT ![a] = Seqs!RemoveAt(@, i)]
          /\ \/ queue' = Append(queue, stdout[a][i])
             \/ readers[a] > 1 /\ UNCHANGED queue
    /\ UNCHANGED <<processes, stdin, pc, target, platform, checks, stopping>>

\* An analyzer exits by itself, or because close has told it to.
Die(a) ==
    /\ MayDie \/ a = shut
    /\ a \in alive
    /\ alive' = alive \ {a}
    /\ UNCHANGED <<process, spawned, readers, shut, pipes, pc, target, platform, checks, stopping>>

---------------------------------------------------------------------------
(* PlatformService.stop, when the server has answered its last call: the    *)
(* listener is told to end and joined for two seconds, which it may outlast *)
(* in decode; then the analyzer is terminated, waited for and forgotten.    *)

Stop ==
    /\ MayStop
    /\ stopping = "no"
    /\ \A t \in Checkers : pc[t] = "idle"
    /\ stopping' = "joining"
    /\ UNCHANGED <<processes, pipes, pc, target, platform, checks>>

\* stdin.close() waits for the lock that a blocked write to it holds.
Terminate ==
    /\ stopping = "joining"
    /\ JoinMayExpire \/ pc[Listener] = "idle"
    /\ ~(pc[Listener] = "blocked" /\ target = process)
    /\ shut' = process
    /\ stopping' = IF process = None THEN "closed" ELSE "terminating"
    /\ UNCHANGED <<process, spawned, alive, readers, pipes, pc, target, platform, checks>>

\* The process there is now has ended within the second, or is killed.
Reap ==
    /\ stopping = "terminating"
    /\ alive' = alive \ {process}
    /\ stopping' = "terminated"
    /\ UNCHANGED <<process, spawned, readers, shut, pipes, pc, target, platform, checks>>

Forget ==
    /\ stopping = "terminated"
    /\ process' = None
    /\ stopping' = "closed"
    /\ UNCHANGED <<spawned, alive, readers, shut, pipes, pc, target, platform, checks>>

Close == Terminate \/ Reap \/ Forget

---------------------------------------------------------------------------
Decode == EnsureProcess(Listener) \/ Write \/ WriteGoesOn \/ Flush \/ Read \/ Timeout

IsReady(t) == EnsureProcess(t) \/ AnswerReady(t)

Step ==
    \/ FrameArrives \/ Decode
    \/ \E t \in Checkers : Check(t) \/ IsReady(t)
    \/ \E a \in Analyzers : Analyze(a) \/ Babble(a) \/ ReadLine(a) \/ Die(a)
    \/ Stop \/ Close

\* Bookkeeping of the two things that bring the decoder out of step: decode
\* ends without a line to read, or raises, while an answer can still come, or
\* a second thread is in _ensure_process or in close meanwhile.
GivesUp ==
    /\ decoded' # decoded
    /\ queue = <<>> \/ decoded'[Len(decoded')] = Raised
    /\ Owed'

Crowd ==
    \/ \E t, u \in Threads : t # u /\ {pc[t], pc[u]} \subseteq Entering
    \/ stopping \in {"terminating", "terminated", "closed"} /\ pc[Listener] # "idle"

Watch == trouble' = trouble \cup {x \in {"late"} : GivesUp} \cup {x \in {"crowd"} : Crowd'}

Next == Step /\ Watch

Spec == Init /\ [][Next]_vars

\* The listener and stop keep being scheduled and their timeouts fire: these
\* are steps the program takes by itself, and a blocked write or close is not
\* one.  The analyzer owes nothing: neither reading, nor answers, nor silence.
Fairness == WF_program(Decode) /\ WF_program(Close)

---------------------------------------------------------------------------
Answers == { i \in 1..Len(decoded) : decoded[i] \in Frames }

(* decoder.py:50-53: one JSON object is read per input frame, so the fields *)
(* a frame is decoded with are those the analyzer printed for it.           *)
AnswerMatchesFrame == \A i \in Answers : decoded[i] = i

(* decoder.py:158-169: a late answer is all that can pair a frame with the  *)
(* wrong one: no skipped or junk line, no death, no respawn, no close and   *)
(* no second thread does.                                                   *)
LatenessAloneMispairs == "late" \notin trouble => AnswerMatchesFrame

(* decoder.py:77-107, platform.py:105-115: the decoder implements its       *)
(* contract: one result for each frame in its turn, no answer of a later    *)
(* frame and none twice, and health bad from the first decode that raised   *)
(* until the next start.                                                    *)
Contract == INSTANCE DecoderContract
              WITH asked <- frame, given <- decoded, faulted <- faulted,
                   MaxFrames <- MaxFrames, Undecoded <- Undecoded, Raised <- Raised
KeepsContract == Contract!Spec

\* A line that is no object is taken, and the second begins anew.
TakesJunk == Read /\ Head(queue) = Junk

(* decoder.py:84-86, 113-124, 158-169: decode returns for every frame and   *)
(* stop comes to its end unless a write stays blocked on a full pipe for    *)
(* ever, or lines that are not JSON objects never end: no skipped answer, no*)
(* death, no failing spawn and no other thread keeps them waiting.          *)
OnlyPipeOrJunkHangs ==
    \/ <>[](pc[Listener] = "blocked")
    \/ []<><<TakesJunk>>_vars
    \/ Contract!Returns /\ (stopping = "joining" ~> stopping = "closed")

(* decoder.py:113-148: only threads that crowd leave an analyzer behind:    *)
(* without them one runs at a time, and none once the decoder is closed.    *)
CrowdAloneLeaks ==
    "crowd" \notin trouble =>
        /\ Cardinality(alive) <= 1
        /\ stopping = "closed" => alive = {}
=============================================================================
