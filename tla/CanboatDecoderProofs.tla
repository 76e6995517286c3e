------------------------ MODULE CanboatDecoderProofs ------------------------
(***************************************************************************)
(* Proofs about CanboatDecoder for any number of frames, analyzers, calls  *)
(* of is_ready and threads that make them: the decoder implements its      *)
(* contract, only a late answer mispairs a frame, and only a crowd leaves  *)
(* an analyzer behind.  And about VesselTelemetry, whatever the frames say:*)
(* the decoder in it is that of CanboatDecoder, so all that is proved of it*)
(* holds under the dashboard; a reading is as old as it is shown unless an *)
(* answer was late, and goes back to an older one only when a second       *)
(* analyzer was started as well.                                           *)
(***************************************************************************)
EXTENDS VesselTelemetry, TLAPS, FiniteSetTheorems, SequenceTheorems

---------------------------------------------------------------------------
(* The kinds of steps, as far as the frames and their answers go.           *)

Labels == Entering \cup {"idle", "answer", "write", "blocked", "flush", "read"}

\* Where the listener is while its frame is not written.
Early == Entering \cup {"write", "blocked"}

\* is_ready does not write or read, and is not asked once the service stops.
Stages ==
    /\ pc[Listener] # "answer"
    /\ \A t \in Checkers : pc[t] \notin {"write", "blocked", "flush", "read"}
    /\ stopping # "no" => \A t \in Checkers : pc[t] = "idle"

\* The listener is given one result for each frame, in turn.
Turn == Len(decoded) = IF pc[Listener] = "idle" THEN frame ELSE frame - 1

\* Nothing is moved, and the listener is as far with its frame as it was.
\* At most one analyzer is started, under a number of its own.
Quietly ==
    /\ UNCHANGED <<pipes, platform>>
    /\ pc'[Listener] = "idle" <=> pc[Listener] = "idle"
    /\ pc'[Listener] \in Early <=> pc[Listener] \in Early
    /\ spawned' \in {spawned, spawned + 1}
    /\ \A a \in alive' : a \in alive \/ a = spawned + 1

\* The listener's frame came to nothing.
ComesTo(x) ==
    /\ Decoded(x)
    /\ pc[Listener] # "idle"
    /\ faulted' = (faulted \/ x = Raised)
    /\ queue = <<>> \/ x = Raised
    /\ UNCHANGED <<alive, spawned, pipes, frame>>

\* The listener's frame went to the analyzer a.
Sends(a) ==
    /\ a \in alive
    /\ pc[Listener] \in {"write", "blocked"}
    /\ Send(a)
    /\ UNCHANGED <<alive, spawned, stdout, queue, frame>>

(* The cases of Next: a thread in _ensure_process, and the others.          *)
LEMMA StepCases ==
    ASSUME Next
    PROVE  \/ \E t \in Threads : EnsureProcess(t)
           \/ FrameArrives \/ Write \/ WriteGoesOn \/ Flush \/ Read \/ Timeout
           \/ \E t \in Checkers : Check(t) \/ AnswerReady(t)
           \/ \E a \in Analyzers : Analyze(a) \/ Babble(a) \/ ReadLine(a) \/ Die(a)
           \/ Stop \/ Terminate \/ Reap \/ Forget
BY DEF Next, Step, Decode, IsReady, Threads, Close

LEMMA GotoMoves ==
    ASSUME TypeOK, NEW t \in Threads, NEW label \in Labels, Goto(t, label)
    PROVE  /\ pc' \in [Threads -> Labels]
           /\ pc'[t] = label
           /\ \A u \in Threads : u # t => pc'[u] = pc[u]
<1>1. pc \in [Threads -> Labels]
  BY DEF TypeOK, Labels
<1> QED
  BY <1>1 DEF Goto

(* A thread in _ensure_process goes to another place of it, or out of it,   *)
(* and moves nothing, or raises.                                            *)
LEMMA EnsureMoves ==
    ASSUME TypeOK, NEW t \in Threads, EnsureProcess(t)
    PROVE  /\ pc[t] \in Entering
           /\ UNCHANGED <<shut, pipes, target, frame, checks, stopping>>
           /\ \/ /\ UNCHANGED platform
                 /\ \E label \in Entering \cup {AfterEnsure(t)} : Goto(t, label)
              \/ /\ t = Listener
                 /\ ComesTo(Raised)
                 /\ UNCHANGED processes
              \/ /\ t # Listener
                 /\ UNCHANGED platform
                 /\ \E label \in {"idle", "answer"} : Goto(t, label)
<1>0. ASSUME DecodeRaises, UNCHANGED <<processes, pipes, frame>>, pc[Listener] \in Entering
      PROVE  ComesTo(Raised)
  <2>1. faulted' = (faulted \/ Raised = Raised)
    BY <1>0 DEF DecodeRaises
  <2> QED
    BY <1>0, <2>1 DEF ComesTo, DecodeRaises, processes, Entering
<1>1. CASE Ensure(t)
  BY <1>1 DEF Ensure, Entering, processes, platform
<1>2. ASSUME EnsureRaises(t), UNCHANGED <<processes, pipes, target, checks, stopping>>,
             pc[t] \in Entering
      PROVE  /\ UNCHANGED <<shut, pipes, target, frame, checks, stopping>>
             /\ \/ t = Listener /\ ComesTo(Raised) /\ UNCHANGED processes
                \/ t # Listener /\ UNCHANGED platform /\ Goto(t, "idle")
  <2>1. UNCHANGED <<shut, frame>>
    BY <1>2 DEF EnsureRaises, processes
  <2> QED
    BY <1>0, <1>2, <2>1 DEF EnsureRaises, platform
<1>3. CASE EnsurePoll(t)
  <2>1. pc[t] \in Entering /\ UNCHANGED <<processes, pipes, target, checks, stopping>>
    BY <1>3 DEF EnsurePoll, Entering
  <2>2. CASE process = None
    BY <1>2, <1>3, <2>1, <2>2 DEF EnsurePoll
  <2>3. CASE process # None
    BY <1>3, <2>1, <2>3 DEF EnsurePoll, Entering, processes, platform
  <2> QED
    BY <2>2, <2>3
<1>4. CASE Spawn(t)
  BY <1>4 DEF Spawn, Entering, platform
<1>5. CASE SpawnFails(t)
  <2>1. pc[t] \in Entering
        /\ UNCHANGED <<spawned, alive, readers, shut, pipes, target, checks, stopping>>
    BY <1>5 DEF SpawnFails, Entering
  <2>2. CASE t = Listener
    BY <1>0, <1>5, <2>1, <2>2 DEF SpawnFails, processes
  <2>3. CASE t # Listener
    BY <1>5, <2>1, <2>3 DEF SpawnFails, platform
  <2> QED
    BY <2>1, <2>2, <2>3
<1>6. CASE StartReader(t)
  <2>1. pc[t] \in Entering /\ UNCHANGED <<process, spawned, alive, shut, pipes, target, checks, stopping>>
    BY <1>6 DEF StartReader, Entering
  <2>2. CASE process = None
    <3>1. UNCHANGED processes
      BY <1>6, <2>2 DEF StartReader, processes
    <3> QED
      BY <1>2, <1>6, <2>1, <2>2, <3>1 DEF StartReader
  <2>3. CASE process # None
    BY <1>6, <2>1, <2>3 DEF StartReader, Entering, platform
  <2> QED
    BY <2>2, <2>3
<1>7. CASE StartStderrReader(t)
  <2>1. pc[t] \in Entering /\ UNCHANGED <<processes, pipes, target, checks, stopping>>
    BY <1>7 DEF StartStderrReader, Entering
  <2>2. CASE process = None
    BY <1>2, <1>7, <2>1, <2>2 DEF StartStderrReader
  <2>3. CASE process # None
    BY <1>7, <2>1, <2>3 DEF StartStderrReader, processes, platform
  <2> QED
    BY <2>2, <2>3
<1> QED
  BY <1>1, <1>3, <1>4, <1>5, <1>6, <1>7 DEF EnsureProcess

(* What it does to the analyzers.                                           *)
LEMMA EnsureStarts ==
    ASSUME NEW t \in Threads, EnsureProcess(t)
    PROVE  \/ UNCHANGED <<alive, spawned>>
           \/ spawned' = spawned + 1 /\ alive' = alive \cup {spawned + 1}
BY DEF EnsureProcess, Ensure, EnsurePoll, Spawn, SpawnFails, StartReader, StartStderrReader, processes

(* Every step is of one of these kinds.                                     *)
LEMMA Kinds ==
    ASSUME TypeOK, Stages, [Next]_vars
    PROVE  \/ Quietly
           \/ FrameArrives
           \/ \E x \in {Undecoded, Raised} : ComesTo(x)
           \/ \E a \in Analyzers : Sends(a) \/ Analyze(a) \/ Babble(a) \/ ReadLine(a)
           \/ Read
<1>0. CASE UNCHANGED vars
  BY <1>0 DEF vars, program, processes, platform, Quietly
<1> SUFFICES ASSUME Next PROVE  \/ Quietly
                                \/ \E x \in {Undecoded, Raised} : ComesTo(x)
                                \/ FrameArrives
                                \/ \E a \in Analyzers : Sends(a) \/ Analyze(a) \/ Babble(a) \/ ReadLine(a)
                                \/ Read
  BY <1>0
<1>1. pc \in [Threads -> Labels] /\ Listener \in Threads /\ Listener \notin Checkers
      /\ pc[Listener] # "answer" /\ alive \subseteq Analyzers
  BY DecoderAssumption DEF Listener, TypeOK, Labels, Threads, Stages, Analyzers
<1>2. ASSUME UNCHANGED <<pipes, platform, spawned>>, alive' \subseteq alive, pc'[Listener] = pc[Listener]
      PROVE  Quietly
  BY <1>2 DEF Quietly
<1>3. ASSUME DecodeRaises, pc[Listener] # "idle", UNCHANGED <<processes, pipes, frame>>
      PROVE  ComesTo(Raised)
  <2>1. faulted' = (faulted \/ Raised = Raised)
    BY <1>3 DEF DecodeRaises
  <2> QED
    BY <1>3, <2>1 DEF ComesTo, DecodeRaises, processes
<1>4. ASSUME NEW t \in Threads, EnsureProcess(t)
      PROVE  Quietly \/ ComesTo(Raised)
  <2>0. \/ UNCHANGED <<alive, spawned>>
        \/ spawned' = spawned + 1 /\ alive' = alive \cup {spawned + 1}
    BY <1>4, EnsureStarts
  <2>1. pc[t] \in Entering /\ UNCHANGED pipes
    BY <1>4, EnsureMoves
  <2>2. CASE t = Listener
    <3>1. CASE ComesTo(Raised)
      BY <3>1
    <3>2. ASSUME UNCHANGED platform, NEW label \in Entering \cup {"write"}, Goto(t, label)
          PROVE  Quietly
      <4>1. pc'[Listener] = label
        BY <1>1, <2>2, <3>2 DEF Goto
      <4> QED
        BY <2>0, <2>1, <2>2, <3>2, <4>1 DEF Quietly, Early, Entering
    <3> QED
      BY <1>4, <2>2, <3>1, <3>2, EnsureMoves DEF AfterEnsure
  <2>3. CASE t # Listener
    <3>1. UNCHANGED platform /\ \E label \in Labels : Goto(t, label)
      BY <1>4, <2>3, EnsureMoves DEF AfterEnsure, Labels
    <3>2. pc'[Listener] = pc[Listener]
      BY <1>1, <2>3, <3>1 DEF Goto
    <3> QED
      BY <2>0, <2>1, <3>1, <3>2 DEF Quietly
  <2> QED
    BY <2>2, <2>3
<1>5. ASSUME pc[Listener] \in {"write", "flush"}, Goto(Listener, IF pc[Listener] = "write" THEN "blocked" ELSE "read"),
             UNCHANGED <<processes, pipes, platform>>
      PROVE  Quietly
  <2>1. pc'[Listener] = IF pc[Listener] = "write" THEN "blocked" ELSE "read"
    BY <1>1, <1>5 DEF Goto
  <2> QED
    BY <1>5, <2>1 DEF Quietly, Early, Entering, processes
<1>6. CASE Write
  <2>0. pc[Listener] = "write" /\ UNCHANGED <<processes, stdout, queue, frame>>
    BY <1>6 DEF Write
  <2>1. CASE ~Runs(process) \/ process = shut
    BY <1>3, <1>6, <2>0, <2>1 DEF Write, pipes
  <2>2. CASE Runs(process) /\ process # shut /\ HasRoom(process)
    BY <1>1, <1>6, <2>0, <2>2 DEF Write, Runs, Sends, processes
  <2>3. CASE Runs(process) /\ process # shut /\ ~HasRoom(process)
    <3>1. Goto(Listener, "blocked") /\ UNCHANGED <<stdin, decoded, faulted>>
      BY <1>6, <2>3 DEF Write
    <3> QED
      BY <1>5, <2>0, <3>1 DEF pipes, platform
  <2> QED
    BY <2>1, <2>2, <2>3
<1>7. CASE WriteGoesOn
  <2>0. pc[Listener] = "blocked" /\ UNCHANGED <<processes, stdout, queue, frame>>
    BY <1>7 DEF WriteGoesOn
  <2>1. CASE DecodeRaises /\ UNCHANGED stdin
    BY <1>3, <2>0, <2>1 DEF pipes
  <2>2. CASE target \in alive /\ Send(target)
    BY <1>1, <2>0, <2>2 DEF Sends, processes
  <2> QED
    BY <1>7, <2>1, <2>2 DEF WriteGoesOn
<1>8. CASE Flush
  <2>0. pc[Listener] = "flush" /\ UNCHANGED <<processes, pipes, frame>>
    BY <1>8 DEF Flush
  <2>1. CASE DecodeRaises
    BY <1>3, <2>0, <2>1
  <2>2. CASE Goto(Listener, "read") /\ UNCHANGED <<decoded, faulted>>
    BY <1>5, <2>0, <2>2 DEF platform
  <2> QED
    BY <1>8, <2>1, <2>2 DEF Flush
<1>9. CASE Timeout
  <2>1. faulted' = (faulted \/ Undecoded = Raised)
    BY <1>9 DEF Timeout, Undecoded, Raised, TypeOK
  <2> QED
    BY <1>9, <2>1 DEF Timeout, ComesTo, processes
<1>10. ASSUME NEW t \in Checkers, Check(t) \/ AnswerReady(t)
       PROVE  Quietly
  <2>1. pc'[Listener] = pc[Listener] /\ UNCHANGED <<pipes, platform, spawned, alive>>
    BY <1>1, <1>10 DEF Check, AnswerReady, Goto, processes
  <2> QED
    BY <1>2, <2>1
<1>11. ASSUME NEW a \in Analyzers, Die(a)
       PROVE  Quietly
  BY <1>2, <1>11 DEF Die
<1>12. CASE Stop \/ Terminate \/ Reap \/ Forget
  BY <1>2, <1>12 DEF Stop, Terminate, Reap, Forget, processes
<1> QED
  BY <1>4, <1>6, <1>7, <1>8, <1>9, <1>10, <1>11, <1>12, StepCases

---------------------------------------------------------------------------
(* Types, and where each thread may be.                                     *)

LEMMA AfterEnsureLabel ==
    ASSUME NEW t \in Threads
    PROVE  AfterEnsure(t) \in Labels /\ Entering \subseteq Labels /\ "idle" \in Labels
BY DEF AfterEnsure, Labels

\* The threads and the analyzers.
ProgramType ==
    /\ process \in Analyzers \cup {None}
    /\ spawned \in 0..MaxSpawns
    /\ alive \subseteq 1..spawned
    /\ readers \in [Analyzers -> Nat]
    /\ shut \in Analyzers \cup {None}
    /\ pc \in [Threads -> Labels]
    /\ target \in Analyzers \cup {None}
    /\ checks \in 0..MaxChecks
    /\ stopping \in {"no", "joining", "terminating", "terminated", "closed"}
    /\ trouble \subseteq {"late", "crowd"}

\* The frames and their answers.
DataType ==
    /\ stdin \in [Analyzers -> Seq(Frames)]
    /\ stdout \in [Analyzers -> Seq(Frames)]
    /\ queue \in Seq(Lines)
    /\ frame \in 0..MaxFrames
    /\ decoded \in Seq(Frames \cup {Undecoded, Raised})
    /\ faulted \in BOOLEAN

LEMMA TypesAre ==
    /\ TypeOK <=> ProgramType /\ DataType
    /\ TypeOK' <=> ProgramType' /\ DataType'
<1>1. TypeOK <=> ProgramType /\ DataType
  BY DEF TypeOK, ProgramType, DataType, Labels
<1>2. TypeOK' <=> ProgramType' /\ DataType'
  BY DEF TypeOK, ProgramType, DataType, Labels
<1> QED
  BY <1>1, <1>2

LEMMA ProgramTypeKept == TypeOK /\ [Next]_vars => ProgramType'
<1> SUFFICES ASSUME TypeOK, [Next]_vars PROVE ProgramType'
  OBVIOUS
<1>0. CASE UNCHANGED vars
  BY <1>0, TypesAre DEF vars, program, processes, ProgramType
<1> SUFFICES ASSUME Next PROVE ProgramType'
  BY <1>0
<1>1. trouble' \subseteq {"late", "crowd"}
  BY DEF Next, Watch, TypeOK
<1>2. ASSUME NEW t \in Threads, NEW label \in Labels, Goto(t, label)
      PROVE  pc' \in [Threads -> Labels]
  BY <1>2, GotoMoves
<1>3. Listener \in Threads /\ Checkers \subseteq Threads
  BY DEF Threads
<1>4. ASSUME pc' \in [Threads -> Labels], UNCHANGED <<processes, target, checks, stopping>>
      PROVE  ProgramType'
  BY <1>1, <1>4 DEF TypeOK, ProgramType, processes
<1>5. ASSUME NEW t \in Threads, EnsureProcess(t)
      PROVE  ProgramType'
  <2>1. pc' \in [Threads -> Labels] /\ UNCHANGED <<shut, target, checks, stopping>>
    <3>1. \E u \in Threads, label \in Labels : Goto(u, label)
      BY <1>3, <1>5, EnsureMoves, AfterEnsureLabel DEF ComesTo, Decoded, Labels
    <3> QED
      BY <1>2, <1>5, <3>1, EnsureMoves
  <2>2. CASE Spawn(t)
    <3>1. /\ spawned < MaxSpawns /\ spawned' = spawned + 1 /\ process' = spawned'
          /\ alive' = alive \cup {spawned'} /\ UNCHANGED readers
      BY <2>2 DEF Spawn
    <3>2. spawned \in Nat /\ spawned' \in 1..MaxSpawns
      BY <3>1, DecoderAssumption DEF TypeOK
    <3>3. alive' \subseteq 1..spawned'
      BY <3>1, <3>2 DEF TypeOK
    <3>4. process' \in Analyzers /\ spawned' \in 0..MaxSpawns
      BY <3>1, <3>2, DecoderAssumption DEF Analyzers
    <3> QED
      BY <1>1, <2>1, <3>1, <3>3, <3>4 DEF TypeOK, ProgramType
  <2>3. CASE SpawnFails(t)
    BY <1>1, <2>1, <2>3 DEF TypeOK, ProgramType, SpawnFails
  <2>4. CASE StartReader(t)
    <3>1. readers' \in [Analyzers -> Nat]
      BY <2>4 DEF TypeOK, StartReader
    <3> QED
      BY <1>1, <2>1, <2>4, <3>1 DEF TypeOK, ProgramType, StartReader
  <2>5. CASE Ensure(t) \/ EnsurePoll(t) \/ StartStderrReader(t)
    BY <1>4, <2>1, <2>5 DEF Ensure, EnsurePoll, StartStderrReader
  <2> QED
    BY <1>5, <2>2, <2>3, <2>4, <2>5 DEF EnsureProcess
<1>6. CASE FrameArrives
  BY <1>2, <1>3, <1>4, <1>6 DEF FrameArrives, Labels, Entering
<1>7. CASE Write
  <2>1. \E label \in Labels : Goto(Listener, label)
    BY <1>7 DEF Write, DecodeRaises, Decoded, Send, Labels
  <2>2. target' \in Analyzers \cup {None} /\ UNCHANGED <<processes, checks, stopping>>
    BY <1>7 DEF Write, TypeOK
  <2>3. pc' \in [Threads -> Labels]
    BY <1>2, <1>3, <2>1
  <2> QED
    BY <1>1, <2>2, <2>3 DEF TypeOK, ProgramType, processes
<1>8. CASE WriteGoesOn
  <2>1. \E label \in Labels : Goto(Listener, label)
    BY <1>8 DEF WriteGoesOn, DecodeRaises, Decoded, Send, Labels
  <2>2. target' \in Analyzers \cup {None} /\ UNCHANGED <<processes, checks, stopping>>
    BY <1>8 DEF WriteGoesOn, TypeOK
  <2>3. pc' \in [Threads -> Labels]
    BY <1>2, <1>3, <2>1
  <2> QED
    BY <1>1, <2>2, <2>3 DEF TypeOK, ProgramType, processes
<1>9. CASE Flush
  <2>1. \E label \in Labels : Goto(Listener, label)
    BY <1>9 DEF Flush, DecodeRaises, Decoded, Labels
  <2> QED
    BY <1>2, <1>3, <1>4, <1>9, <2>1 DEF Flush
<1>10. CASE Read \/ Timeout
  <2>1. pc' \in [Threads -> Labels]
    <3>1. UNCHANGED pc \/ Goto(Listener, "idle")
      BY <1>10 DEF Read, Timeout, Decoded
    <3> QED
      BY <1>2, <1>3, <3>1, AfterEnsureLabel DEF TypeOK, Labels
  <2> QED
    BY <1>4, <1>10, <2>1 DEF Read, Timeout
<1>11. ASSUME NEW t \in Checkers, Check(t) \/ AnswerReady(t)
       PROVE  ProgramType'
  <2>1. pc' \in [Threads -> Labels]
    BY <1>2, <1>3, <1>11 DEF Check, AnswerReady, Labels, Entering
  <2>2. checks' \in 0..MaxChecks
    BY <1>11, DecoderAssumption DEF TypeOK, Check, AnswerReady
  <2>3. UNCHANGED <<processes, target, stopping>>
    BY <1>11 DEF Check, AnswerReady
  <2> QED
    BY <1>1, <2>1, <2>2, <2>3 DEF TypeOK, ProgramType, processes
<1>12. ASSUME NEW a \in Analyzers, Analyze(a) \/ Babble(a) \/ ReadLine(a)
       PROVE  ProgramType'
  <2>1. UNCHANGED <<processes, pc, target, checks, stopping>>
    BY <1>12 DEF Analyze, Babble, ReadLine
  <2> QED
    BY <1>4, <2>1 DEF TypeOK, Labels
<1>13. ASSUME NEW a \in Analyzers, Die(a)
       PROVE  ProgramType'
  BY <1>1, <1>13 DEF TypeOK, ProgramType, Labels, Die
<1>14. CASE Stop \/ Terminate \/ Reap \/ Forget
  BY <1>1, <1>14 DEF TypeOK, ProgramType, Labels, Stop, Terminate, Reap, Forget, processes
<1> QED
  BY <1>5, <1>6, <1>7, <1>8, <1>9, <1>10, <1>11, <1>12, <1>13, <1>14, StepCases

(* A sequence without its k-th element.                                     *)
LEMMA WithoutIs ==
    ASSUME NEW S, NEW s \in Seq(S), NEW k \in 1..Len(s)
    PROVE  LET rest == Seqs!RemoveAt(s, k)
           IN  /\ rest \in Seq(S)
               /\ Len(rest) = Len(s) - 1
               /\ \A i \in 1..Len(rest) : rest[i] = s[IF i < k THEN i ELSE i + 1]
<1> DEFINE front == SubSeq(s, 1, k - 1)
           back == SubSeq(s, k + 1, Len(s))
<1>0. Len(s) \in Nat /\ k \in Nat /\ k >= 1 /\ k <= Len(s) /\ \A i \in 1..Len(s) : s[i] \in S
  OBVIOUS
<1>1. front \in Seq(S) /\ Len(front) = k - 1 /\ \A i \in 1..(k - 1) : front[i] = s[i]
  <2>1. 1 \in Int /\ k - 1 \in Int /\ \A i \in 1..(k - 1) : s[i] \in S
    BY <1>0
  <2>2. /\ front \in Seq(S)
        /\ Len(front) = IF 1 <= k - 1 THEN (k - 1) - 1 + 1 ELSE 0
        /\ \A i \in 1..((k - 1) - 1 + 1) : front[i] = s[1 + i - 1]
    BY <2>1, SubSeqProperties
  <2>3. Len(front) = k - 1
    BY <1>0, <2>2
  <2>4. \A i \in 1..(k - 1) : front[i] = s[i]
    BY <1>0, <2>2
  <2> QED
    BY <2>2, <2>3, <2>4
<1>2. back \in Seq(S) /\ Len(back) = Len(s) - k /\ \A i \in 1..(Len(s) - k) : back[i] = s[k + i]
  <2>1. k + 1 \in Int /\ Len(s) \in Int /\ \A i \in (k + 1)..Len(s) : s[i] \in S
    BY <1>0
  <2>2. /\ back \in Seq(S)
        /\ Len(back) = IF k + 1 <= Len(s) THEN Len(s) - (k + 1) + 1 ELSE 0
        /\ \A i \in 1..(Len(s) - (k + 1) + 1) : back[i] = s[k + 1 + i - 1]
    BY <2>1, SubSeqProperties
  <2>3. Len(back) = Len(s) - k
    BY <1>0, <2>2
  <2>4. \A i \in 1..(Len(s) - k) : back[i] = s[k + i]
    BY <1>0, <2>2
  <2> QED
    BY <2>2, <2>3, <2>4
<1> HIDE DEF front, back
<1>3. /\ front \o back \in Seq(S)
      /\ Len(front \o back) = Len(front) + Len(back)
      /\ \A i \in 1..(Len(front) + Len(back)) :
            (front \o back)[i] = IF i <= Len(front) THEN front[i] ELSE back[i - Len(front)]
  BY <1>1, <1>2, ConcatProperties
<1>4. Len(front \o back) = Len(s) - 1
  BY <1>0, <1>1, <1>2, <1>3
<1>5. ASSUME NEW i \in 1..Len(front \o back)
      PROVE  (front \o back)[i] = s[IF i < k THEN i ELSE i + 1]
  <2>1. CASE i < k
    BY <1>0, <1>1, <1>2, <1>3, <1>5, <2>1
  <2>2. CASE ~(i < k)
    <3>1. i - (k - 1) \in 1..(Len(s) - k) /\ k + (i - (k - 1)) = i + 1 /\ ~(i <= k - 1)
      BY <1>0, <1>4, <2>2
    <3> QED
      BY <1>0, <1>1, <1>2, <1>3, <1>4, <2>2, <3>1
  <2> QED
    BY <2>1, <2>2
<1>6. Seqs!RemoveAt(s, k) = front \o back
  BY DEF Seqs!RemoveAt, front, back
<1> QED
  BY <1>3, <1>4, <1>5, <1>6

LEMMA TailIsWithout ==
    ASSUME NEW S, NEW s \in Seq(S), s # <<>>
    PROVE  Tail(s) = Seqs!RemoveAt(s, 1) /\ Head(s) = s[1] /\ 1 \in 1..Len(s)
<1>1. Tail(s) = SubSeq(s, 2, Len(s)) /\ Tail(s) \in Seq(S)
  BY TailIsSubSeq, HeadTailProperties
<1>2. SubSeq(s, 1, 1 - 1) = <<>>
  BY SubSeqEmpty
<1>3. <<>> \o Tail(s) = Tail(s)
  BY <1>1, ConcatEmptySeq
<1>4. 1 + 1 = 2
  OBVIOUS
<1> QED
  BY <1>1, <1>2, <1>3, <1>4 DEF Seqs!RemoveAt

LEMMA DataTypeKept == TypeOK /\ Stages /\ Turn /\ [Next]_vars => DataType'
<1> SUFFICES ASSUME TypeOK, Stages, Turn, [Next]_vars PROVE DataType'
  OBVIOUS
<1>0. DataType
  BY TypesAre
<1>1. CASE Quietly
  BY <1>0, <1>1 DEF Quietly, DataType, pipes, platform
<1>2. CASE FrameArrives
  BY <1>0, <1>2, DecoderAssumption DEF DataType, FrameArrives, pipes
<1>3. ASSUME NEW x \in {Undecoded, Raised}, ComesTo(x)
      PROVE  DataType'
  <2>1. decoded' = Append(decoded, x) /\ faulted' \in BOOLEAN /\ UNCHANGED <<stdin, stdout, queue, frame>>
    BY <1>0, <1>3 DEF DataType, ComesTo, Decoded, pipes
  <2>2. decoded' \in Seq(Frames \cup {Undecoded, Raised})
    BY <1>0, <2>1 DEF DataType
  <2> QED
    BY <1>0, <2>1, <2>2 DEF DataType
<1>4. ASSUME NEW a \in Analyzers, Sends(a)
      PROVE  DataType'
  <2>1. frame \in Frames
    BY <1>4 DEF TypeOK, Turn, Sends, Frames
  <2>2. stdin' = [stdin EXCEPT ![a] = Append(@, frame)]
        /\ UNCHANGED <<stdout, queue, frame, decoded, faulted>>
    BY <1>4 DEF Sends, Send
  <2>3. Append(stdin[a], frame) \in Seq(Frames)
    BY <1>0, <2>1 DEF DataType
  <2>4. stdin' \in [Analyzers -> Seq(Frames)]
    BY <1>0, <2>2, <2>3 DEF DataType
  <2> QED
    BY <1>0, <2>2, <2>4 DEF DataType
<1>5. ASSUME NEW a \in Analyzers, Analyze(a)
      PROVE  DataType'
  <2>1. stdin[a] \in Seq(Frames) /\ Head(stdin[a]) \in Frames /\ Tail(stdin[a]) \in Seq(Frames)
        /\ stdout[a] \in Seq(Frames)
    BY <1>0, <1>5 DEF DataType, Analyze
  <2>2. stdin' \in [Analyzers -> Seq(Frames)]
    BY <1>0, <1>5, <2>1 DEF DataType, Analyze
  <2>3. Append(stdout[a], Head(stdin[a])) \in Seq(Frames)
    BY <2>1
  <2>4. stdout' \in [Analyzers -> Seq(Frames)]
    BY <1>0, <1>5, <2>3 DEF DataType, Analyze
  <2> QED
    BY <1>0, <1>5, <2>2, <2>4 DEF DataType, Analyze, platform
<1>6. ASSUME NEW a \in Analyzers, Babble(a)
      PROVE  DataType'
  BY <1>0, <1>6 DEF DataType, Babble, Lines, platform
<1>7. ASSUME NEW a \in Analyzers, ReadLine(a)
      PROVE  DataType'
  <2>1. PICK i \in 1..Len(stdout[a]) :
           /\ stdout' = [stdout EXCEPT ![a] = Seqs!RemoveAt(@, i)]
           /\ queue' = Append(queue, stdout[a][i]) \/ UNCHANGED queue
    BY <1>7 DEF ReadLine
  <2>2. stdout[a] \in Seq(Frames) /\ stdout[a][i] \in Lines
    BY <1>0 DEF DataType, Lines
  <2>3. Seqs!RemoveAt(stdout[a], i) \in Seq(Frames)
    BY <2>2, WithoutIs
  <2>4. stdout' \in [Analyzers -> Seq(Frames)]
    BY <1>0, <2>1, <2>3 DEF DataType
  <2>5. queue' \in Seq(Lines)
    <3>1. queue \in Seq(Lines) /\ Append(queue, stdout[a][i]) \in Seq(Lines)
      BY <1>0, <2>2 DEF DataType
    <3> QED
      BY <2>1, <3>1
  <2> QED
    BY <1>0, <1>7, <2>4, <2>5 DEF DataType, ReadLine, platform
<1>8. CASE Read
  <2>1. queue' \in Seq(Lines) /\ Head(queue) \in Lines
    BY <1>0, <1>8 DEF DataType, Read
  <2>2. decoded' \in Seq(Frames \cup {Undecoded, Raised})
    <3>1. CASE Head(queue) = Junk
      BY <1>0, <1>8, <3>1 DEF DataType, Read
    <3>2. CASE Head(queue) # Junk
      <4>1. decoded' = Append(decoded, Head(queue)) /\ Head(queue) \in Frames
        BY <1>8, <2>1, <3>2 DEF Read, Decoded, Lines
      <4> QED
        BY <1>0, <4>1 DEF DataType
    <3> QED
      BY <3>1, <3>2
  <2> QED
    BY <1>0, <1>8, <2>1, <2>2 DEF DataType, Read
<1> QED
  BY <1>1, <1>2, <1>3, <1>4, <1>5, <1>6, <1>7, <1>8, Kinds

LEMMA TypeKept == TypeOK /\ Stages /\ Turn /\ [Next]_vars => TypeOK'
BY ProgramTypeKept, DataTypeKept, TypesAre

LEMMA StagesKept == TypeOK /\ Stages /\ [Next]_vars => Stages'
<1> SUFFICES ASSUME TypeOK, Stages, [Next]_vars PROVE Stages'
  OBVIOUS
<1>0. CASE UNCHANGED vars
  BY <1>0 DEF vars, program, Stages
<1> SUFFICES ASSUME Next PROVE Stages'
  BY <1>0
<1>1. Listener \notin Checkers /\ pc \in [Threads -> Labels]
  BY DecoderAssumption DEF Listener, TypeOK, Labels
<1>2. ASSUME NEW label \in Labels \ {"answer"}, Goto(Listener, label), UNCHANGED stopping
      PROVE  Stages'
  BY <1>1, <1>2 DEF Stages, Goto, Threads
<1>3. ASSUME NEW t \in Checkers, NEW label \in Entering \cup {"idle", "answer"}, Goto(t, label),
             UNCHANGED stopping, stopping # "no" => label = "idle"
      PROVE  Stages'
  BY <1>1, <1>3 DEF Stages, Goto, Threads, Entering
<1>4. ASSUME NEW t \in Threads, EnsureProcess(t)
      PROVE  Stages'
  <2>1. pc[t] \in Entering /\ UNCHANGED stopping
    BY <1>4, EnsureMoves
  <2>2. CASE t = Listener
    <3>1. PICK label \in Entering \cup {"write", "idle"} : Goto(Listener, label)
      BY <1>4, <2>2, EnsureMoves DEF AfterEnsure, ComesTo, Decoded
    <3> QED
      BY <1>2, <2>1, <3>1 DEF Labels, Entering
  <2>3. CASE t \in Checkers
    <3>1. PICK label \in Entering \cup {"idle", "answer"} : Goto(t, label)
      BY <1>1, <1>4, <2>3, EnsureMoves DEF AfterEnsure
    <3>2. stopping = "no"
      BY <2>1, <2>3 DEF Stages, Entering
    <3> QED
      BY <1>3, <2>1, <2>3, <3>1, <3>2
  <2> QED
    BY <2>2, <2>3 DEF Threads
<1>5. CASE FrameArrives \/ Write \/ WriteGoesOn \/ Flush \/ Timeout
  <2>1. UNCHANGED stopping /\ \E label \in Labels \ {"answer"} : Goto(Listener, label)
    BY <1>5 DEF FrameArrives, Write, WriteGoesOn, Flush, Timeout, DecodeRaises, Decoded, Send,
                Labels, Entering
  <2> QED
    BY <1>2, <2>1
<1>6. CASE Read
  <2>1. UNCHANGED stopping /\ (UNCHANGED pc \/ Goto(Listener, "idle"))
    BY <1>6 DEF Read, Decoded
  <2>2. CASE UNCHANGED pc
    BY <2>1, <2>2 DEF Stages
  <2>3. CASE Goto(Listener, "idle")
    BY <1>2, <2>1, <2>3 DEF Labels
  <2> QED
    BY <2>1, <2>2, <2>3
<1>7. ASSUME NEW t \in Checkers, Check(t) \/ AnswerReady(t)
      PROVE  Stages'
  <2>1. CASE Check(t)
    BY <1>3, <2>1 DEF Check, Entering
  <2>2. CASE AnswerReady(t)
    BY <1>3, <2>2 DEF AnswerReady
  <2> QED
    BY <1>7, <2>1, <2>2
<1>8. ASSUME NEW a \in Analyzers, Analyze(a) \/ Babble(a) \/ ReadLine(a) \/ Die(a)
      PROVE  Stages'
  BY <1>8 DEF Stages, Analyze, Babble, ReadLine, Die
<1>9. CASE Stop \/ Terminate \/ Reap \/ Forget
  BY <1>9 DEF Stages, Stop, Terminate, Reap, Forget
<1> QED
  BY <1>4, <1>5, <1>6, <1>7, <1>8, <1>9, StepCases

---------------------------------------------------------------------------
(* Where the number of a frame may be: at 0 in the queue, at a in the stdin *)
(* of analyzer a, at -a in its stdout, at Given among the results.          *)

Given == MaxSpawns + 1
Places == (-MaxSpawns)..Given

Marks == Lines \cup {Undecoded, Raised}

ContentsOf(results, lines, written, printed) ==
    [p \in Places |-> CASE p = Given -> results
                        [] p = 0     -> lines
                        [] p \in Analyzers -> written[p]
                        [] OTHER     -> printed[-p]]

Contents == ContentsOf(decoded, queue, stdin, stdout)

Full(held) == held \in [Places -> Seq(Marks)]

Nowhere(n, held) == \A p \in Places : \A i \in 1..Len(held[p]) : held[p][i] # n

\* No frame is in two places, or twice in one.
Unique(held) ==
    \A p, q \in Places : \A i \in 1..Len(held[p]), j \in 1..Len(held[q]) :
        held[p][i] = held[q][j] /\ held[p][i] \in Frames => p = q /\ i = j

\* The k-th of what is at p was taken, or x put last there, and nothing else.
Took(held, p, k, rest) == rest = [held EXCEPT ![p] = Seqs!RemoveAt(held[p], k)]

Put(held, p, x, longer) == longer = [held EXCEPT ![p] = Append(held[p], x)]

\* The k-th at p was taken, and put last at q or lost.
Passes(held, p, k, q, after) ==
    \E rest : /\ Took(held, p, k, rest)
              /\ after = rest \/ Put(rest, q, held[p][k], after)

(* What the places hold when the k-th at p was taken.                       *)
LEMMA TookHolds ==
    ASSUME NEW held, Full(held), NEW p \in Places, NEW k \in 1..Len(held[p]),
           NEW rest, Took(held, p, k, rest)
    PROVE  /\ Full(rest)
           /\ held[p][k] \in Marks
           /\ \A q \in Places : Len(rest[q]) \in Nat /\ Len(held[q]) \in Nat
           /\ \A q \in Places : q # p => rest[q] = held[q]
           /\ \A q \in Places : \A i \in 1..Len(rest[q]) :
                 \E j \in 1..Len(held[q]) :
                    /\ rest[q][i] = held[q][j]
                    /\ j = IF q = p /\ i >= k THEN i + 1 ELSE i
<1>0. held \in [Places -> Seq(Marks)]
  BY DEF Full
<1>1. /\ held[p] \in Seq(Marks) /\ Len(held[p]) \in Nat /\ k \in Nat /\ held[p][k] \in Marks
      /\ Seqs!RemoveAt(held[p], k) \in Seq(Marks)
      /\ Len(Seqs!RemoveAt(held[p], k)) = Len(held[p]) - 1
      /\ \A i \in 1..Len(Seqs!RemoveAt(held[p], k)) :
            Seqs!RemoveAt(held[p], k)[i] = held[p][IF i < k THEN i ELSE i + 1]
  BY <1>0, WithoutIs
<1>2. /\ rest \in [Places -> Seq(Marks)]
      /\ rest[p] = Seqs!RemoveAt(held[p], k)
      /\ \A q \in Places : q # p => rest[q] = held[q]
  BY <1>0, <1>1 DEF Took
<1>3. \A q \in Places : Len(rest[q]) \in Nat /\ Len(held[q]) \in Nat
  BY <1>0, <1>2
<1>4. ASSUME NEW q \in Places, NEW i \in 1..Len(rest[q])
      PROVE  \E j \in 1..Len(held[q]) : /\ rest[q][i] = held[q][j]
                                        /\ j = IF q = p /\ i >= k THEN i + 1 ELSE i
  <2>1. CASE q = p
    <3>1. i \in 1..(Len(held[p]) - 1)
      BY <1>1, <1>2, <2>1
    <3>2. CASE i < k
      BY <1>1, <1>2, <2>1, <3>1, <3>2
    <3>3. CASE ~(i < k)
      <4>1. i + 1 \in 1..Len(held[p]) /\ i >= k
        BY <1>1, <3>1, <3>3
      <4> QED
        BY <1>1, <1>2, <2>1, <3>3, <4>1
    <3> QED
      BY <3>2, <3>3
  <2>2. CASE q # p
    BY <1>2, <1>3, <2>2
  <2> QED
    BY <2>1, <2>2
<1> QED
  BY <1>1, <1>2, <1>3, <1>4 DEF Full

(* What they hold when x was put last at p.                                 *)
LEMMA PutHolds ==
    ASSUME NEW held, Full(held), NEW p \in Places, NEW x \in Marks,
           NEW longer, Put(held, p, x, longer)
    PROVE  /\ Full(longer)
           /\ \A q \in Places : Len(longer[q]) \in Nat /\ Len(held[q]) \in Nat
           /\ \A q \in Places : q # p => longer[q] = held[q]
           /\ \A q \in Places : \A i \in 1..Len(longer[q]) :
                 \/ i \in 1..Len(held[q]) /\ longer[q][i] = held[q][i]
                 \/ q = p /\ i = Len(held[p]) + 1 /\ longer[q][i] = x
<1>0. held \in [Places -> Seq(Marks)]
  BY DEF Full
<1>1. /\ held[p] \in Seq(Marks) /\ Len(held[p]) \in Nat
      /\ Append(held[p], x) \in Seq(Marks) /\ Len(Append(held[p], x)) = Len(held[p]) + 1
      /\ \A i \in 1..Len(held[p]) : Append(held[p], x)[i] = held[p][i]
      /\ Append(held[p], x)[Len(held[p]) + 1] = x
  BY <1>0
<1>2. /\ longer \in [Places -> Seq(Marks)]
      /\ longer[p] = Append(held[p], x)
      /\ \A q \in Places : q # p => longer[q] = held[q]
  BY <1>0, <1>1 DEF Put
<1>3. \A q \in Places : Len(longer[q]) \in Nat /\ Len(held[q]) \in Nat
  BY <1>0, <1>2
<1>4. \A q \in Places : \A i \in 1..Len(longer[q]) :
         \/ i \in 1..Len(held[q]) /\ longer[q][i] = held[q][i]
         \/ q = p /\ i = Len(held[p]) + 1 /\ longer[q][i] = x
  <2> SUFFICES ASSUME NEW q \in Places, NEW i \in 1..Len(longer[q])
               PROVE  \/ i \in 1..Len(held[q]) /\ longer[q][i] = held[q][i]
                      \/ q = p /\ i = Len(held[p]) + 1 /\ longer[q][i] = x
    OBVIOUS
  <2>1. CASE q = p
    <3>1. i \in 1..(Len(held[p]) + 1)
      BY <1>1, <1>2, <2>1
    <3> QED
      BY <1>1, <1>2, <2>1, <3>1
  <2>2. CASE q # p
    BY <1>2, <2>2
  <2> QED
    BY <2>1, <2>2
<1> QED
  BY <1>2, <1>3, <1>4 DEF Full

(* What was taken is nowhere, and what was nowhere is so still.             *)
LEMMA TakeOne ==
    ASSUME NEW held, Full(held), Unique(held),
           NEW p \in Places, NEW k \in 1..Len(held[p]),
           NEW rest, Took(held, p, k, rest)
    PROVE  /\ Full(rest)
           /\ Unique(rest)
           /\ held[p][k] \in Marks
           /\ held[p][k] \in Frames => Nowhere(held[p][k], rest)
           /\ \A n \in Frames : Nowhere(n, held) => Nowhere(n, rest)
<1>1. /\ Full(rest) /\ held[p][k] \in Marks
      /\ \A q \in Places : Len(rest[q]) \in Nat /\ Len(held[q]) \in Nat
  BY TookHolds
<1>2. \A q \in Places : \A i \in 1..Len(rest[q]) :
         \E j \in 1..Len(held[q]) : /\ rest[q][i] = held[q][j]
                                    /\ j = IF q = p /\ i >= k THEN i + 1 ELSE i
  BY TookHolds
<1>3. Unique(rest)
  <2> SUFFICES ASSUME NEW q \in Places, NEW r \in Places,
                      NEW i \in 1..Len(rest[q]), NEW j \in 1..Len(rest[r]),
                      rest[q][i] = rest[r][j], rest[q][i] \in Frames
               PROVE  q = r /\ i = j
    BY DEF Unique
  <2>1. PICK m \in 1..Len(held[q]) :
           rest[q][i] = held[q][m] /\ m = IF q = p /\ i >= k THEN i + 1 ELSE i
    BY <1>2
  <2>2. PICK l \in 1..Len(held[r]) :
           rest[r][j] = held[r][l] /\ l = IF r = p /\ j >= k THEN j + 1 ELSE j
    BY <1>2
  <2>3. q = r /\ m = l
    <3>1. held[q][m] = held[r][l] /\ held[q][m] \in Frames
      BY <2>1, <2>2
    <3> QED
      BY <3>1 DEF Unique
  <2> QED
    BY <1>1, <2>1, <2>2, <2>3
<1>4. held[p][k] \in Frames => Nowhere(held[p][k], rest)
  <2> SUFFICES ASSUME held[p][k] \in Frames, NEW q \in Places, NEW i \in 1..Len(rest[q]),
                      rest[q][i] = held[p][k]
               PROVE  FALSE
    BY DEF Nowhere
  <2>1. PICK m \in 1..Len(held[q]) :
           rest[q][i] = held[q][m] /\ m = IF q = p /\ i >= k THEN i + 1 ELSE i
    BY <1>2
  <2>2. p = q /\ k = m
    <3>1. held[p][k] = held[q][m] /\ held[p][k] \in Frames
      BY <2>1
    <3> QED
      BY <3>1 DEF Unique
  <2> QED
    BY <1>1, <2>1, <2>2
<1>5. \A n \in Frames : Nowhere(n, held) => Nowhere(n, rest)
  <2> SUFFICES ASSUME NEW n \in Frames, Nowhere(n, held), NEW q \in Places, NEW i \in 1..Len(rest[q])
               PROVE  rest[q][i] # n
    BY DEF Nowhere
  <2>1. PICK m \in 1..Len(held[q]) : rest[q][i] = held[q][m]
    BY <1>2
  <2> QED
    BY <2>1 DEF Nowhere
<1> QED
  BY <1>1, <1>3, <1>4, <1>5

(* Appending what is no frame, or a frame that is nowhere.                  *)
LEMMA PutLast ==
    ASSUME NEW held, Full(held), Unique(held),
           NEW p \in Places, NEW x \in Marks, x \notin Frames \/ Nowhere(x, held),
           NEW longer, Put(held, p, x, longer)
    PROVE  /\ Full(longer)
           /\ Unique(longer)
           /\ \A n \in Frames : n # x /\ Nowhere(n, held) => Nowhere(n, longer)
<1>1. /\ Full(longer)
      /\ \A q \in Places : Len(longer[q]) \in Nat /\ Len(held[q]) \in Nat
  BY PutHolds
<1>2. \A q \in Places : \A i \in 1..Len(longer[q]) :
         \/ i \in 1..Len(held[q]) /\ longer[q][i] = held[q][i]
         \/ q = p /\ i = Len(held[p]) + 1 /\ longer[q][i] = x
  BY PutHolds
<1>3. Unique(longer)
  <2> SUFFICES ASSUME NEW q \in Places, NEW r \in Places,
                      NEW i \in 1..Len(longer[q]), NEW j \in 1..Len(longer[r]),
                      longer[q][i] = longer[r][j], longer[q][i] \in Frames
               PROVE  q = r /\ i = j
    BY DEF Unique
  <2>1. CASE i \in 1..Len(held[q]) /\ longer[q][i] = held[q][i]
             /\ j \in 1..Len(held[r]) /\ longer[r][j] = held[r][j]
    <3>1. held[q][i] = held[r][j] /\ held[q][i] \in Frames
      BY <2>1
    <3> QED
      BY <2>1, <3>1 DEF Unique
  <2>2. CASE q = p /\ i = Len(held[p]) + 1 /\ longer[q][i] = x
             /\ r = p /\ j = Len(held[p]) + 1
    BY <2>2
  <2>3. CASE i \in 1..Len(held[q]) /\ longer[q][i] = held[q][i] /\ longer[r][j] = x
    BY <2>3 DEF Nowhere
  <2>4. CASE j \in 1..Len(held[r]) /\ longer[r][j] = held[r][j] /\ longer[q][i] = x
    BY <2>4 DEF Nowhere
  <2> QED
    BY <1>2, <2>1, <2>2, <2>3, <2>4
<1>4. \A n \in Frames : n # x /\ Nowhere(n, held) => Nowhere(n, longer)
  BY <1>2 DEF Nowhere
<1> QED
  BY <1>1, <1>3, <1>4 DEF Full

(* What passes from one place to another, or is lost on its way.            *)
LEMMA PassesOne ==
    ASSUME NEW held, Full(held), Unique(held),
           NEW p \in Places, NEW k \in 1..Len(held[p]), NEW q \in Places,
           NEW after, Passes(held, p, k, q, after)
    PROVE  /\ Full(after)
           /\ Unique(after)
           /\ \A n \in Frames : Nowhere(n, held) => Nowhere(n, after)
<1>1. PICK rest : Took(held, p, k, rest) /\ (after = rest \/ Put(rest, q, held[p][k], after))
  BY DEF Passes
<1> DEFINE x == held[p][k]
<1>2. ~Nowhere(x, held)
  BY DEF Nowhere
<1>3. /\ Full(rest) /\ Unique(rest) /\ x \in Marks /\ (x \in Frames => Nowhere(x, rest))
      /\ \A n \in Frames : Nowhere(n, held) => Nowhere(n, rest)
  BY <1>1, TakeOne
<1> HIDE DEF x
<1>4. CASE after = rest
  BY <1>3, <1>4
<1>5. CASE Put(rest, q, x, after)
  BY <1>2, <1>3, <1>5, PutLast
<1> QED
  BY <1>1, <1>4, <1>5 DEF x

LEMMA PlacesAre ==
    /\ Given \in Places /\ 0 \in Places
    /\ \A a \in Analyzers : a \in Places /\ -a \in Places /\ a # Given /\ a # 0 /\ a # -a
                            /\ -a # Given /\ -a # 0
    /\ Given # 0 
    /\ \A p \in Places : p = Given \/ p = 0 \/ p \in Analyzers \/ -p \in Analyzers
BY DecoderAssumption DEF Places, Given, Analyzers

LEMMA ContentsAre ==
    ASSUME NEW d, NEW q, NEW i, NEW o
    PROVE  /\ ContentsOf(d, q, i, o)[Given] = d
           /\ ContentsOf(d, q, i, o)[0] = q
           /\ \A a \in Analyzers : /\ ContentsOf(d, q, i, o)[a] = i[a]
                                   /\ ContentsOf(d, q, i, o)[-a] = o[a]
<1>1. Given \in Places /\ 0 \in Places /\ Given # 0 /\ Given \notin Analyzers /\ 0 \notin Analyzers
  BY PlacesAre
<1>2. ASSUME NEW a \in Analyzers
      PROVE  /\ ContentsOf(d, q, i, o)[a] = i[a]
             /\ ContentsOf(d, q, i, o)[-a] = o[a]
  <2>1. a \in Places /\ -a \in Places /\ a # Given /\ a # 0 /\ -a # Given /\ -a # 0 /\ -a \notin Analyzers
        /\ -(-a) = a
    BY PlacesAre, DecoderAssumption DEF Analyzers
  <2> QED
    BY <2>1 DEF ContentsOf
<1>3. ContentsOf(d, q, i, o)[Given] = d /\ ContentsOf(d, q, i, o)[0] = q
  BY <1>1 DEF ContentsOf
<1> QED
  BY <1>2, <1>3

LEMMA ContentsFull ==
    ASSUME TypeOK
    PROVE  Full(Contents)
<1>1. decoded \in Seq(Marks) /\ queue \in Seq(Marks)
  BY DEF TypeOK, Marks, Lines
<1>2. \A a \in Analyzers : stdin[a] \in Seq(Marks) /\ stdout[a] \in Seq(Marks)
  BY DEF TypeOK, Marks, Lines
<1>3. ASSUME NEW p \in Places
      PROVE  Contents[p] \in Seq(Marks)
  <2>1. CASE p = Given \/ p = 0
    BY <1>1, <2>1, ContentsAre DEF Contents
  <2>2. CASE p \in Analyzers
    BY <1>2, <2>2, ContentsAre DEF Contents
  <2>3. CASE -p \in Analyzers
    <3>1. -(-p) = p
      BY DecoderAssumption DEF Places, Given
    <3> QED
      BY <1>2, <2>3, <3>1, ContentsAre DEF Contents
  <2> QED
    BY <2>1, <2>2, <2>3, PlacesAre
<1> QED
  BY <1>3 DEF Full, Contents, ContentsOf

(* A change in one place leaves the others as they were.                    *)
OnlyAt(p, d, q, i, o, d2, q2, i2, o2) ==
    /\ p # Given => d2 = d
    /\ p # 0 => q2 = q
    /\ \A a \in Analyzers : p # a => i2[a] = i[a]
    /\ \A a \in Analyzers : p # -a => o2[a] = o[a]

LEMMA OneChanges ==
    ASSUME NEW p \in Places, NEW d, NEW q, NEW i, NEW o, NEW d2, NEW q2, NEW i2, NEW o2,
           OnlyAt(p, d, q, i, o, d2, q2, i2, o2)
    PROVE  LET was == ContentsOf(d, q, i, o)
               is  == ContentsOf(d2, q2, i2, o2)
           IN  /\ \A k : is[p] = Seqs!RemoveAt(was[p], k) => Took(was, p, k, is)
               /\ \A x : is[p] = Append(was[p], x) => Put(was, p, x, is)
<1>1. ASSUME NEW r \in Places, r # p
      PROVE  ContentsOf(d2, q2, i2, o2)[r] = ContentsOf(d, q, i, o)[r]
  <2>1. CASE r = Given \/ r = 0
    BY <1>1, <2>1, ContentsAre DEF OnlyAt
  <2>2. CASE r \in Analyzers
    BY <1>1, <2>2, ContentsAre DEF OnlyAt
  <2>3. CASE -r \in Analyzers
    <3>1. -(-r) = r
      BY DecoderAssumption DEF Places, Given
    <3> QED
      BY <1>1, <2>3, <3>1, ContentsAre DEF OnlyAt
  <2> QED
    BY <2>1, <2>2, <2>3, PlacesAre
<1>2. DOMAIN ContentsOf(d2, q2, i2, o2) = Places /\ DOMAIN ContentsOf(d, q, i, o) = Places
      /\ ContentsOf(d2, q2, i2, o2) = [r \in Places |-> ContentsOf(d2, q2, i2, o2)[r]]
      /\ ContentsOf(d, q, i, o) = [r \in Places |-> ContentsOf(d, q, i, o)[r]]
  BY DEF ContentsOf
<1> DEFINE was == ContentsOf(d, q, i, o)
           is == ContentsOf(d2, q2, i2, o2)
<1>3. \A r \in Places : r # p => is[r] = was[r]
  BY <1>1
<1>4. is = [r \in Places |-> is[r]] /\ was = [r \in Places |-> was[r]]
  BY <1>2
<1> HIDE DEF was, is
<1>5. \A s : is[p] = s => is = [was EXCEPT ![p] = s]
  BY <1>3, <1>4
<1>6. \A k : is[p] = Seqs!RemoveAt(was[p], k) => Took(was, p, k, is)
  BY <1>5 DEF Took
<1>7. \A x : is[p] = Append(was[p], x) => Put(was, p, x, is)
  BY <1>5 DEF Put
<1> QED
  BY <1>6, <1>7 DEF was, is

(* What each kind of step does to the places.                               *)
LEMMA SendsMoves ==
    ASSUME TypeOK, Turn, NEW a \in Analyzers, Sends(a)
    PROVE  /\ a \in Places /\ frame \in Frames
           /\ pc[Listener] \in Early /\ pc'[Listener] = "flush"
           /\ UNCHANGED <<alive, spawned, frame, decoded, faulted>>
           /\ Put(Contents, a, frame, Contents')
<1>1. /\ pc[Listener] \in {"write", "blocked"} /\ Goto(Listener, "flush")
      /\ stdin' = [stdin EXCEPT ![a] = Append(@, frame)]
      /\ UNCHANGED <<alive, spawned, stdout, queue, frame, decoded, faulted>>
  BY DEF Sends, Send
<1>2. pc'[Listener] = "flush" /\ pc[Listener] \in Early
  BY <1>1, GotoMoves DEF Labels, Threads, Early
<1>3. frame \in Frames
  BY <1>1 DEF TypeOK, Turn, Frames
<1>4. stdin'[a] = Append(stdin[a], frame) /\ \A b \in Analyzers : a # b => stdin'[b] = stdin[b]
  BY <1>1 DEF TypeOK
<1>5. OnlyAt(a, decoded, queue, stdin, stdout, decoded', queue', stdin', stdout')
  BY <1>1, <1>4 DEF OnlyAt
<1>6. Put(Contents, a, frame, Contents')
  BY <1>4, <1>5, OneChanges, ContentsAre, PlacesAre DEF Contents
<1> QED
  BY <1>1, <1>2, <1>3, <1>6, PlacesAre

LEMMA BabbleMoves ==
    ASSUME NEW a \in Analyzers, Babble(a)
    PROVE  /\ UNCHANGED <<pc, alive, spawned, frame, decoded, faulted>>
           /\ Put(Contents, 0, Junk, Contents')
<1>1. queue' = Append(queue, Junk)
      /\ UNCHANGED <<pc, alive, spawned, stdin, stdout, frame, decoded, faulted>>
  BY DEF Babble, processes, platform
<1>2. OnlyAt(0, decoded, queue, stdin, stdout, decoded', queue', stdin', stdout')
  BY <1>1 DEF OnlyAt
<1>3. ContentsOf(decoded', queue', stdin', stdout')[0]
      = Append(ContentsOf(decoded, queue, stdin, stdout)[0], Junk)
  <2>1. ContentsOf(decoded', queue', stdin', stdout')[0] = queue'
    BY ContentsAre
  <2>2. ContentsOf(decoded, queue, stdin, stdout)[0] = queue
    BY ContentsAre
  <2> QED
    BY <1>1, <2>1, <2>2
<1>4. Put(Contents, 0, Junk, Contents')
  BY <1>2, <1>3, OneChanges, PlacesAre DEF Contents
<1> QED
  BY <1>1, <1>4

LEMMA NothingMoves ==
    ASSUME TypeOK, NEW x, ComesTo(x)
    PROVE  /\ decoded' = Append(decoded, x) /\ pc'[Listener] = "idle" /\ pc[Listener] # "idle"
           /\ UNCHANGED <<alive, spawned, frame>>
           /\ Put(Contents, Given, x, Contents')
<1>1. decoded' = Append(decoded, x) /\ Goto(Listener, "idle") /\ pc[Listener] # "idle"
      /\ UNCHANGED <<alive, spawned, stdin, stdout, queue, frame>>
  BY DEF ComesTo, Decoded, pipes
<1>2. pc'[Listener] = "idle"
  BY <1>1, GotoMoves DEF Labels, Threads
<1>3. OnlyAt(Given, decoded, queue, stdin, stdout, decoded', queue', stdin', stdout')
  BY <1>1 DEF OnlyAt
<1>4. ContentsOf(decoded', queue', stdin', stdout')[Given]
      = Append(ContentsOf(decoded, queue, stdin, stdout)[Given], x)
  <2>1. ContentsOf(decoded', queue', stdin', stdout')[Given] = decoded'
    BY ContentsAre
  <2>2. ContentsOf(decoded, queue, stdin, stdout)[Given] = decoded
    BY ContentsAre
  <2> QED
    BY <1>1, <2>1, <2>2
<1>5. Put(Contents, Given, x, Contents')
  BY <1>3, <1>4, OneChanges, PlacesAre DEF Contents
<1> QED
  BY <1>1, <1>2, <1>5

LEMMA ReadMoves ==
    ASSUME TypeOK, Read
    PROVE  /\ 0 \in Places /\ Given \in Places
           /\ 1 \in 1..Len(Contents[0]) /\ Contents[0][1] = Head(queue) /\ Head(queue) \in Lines
           /\ pc[Listener] = "read" /\ UNCHANGED <<alive, spawned, frame, faulted>>
           /\ Head(queue) = Junk => UNCHANGED <<pc, decoded>>
           /\ Head(queue) # Junk => decoded' = Append(decoded, Head(queue)) /\ pc'[Listener] = "idle"
           /\ \E rest : /\ Took(Contents, 0, 1, rest)
                        /\ rest[Given] = decoded
                        /\ Head(queue) = Junk => Contents' = rest
                        /\ Head(queue) # Junk => Put(rest, Given, Head(queue), Contents')
<1> DEFINE rest == ContentsOf(decoded, Tail(queue), stdin, stdout)
<1>1. /\ queue # <<>> /\ queue \in Seq(Lines) /\ queue' = Tail(queue) /\ Head(queue) \in Lines
      /\ pc[Listener] = "read"
      /\ UNCHANGED <<alive, spawned, stdin, stdout, frame, faulted>>
      /\ Head(queue) = Junk => UNCHANGED <<pc, decoded>>
      /\ Head(queue) # Junk => decoded' = Append(decoded, Head(queue)) /\ Goto(Listener, "idle")
  BY DEF Read, Decoded, TypeOK, processes
<1>2. Contents[0] = queue /\ rest[Given] = decoded /\ rest[0] = Tail(queue)
  <2>1. Contents[0] = queue /\ rest[Given] = decoded
    BY ContentsAre DEF Contents
  <2>2. \A q : ContentsOf(decoded, q, stdin, stdout)[0] = q
    BY ContentsAre
  <2> QED
    BY <2>1, <2>2
<1>3. Tail(queue) = Seqs!RemoveAt(queue, 1) /\ Head(queue) = queue[1] /\ 1 \in 1..Len(queue)
  BY <1>1, TailIsWithout
<1>4. Took(Contents, 0, 1, rest)
  <2>1. OnlyAt(0, decoded, queue, stdin, stdout, decoded, Tail(queue), stdin, stdout)
    BY DEF OnlyAt
  <2>2. rest[0] = Seqs!RemoveAt(Contents[0], 1)
    BY <1>2, <1>3
  <2> QED
    BY <2>1, <2>2, OneChanges, PlacesAre DEF Contents
<1>5. ASSUME Head(queue) = Junk
      PROVE  Contents' = rest
  BY <1>1, <1>5 DEF Contents
<1>6. ASSUME Head(queue) # Junk
      PROVE  Put(rest, Given, Head(queue), Contents') /\ pc'[Listener] = "idle"
  <2>1. decoded' = Append(decoded, Head(queue))
    BY <1>1, <1>6
  <2>2. OnlyAt(Given, decoded, Tail(queue), stdin, stdout, decoded', queue', stdin', stdout')
    BY <1>1 DEF OnlyAt
  <2>3. ContentsOf(decoded', queue', stdin', stdout')[Given] = Append(rest[Given], Head(queue))
    <3>1. ContentsOf(decoded', queue', stdin', stdout')[Given] = decoded'
      BY ContentsAre
    <3> QED
      BY <1>2, <2>1, <3>1
  <2>4. pc'[Listener] = "idle"
    BY <1>1, <1>6, GotoMoves DEF Labels, Threads
  <2> QED
    BY <2>2, <2>3, <2>4, OneChanges, PlacesAre DEF Contents
<1> HIDE DEF rest
<1> QED
  BY <1>1, <1>2, <1>3, <1>4, <1>5, <1>6, PlacesAre

LEMMA AnalyzeMoves ==
    ASSUME TypeOK, NEW a \in Analyzers, Analyze(a)
    PROVE  /\ a \in Places /\ -a \in Places
           /\ a \in alive /\ stdin[a] # <<>> /\ Contents[a] = stdin[a] /\ 1 \in 1..Len(Contents[a])
           /\ UNCHANGED <<pc, alive, spawned, frame, decoded, faulted>>
           /\ Passes(Contents, a, 1, -a, Contents')
<1> DEFINE x == Head(stdin[a])
           rest == ContentsOf(decoded, queue, stdin', stdout)
<1>0. a \in Places /\ -a \in Places
  BY PlacesAre
<1>1. /\ stdin[a] \in Seq(Frames) /\ stdin[a] # <<>> /\ a \in alive
      /\ stdin'[a] = Tail(stdin[a]) /\ \A b \in Analyzers : b # a => stdin'[b] = stdin[b]
      /\ UNCHANGED <<pc, alive, spawned, queue, frame, decoded, faulted>>
      /\ \/ UNCHANGED stdout
         \/ stdout' = [stdout EXCEPT ![a] = Append(@, x)]
  BY DEF Analyze, TypeOK, processes, platform
<1>2. Contents[a] = stdin[a] /\ rest[-a] = stdout[a] /\ rest[a] = stdin'[a]
  BY ContentsAre DEF Contents
<1>3. Tail(stdin[a]) = Seqs!RemoveAt(stdin[a], 1) /\ x = stdin[a][1] /\ 1 \in 1..Len(stdin[a])
  BY <1>1, TailIsWithout
<1>4. Took(Contents, a, 1, rest)
  <2>1. OnlyAt(a, decoded, queue, stdin, stdout, decoded, queue, stdin', stdout)
    BY <1>1 DEF OnlyAt
  <2>2. rest[a] = Seqs!RemoveAt(Contents[a], 1)
    BY <1>1, <1>2, <1>3
  <2> QED
    BY <1>0, <2>1, <2>2, OneChanges DEF Contents
<1>5. CASE UNCHANGED stdout
  <2>1. Contents' = rest
    BY <1>1, <1>5 DEF Contents
  <2> QED
    BY <1>0, <1>1, <1>2, <1>3, <1>4, <2>1 DEF Passes
<1>6. CASE stdout' = [stdout EXCEPT ![a] = Append(@, x)]
  <2>1. stdout'[a] = Append(stdout[a], x) /\ \A b \in Analyzers : b # a => stdout'[b] = stdout[b]
    BY <1>6 DEF TypeOK
  <2>2. OnlyAt(-a, decoded, queue, stdin', stdout, decoded', queue', stdin', stdout')
    BY <1>1, <2>1 DEF OnlyAt, Analyzers
  <2>3. Put(rest, -a, x, Contents')
    BY <1>0, <2>1, <2>2, OneChanges, ContentsAre DEF Contents
  <2> QED
    BY <1>0, <1>1, <1>2, <1>3, <1>4, <2>3 DEF Passes
<1> QED
  BY <1>1, <1>5, <1>6

LEMMA ReadLineMoves ==
    ASSUME TypeOK, NEW a \in Analyzers, ReadLine(a)
    PROVE  /\ 0 \in Places /\ -a \in Places
           /\ stdout[a] # <<>> /\ Contents[-a] = stdout[a]
           /\ UNCHANGED <<pc, alive, spawned, frame, decoded, faulted>>
           /\ \E k \in 1..Len(Contents[-a]) :
                 k <= readers[a] /\ Passes(Contents, -a, k, 0, Contents')
<1> DEFINE rest == ContentsOf(decoded, queue, stdin, stdout')
<1>0. 0 \in Places /\ -a \in Places
  BY PlacesAre
<1>1. PICK k \in 1..Len(stdout[a]) :
         /\ k <= readers[a]
         /\ stdout' = [stdout EXCEPT ![a] = Seqs!RemoveAt(@, k)]
         /\ queue' = Append(queue, stdout[a][k]) \/ UNCHANGED queue
  BY DEF ReadLine
<1>2. /\ stdout[a] \in Seq(Frames) /\ stdout[a] # <<>>
      /\ stdout'[a] = Seqs!RemoveAt(stdout[a], k)
      /\ \A b \in Analyzers : b # a => stdout'[b] = stdout[b]
      /\ UNCHANGED <<pc, alive, spawned, stdin, frame, decoded, faulted>>
  BY <1>1 DEF ReadLine, TypeOK, processes, platform
<1>3. Contents[-a] = stdout[a] /\ rest[0] = queue /\ rest[-a] = stdout'[a]
  BY ContentsAre DEF Contents
<1>4. Took(Contents, -a, k, rest)
  <2>1. OnlyAt(-a, decoded, queue, stdin, stdout, decoded, queue, stdin, stdout')
    BY <1>2 DEF OnlyAt, Analyzers
  <2>2. rest[-a] = Seqs!RemoveAt(Contents[-a], k)
    BY <1>2, <1>3
  <2> QED
    BY <1>0, <2>1, <2>2, OneChanges DEF Contents
<1>5. CASE UNCHANGED queue
  <2>1. Contents' = rest
    BY <1>2, <1>5 DEF Contents
  <2> QED
    BY <1>0, <1>1, <1>2, <1>3, <1>4, <2>1 DEF Passes
<1>6. CASE queue' = Append(queue, stdout[a][k])
  <2>1. OnlyAt(0, decoded, queue, stdin, stdout', decoded', queue', stdin', stdout')
    BY <1>2 DEF OnlyAt
  <2>2. ContentsOf(decoded', queue', stdin', stdout')[0] = Append(rest[0], stdout[a][k])
    <3>1. ContentsOf(decoded', queue', stdin', stdout')[0] = queue'
      BY ContentsAre
    <3> QED
      BY <1>3, <1>6, <3>1
  <2>3. Put(rest, 0, stdout[a][k], Contents')
    BY <1>0, <2>1, <2>2, OneChanges DEF Contents
  <2> QED
    BY <1>0, <1>1, <1>2, <1>3, <1>4, <2>3 DEF Passes
<1> QED
  BY <1>1, <1>5, <1>6

---------------------------------------------------------------------------
(* Every frame is in one place at most.                                     *)

\* A frame that has not arrived, or was not written yet, is nowhere.
Below ==
    \A n \in Frames :
        n > frame \/ (n = frame /\ pc[Listener] \in Early) => Nowhere(n, Contents)

Ordered == Turn /\ Unique(Contents) /\ Below

(* A step that brings no frame to a place.                                  *)
LEMMA OrderedStays ==
    ASSUME Ordered, UNCHANGED <<decoded, frame>>,
           pc'[Listener] = "idle" <=> pc[Listener] = "idle",
           pc'[Listener] \in Early => pc[Listener] \in Early,
           Unique(Contents'), \A n \in Frames : Nowhere(n, Contents) => Nowhere(n, Contents')
    PROVE  Ordered'
<1>1. Below'
  BY DEF Ordered, Below
<1>2. Turn'
  BY DEF Ordered, Turn
<1> QED
  BY <1>1, <1>2 DEF Ordered

(* Nothing passes twice.                                                    *)
LEMMA PassingOrdered ==
    ASSUME TypeOK, Ordered, NEW p \in Places, NEW k \in 1..Len(Contents[p]), NEW q \in Places,
           Passes(Contents, p, k, q, Contents'), UNCHANGED <<pc, frame, decoded>>
    PROVE  Ordered'
<1>1. Full(Contents) /\ Unique(Contents)
  BY ContentsFull DEF Ordered
<1>2. Unique(Contents') /\ \A n \in Frames : Nowhere(n, Contents) => Nowhere(n, Contents')
  BY <1>1, PassesOne
<1> QED
  BY <1>2, OrderedStays

(* A frame that comes to nothing.                                           *)
LEMMA NothingOrdered ==
    ASSUME TypeOK, Ordered, NEW x \in {Undecoded, Raised}, ComesTo(x)
    PROVE  Ordered'
<1>1. decoded' = Append(decoded, x) /\ pc'[Listener] = "idle" /\ pc[Listener] # "idle"
      /\ UNCHANGED frame
  BY NothingMoves
<1>2. Full(Contents) /\ x \in Marks /\ x \notin Frames /\ Unique(Contents)
  BY ContentsFull DEF Marks, Frames, Undecoded, Raised, Ordered
<1>3. Put(Contents, Given, x, Contents')
  BY NothingMoves
<1>4. Unique(Contents') /\ \A n \in Frames : Nowhere(n, Contents) => Nowhere(n, Contents')
  <2>1. Given \in Places
    BY PlacesAre
  <2> QED
    BY <1>2, <1>3, <2>1, PutLast
<1>5. Turn'
  BY <1>1 DEF Ordered, Turn, TypeOK
<1>6. Below'
  BY <1>1, <1>4 DEF Ordered, Below, Early, Entering
<1> QED
  BY <1>4, <1>5, <1>6 DEF Ordered

LEMMA ArrivesOrdered ==
    ASSUME TypeOK, Ordered, FrameArrives
    PROVE  Ordered'
<1>1. pc[Listener] = "idle" /\ pc'[Listener] = "ensure" /\ frame' = frame + 1 /\ frame \in Nat
  BY DEF FrameArrives, Goto, TypeOK, Threads
<1>2. Contents' = Contents /\ decoded' = decoded
  BY DEF FrameArrives, Contents, pipes
<1>3. Turn'
  BY <1>1, <1>2 DEF Ordered, Turn, TypeOK
<1>4. Below'
  BY <1>1, <1>2 DEF Ordered, Below, Frames
<1> QED
  BY <1>2, <1>3, <1>4 DEF Ordered

LEMMA SendsOrdered ==
    ASSUME TypeOK, Ordered, NEW a \in Analyzers, Sends(a)
    PROVE  Ordered'
<1>1. /\ a \in Places /\ frame \in Frames
      /\ pc[Listener] \in Early /\ pc'[Listener] = "flush"
      /\ UNCHANGED <<frame, decoded>>
  BY SendsMoves DEF Ordered
<1>2. Full(Contents) /\ frame \in Marks /\ Nowhere(frame, Contents) /\ Unique(Contents)
  BY <1>1, ContentsFull DEF Marks, Lines, Ordered, Below
<1>3. Unique(Contents')
      /\ \A n \in Frames : n # frame /\ Nowhere(n, Contents) => Nowhere(n, Contents')
  <2>1. Put(Contents, a, frame, Contents')
    BY SendsMoves DEF Ordered
  <2> QED
    BY <1>1, <1>2, <2>1, PutLast
<1>4. Below'
  BY <1>1, <1>3 DEF Ordered, Below, Early, Entering, Frames
<1>5. Turn'
  BY <1>1 DEF Ordered, Turn, Early, Entering
<1> QED
  BY <1>3, <1>4, <1>5 DEF Ordered

LEMMA BabbleOrdered ==
    ASSUME TypeOK, Ordered, NEW a \in Analyzers, Babble(a)
    PROVE  Ordered'
<1>1. UNCHANGED <<pc, frame, decoded>> /\ Put(Contents, 0, Junk, Contents')
  BY BabbleMoves
<1>2. Full(Contents) /\ Unique(Contents) /\ 0 \in Places /\ Junk \in Marks /\ Junk \notin Frames
  BY ContentsFull, PlacesAre DEF Ordered, Marks, Lines, Junk, Frames
<1>3. Unique(Contents')
      /\ \A n \in Frames : n # Junk /\ Nowhere(n, Contents) => Nowhere(n, Contents')
  BY <1>1, <1>2, PutLast
<1>4. \A n \in Frames : n # Junk
  BY <1>2
<1> QED
  BY <1>1, <1>3, <1>4, OrderedStays

(* The line that is read is the number of a frame that was asked for and    *)
(* given to none, and it is nowhere any more.                               *)
LEMMA ReadOrdered ==
    ASSUME TypeOK, Ordered, Read
    PROVE  /\ Ordered'
           /\ Head(queue) # Junk => /\ Head(queue) \in Frames /\ Head(queue) <= frame
                                    /\ \A i \in 1..Len(decoded) : decoded[i] # Head(queue)
<1>1. /\ 0 \in Places /\ Given \in Places
      /\ 1 \in 1..Len(Contents[0]) /\ Contents[0][1] = Head(queue) /\ Head(queue) \in Lines
      /\ pc[Listener] = "read" /\ UNCHANGED frame
      /\ Head(queue) = Junk => UNCHANGED <<pc, decoded>>
      /\ Head(queue) # Junk => decoded' = Append(decoded, Head(queue)) /\ pc'[Listener] = "idle"
  BY ReadMoves
<1>2. PICK rest : /\ Took(Contents, 0, 1, rest) /\ rest[Given] = decoded
                  /\ Head(queue) = Junk => Contents' = rest
                  /\ Head(queue) # Junk => Put(rest, Given, Head(queue), Contents')
  BY ReadMoves
<1>3. Full(Contents) /\ Unique(Contents)
  BY ContentsFull DEF Ordered
<1>4. /\ Full(rest) /\ Unique(rest)
      /\ Head(queue) \in Frames => Nowhere(Head(queue), rest)
      /\ \A n \in Frames : Nowhere(n, Contents) => Nowhere(n, rest)
  BY <1>1, <1>2, <1>3, TakeOne
<1>5. Head(queue) # Junk => /\ Head(queue) \in Frames /\ Head(queue) <= frame
                            /\ \A i \in 1..Len(decoded) : decoded[i] # Head(queue)
  <2> SUFFICES ASSUME Head(queue) \in Frames
               PROVE  /\ Head(queue) <= frame
                      /\ \A i \in 1..Len(decoded) : decoded[i] # Head(queue)
    BY <1>1 DEF Lines
  <2>1. ~Nowhere(Head(queue), Contents)
    BY <1>1 DEF Nowhere
  <2>2. Head(queue) <= frame
    BY <2>1 DEF Ordered, Below, TypeOK, Frames
  <2> QED
    BY <1>1, <1>2, <1>4, <2>2 DEF Nowhere
<1>6. CASE Head(queue) = Junk
  <2>1. Unique(Contents') /\ \A n \in Frames : Nowhere(n, Contents) => Nowhere(n, Contents')
    BY <1>2, <1>4, <1>6
  <2> QED
    BY <1>1, <1>5, <1>6, <2>1, OrderedStays
<1>7. CASE Head(queue) # Junk
  <2>1. decoded' = Append(decoded, Head(queue)) /\ pc'[Listener] = "idle"
    BY <1>1, <1>7
  <2>2. Head(queue) \in Marks /\ Nowhere(Head(queue), rest)
    BY <1>4, <1>5, <1>7 DEF Marks, Lines
  <2>3. Put(rest, Given, Head(queue), Contents')
    BY <1>2, <1>7
  <2>4. Unique(Contents')
        /\ \A n \in Frames : n # Head(queue) /\ Nowhere(n, rest) => Nowhere(n, Contents')
    BY <1>1, <1>4, <2>2, <2>3, PutLast
  <2>5. Below'
    BY <1>1, <1>4, <1>5, <1>7, <2>1, <2>4 DEF Ordered, Below, Early, Entering, TypeOK, Frames
  <2>6. Turn'
    BY <1>1, <2>1 DEF Ordered, Turn, TypeOK
  <2> QED
    BY <1>5, <2>4, <2>5, <2>6 DEF Ordered
<1> QED
  BY <1>6, <1>7

---------------------------------------------------------------------------
(* The contract.                                                            *)

\* The variables the contract speaks of.
contract == <<frame, decoded, faulted>>

(* What the listener is given for a frame is what the contract allows.      *)
LEMMA GivesResult ==
    ASSUME TypeOK, Turn, pc[Listener] # "idle", UNCHANGED frame,
           NEW result, result \in Contract!Fresh \cup {Undecoded, Raised},
           decoded' = Append(decoded, result),
           faulted' = (faulted \/ result = Raised)
    PROVE  Contract!Give
<1>1. frame = Len(decoded) + 1
  BY DEF TypeOK, Turn
<1> QED
  BY <1>1 DEF Contract!Give

(* One step of the decoder is a step of its contract, or none, and no frame *)
(* comes to be in two places.                                               *)
LEMMA StepKeepsContract ==
    TypeOK /\ Stages /\ Ordered /\ [Next]_vars => Ordered' /\ [Contract!Next]_contract
<1> SUFFICES ASSUME TypeOK, Stages, Ordered, [Next]_vars
             PROVE  Ordered' /\ [Contract!Next]_contract
  OBVIOUS
<1>0. Turn
  BY DEF Ordered
<1>1. CASE Quietly
  <2>1. Contents' = Contents /\ UNCHANGED contract
    BY <1>1 DEF Quietly, Contents, pipes, platform, contract
  <2>2. Ordered'
    BY <1>1, <2>1, OrderedStays DEF Quietly, platform, Ordered
  <2> QED
    BY <2>1, <2>2
<1>2. CASE FrameArrives
  <2>1. frame = Len(decoded) /\ frame' = frame + 1 /\ frame < MaxFrames
        /\ UNCHANGED <<decoded, faulted>>
    BY <1>0, <1>2 DEF FrameArrives, Turn
  <2>2. Contract!Ask
    BY <2>1 DEF Contract!Ask
  <2> QED
    BY <1>2, <2>2, ArrivesOrdered DEF Contract!Next
<1>3. ASSUME NEW x \in {Undecoded, Raised}, ComesTo(x)
      PROVE  Ordered' /\ [Contract!Next]_contract
  <2>1. decoded' = Append(decoded, x) /\ faulted' = (faulted \/ x = Raised)
        /\ pc[Listener] # "idle" /\ UNCHANGED frame
    BY <1>3, NothingMoves DEF ComesTo
  <2>2. Contract!Give
    BY <1>0, <2>1, GivesResult
  <2> QED
    BY <1>3, <2>2, NothingOrdered DEF Contract!Next
<1>4. ASSUME NEW a \in Analyzers, Sends(a) \/ Babble(a)
      PROVE  Ordered' /\ [Contract!Next]_contract
  BY <1>0, <1>4, SendsMoves, BabbleMoves, SendsOrdered, BabbleOrdered DEF contract
<1>5. ASSUME NEW a \in Analyzers, Analyze(a)
      PROVE  Ordered' /\ [Contract!Next]_contract
  BY <1>5, AnalyzeMoves, PassingOrdered DEF contract
<1>6. ASSUME NEW a \in Analyzers, ReadLine(a)
      PROVE  Ordered' /\ [Contract!Next]_contract
  BY <1>6, ReadLineMoves, PassingOrdered DEF contract
<1>7. CASE Read
  <2>0. Ordered'
    BY <1>7, ReadOrdered
  <2>1. CASE Head(queue) = Junk
    BY <1>7, <2>0, <2>1, ReadMoves DEF contract
  <2>2. CASE Head(queue) # Junk
    <3>1. /\ Head(queue) \in Frames /\ Head(queue) <= frame
          /\ \A i \in 1..Len(decoded) : decoded[i] # Head(queue)
      BY <1>7, <2>2, ReadOrdered
    <3>2. Head(queue) \in Contract!Fresh
      <4>1. Head(queue) \in 1..frame
        BY <3>1 DEF Frames, TypeOK
      <4> QED
        BY <3>1, <4>1 DEF Contract!Fresh
    <3>3. decoded' = Append(decoded, Head(queue)) /\ UNCHANGED <<frame, faulted>>
          /\ pc[Listener] # "idle"
      BY <1>7, <2>2, ReadMoves
    <3>4. faulted' = (faulted \/ Head(queue) = Raised)
      BY <3>1, <3>3 DEF Frames, Raised, TypeOK
    <3>5. Contract!Give
      BY <1>0, <3>2, <3>3, <3>4, GivesResult
    <3> QED
      BY <2>0, <3>5 DEF Contract!Next
  <2> QED
    BY <2>1, <2>2
<1> QED
  BY <1>1, <1>2, <1>3, <1>4, <1>5, <1>6, <1>7, Kinds

(* The inductive invariant: the number of a frame is in one place at most,  *)
(* so the line at the head of the queue answers a frame that was given none.*)
IInv == TypeOK /\ Stages /\ Ordered

LEMMA InitEmpty ==
    ASSUME Init
    PROVE  \A p \in Places : Contents[p] = <<>>
<1> TAKE p \in Places
<1>1. CASE p = Given \/ p = 0
  BY <1>1, ContentsAre DEF Init, Contents
<1>2. CASE p \in Analyzers
  BY <1>2, ContentsAre DEF Init, Contents
<1>3. CASE -p \in Analyzers
  <2>1. -(-p) = p
    BY DecoderAssumption DEF Places, Given
  <2>2. Contents[-(-p)] = stdout[-p]
    BY <1>3, ContentsAre DEF Contents
  <2> QED
    BY <1>3, <2>1, <2>2 DEF Init
<1> QED
  BY <1>1, <1>2, <1>3, PlacesAre

LEMMA InitHolds == Init => IInv
<1> SUFFICES ASSUME Init PROVE IInv
  OBVIOUS
<1>1. DataType
  <2>1. /\ <<>> \in Seq(Frames) /\ <<>> \in Seq(Lines)
        /\ <<>> \in Seq(Frames \cup {Undecoded, Raised})
    OBVIOUS
  <2>2. stdin \in [Analyzers -> Seq(Frames)] /\ stdout \in [Analyzers -> Seq(Frames)]
    BY <2>1 DEF Init
  <2>3. frame \in 0..MaxFrames
    BY DecoderAssumption DEF Init
  <2> QED
    BY <2>1, <2>2, <2>3 DEF Init, DataType
<1>2. ProgramType
  <2>1. pc \in [Threads -> Labels] /\ readers \in [Analyzers -> Nat]
    BY DEF Init, Labels
  <2>2. spawned \in 0..MaxSpawns /\ checks \in 0..MaxChecks
    BY DecoderAssumption DEF Init
  <2> QED
    BY <2>1, <2>2 DEF Init, ProgramType
<1>3. Stages /\ Turn
  BY DecoderAssumption DEF Init, Stages, Turn, Threads, Listener
<1>4. \A p \in Places : Contents[p] = <<>>
  BY InitEmpty
<1>5. Unique(Contents) /\ Below
  BY <1>4 DEF Unique, Below, Nowhere
<1> QED
  BY <1>1, <1>2, <1>3, <1>5, TypesAre DEF IInv, Ordered

LEMMA Inductive == Spec => []IInv
<1>1. IInv /\ [Next]_vars => IInv'
  BY TypeKept, StagesKept, StepKeepsContract DEF IInv, Ordered
<1> QED
  BY <1>1, InitHolds, PTL DEF Spec

(* decoder.py:77-107, platform.py:105-115: the decoder implements its       *)
(* contract.                                                                *)
THEOREM ContractKept == Spec => KeepsContract
<1>1. Init => Contract!Init
  BY DEF Init, Contract!Init
<1>2. IInv /\ [Next]_vars => [Contract!Next]_contract
  BY StepKeepsContract DEF IInv
<1> QED
  BY <1>1, <1>2, Inductive, PTL DEF Spec, KeepsContract, Contract!Spec, contract

---------------------------------------------------------------------------
(* Analyzers that are left behind.                                          *)

\* Without a crowd the one that is alive, if any, is the decoder's, and none
\* is while one is being started or once the decoder has waited for its end.
Alone ==
    "crowd" \notin trouble =>
        /\ ~Crowd
        /\ alive \subseteq {process}
        /\ \A t \in Threads : pc[t] = "spawn" => alive = {}
        /\ stopping \in {"terminated", "closed"} => alive = {}

\* What is left to show of a step once the crowd is accounted for.
Tidy(now, is, places, end) ==
    /\ now \subseteq {is}
    /\ \A t \in Threads : places[t] = "spawn" => now = {}
    /\ end \in {"terminated", "closed"} => now = {}

LEMMA AloneKept == TypeOK /\ Stages /\ Alone /\ [Next]_vars => Alone'
<1> SUFFICES ASSUME TypeOK, Stages, Alone, [Next]_vars PROVE Alone'
  OBVIOUS
<1>0. CASE UNCHANGED vars
  BY <1>0 DEF vars, program, processes, Alone, Crowd
<1> SUFFICES ASSUME Next, "crowd" \notin trouble'
             PROVE  ~Crowd' /\ Tidy(alive', process', pc', stopping')
  BY <1>0 DEF Alone, Tidy
<1>1. "crowd" \notin trouble /\ ~Crowd'
  BY DEF Next, Watch
<1>2. ~Crowd /\ Tidy(alive, process, pc, stopping)
  BY <1>1 DEF Alone, Tidy
<1> SUFFICES Tidy(alive', process', pc', stopping')
  BY <1>1
<1>3. /\ pc \in [Threads -> Labels] /\ Listener \in Threads /\ Listener \notin Checkers
      /\ Checkers \subseteq Threads /\ None \notin alive
  BY DecoderAssumption DEF Listener, TypeOK, Labels, Threads, None
<1>4. ASSUME NEW t \in Threads, NEW label \in Labels \ {"spawn"}, Goto(t, label),
             UNCHANGED <<alive, process, stopping>>
      PROVE  Tidy(alive', process', pc', stopping')
  <2>1. \A u \in Threads : pc'[u] = "spawn" => pc[u] = "spawn"
    BY <1>3, <1>4 DEF Goto
  <2> QED
    BY <1>2, <1>4, <2>1 DEF Tidy
<1>5. ASSUME alive = {}, UNCHANGED <<alive, stopping>>
      PROVE  Tidy(alive', process', pc', stopping')
  BY <1>5 DEF Tidy
<1>6. ASSUME NEW t \in Threads, Ensure(t) \/ EnsurePoll(t)
      PROVE  Tidy(alive', process', pc', stopping')
  <2>1. UNCHANGED <<alive, process, stopping>>
    BY <1>6 DEF Ensure, EnsurePoll, processes
  <2>2. CASE ~Runs(process)
    <3>1. alive = {}
      BY <1>2, <1>3, <2>2 DEF Tidy, Runs
    <3> QED
      BY <1>5, <2>1, <3>1
  <2>3. CASE Runs(process)
    <3>1. \E label \in Labels \ {"spawn"} : Goto(t, label)
      BY <1>6, <2>3 DEF Ensure, EnsurePoll, Runs, AfterEnsure, Labels, Entering
    <3> QED
      BY <1>4, <2>1, <3>1
  <2> QED
    BY <2>2, <2>3
<1>7. ASSUME NEW t \in Threads, Spawn(t)
      PROVE  Tidy(alive', process', pc', stopping')
  <2>1. alive = {} /\ pc[t] = "spawn"
    BY <1>2, <1>7 DEF Spawn, Tidy
  <2>2. alive' = {process'}
    BY <1>7, <2>1 DEF Spawn
  <2>3. ASSUME NEW u \in Threads, pc'[u] = "spawn"
        PROVE  FALSE
    <3>1. u # t /\ pc[u] = "spawn"
      BY <1>3, <1>7, <2>3 DEF Spawn, Goto
    <3> QED
      BY <1>2, <2>1, <3>1 DEF Crowd, Entering
  <2>4. stopping' \notin {"terminated", "closed"}
    <3>1. stopping' = stopping
      BY <1>7 DEF Spawn
    <3> QED
      BY <1>2, <2>1, <3>1 DEF Crowd, Stages, Threads
  <2> QED
    BY <2>2, <2>3, <2>4 DEF Tidy
<1>8. ASSUME NEW t \in Threads, SpawnFails(t)
      PROVE  Tidy(alive', process', pc', stopping')
  BY <1>2, <1>5, <1>8 DEF SpawnFails, Tidy
<1>9. ASSUME NEW t \in Threads, StartReader(t) \/ StartStderrReader(t)
      PROVE  Tidy(alive', process', pc', stopping')
  <2>1. UNCHANGED <<alive, process, stopping>>
    BY <1>9 DEF StartReader, StartStderrReader, processes
  <2>2. \E label \in Labels \ {"spawn"}, u \in Threads : Goto(u, label)
    BY <1>3, <1>9 DEF StartReader, StartStderrReader, EnsureRaises, DecodeRaises, Decoded,
                      AfterEnsure, Labels, Entering
  <2> QED
    BY <1>4, <2>1, <2>2
<1>10. CASE FrameArrives \/ Write \/ WriteGoesOn \/ Flush \/ Read \/ Timeout
  <2>1. UNCHANGED <<alive, process, stopping>>
    BY <1>10 DEF FrameArrives, Write, WriteGoesOn, Flush, Read, Timeout, processes
  <2>2. CASE UNCHANGED pc
    BY <1>2, <2>1, <2>2 DEF Tidy
  <2>3. CASE ~UNCHANGED pc
    <3>1. PICK label \in Labels \ {"spawn"} : Goto(Listener, label)
      BY <1>10, <2>3 DEF FrameArrives, Write, WriteGoesOn, Flush, Read, Timeout, DecodeRaises,
                         Decoded, Send, Labels, Entering
    <3> QED
      BY <1>3, <1>4, <2>1, <3>1
  <2> QED
    BY <2>2, <2>3
<1>11. ASSUME NEW t \in Checkers, Check(t) \/ AnswerReady(t)
       PROVE  Tidy(alive', process', pc', stopping')
  <2>1. PICK label \in Labels \ {"spawn"} : Goto(t, label)
    BY <1>11 DEF Check, AnswerReady, Labels, Entering
  <2>2. UNCHANGED <<alive, process, stopping>>
    BY <1>11 DEF Check, AnswerReady, processes
  <2> QED
    BY <1>3, <1>4, <2>1, <2>2
<1>12. ASSUME NEW a \in Analyzers, Analyze(a) \/ Babble(a) \/ ReadLine(a) \/ Die(a)
       PROVE  Tidy(alive', process', pc', stopping')
  <2>1. alive' \subseteq alive /\ UNCHANGED <<process, pc, stopping>>
    BY <1>12 DEF Analyze, Babble, ReadLine, Die, processes
  <2> QED
    BY <1>2, <2>1 DEF Tidy
<1>13. CASE Stop
  <2>1. stopping' = "joining" /\ UNCHANGED <<alive, process, pc>>
    BY <1>13 DEF Stop, processes
  <2> QED
    BY <1>2, <2>1 DEF Tidy
<1>14. CASE Terminate
  <2>1. UNCHANGED <<alive, process, pc>>
        /\ stopping' = IF process = None THEN "closed" ELSE "terminating"
    BY <1>14 DEF Terminate
  <2>2. process = None => alive = {}
    BY <1>2, <1>3 DEF Tidy
  <2> QED
    BY <1>2, <2>1, <2>2 DEF Tidy
<1>15. CASE Reap
  <2>1. alive' = {}
    BY <1>2, <1>15 DEF Reap, Tidy
  <2> QED
    BY <2>1 DEF Tidy
<1>16. CASE Forget
  <2>1. alive' = {}
    BY <1>2, <1>16 DEF Forget, Tidy
  <2> QED
    BY <2>1 DEF Tidy
<1> QED
  BY <1>6, <1>7, <1>8, <1>9, <1>10, <1>11, <1>12, <1>13, <1>14, <1>15, <1>16, StepCases
     DEF EnsureProcess

(* decoder.py:113-148: without threads that crowd one analyzer runs at a    *)
(* time, and none once the decoder is closed.                               *)
THEOREM OnlyCrowdLeaks == Spec => []CrowdAloneLeaks
<1>1. Init => Alone
  BY DecoderAssumption DEF Init, Alone, Crowd, Threads, Listener, Entering
<1>2. IInv /\ Alone /\ [Next]_vars => Alone'
  BY AloneKept DEF IInv
<1>3. Alone => CrowdAloneLeaks
  <2> SUFFICES ASSUME Alone, "crowd" \notin trouble
               PROVE  Cardinality(alive) <= 1 /\ (stopping = "closed" => alive = {})
    BY DEF CrowdAloneLeaks
  <2>1. alive = {} \/ alive = {process}
    BY DEF Alone
  <2>2. Cardinality(alive) <= 1
    <3>1. Cardinality({}) = 0 /\ Cardinality({process}) = 1
      BY FS_EmptySet, FS_Singleton
    <3> QED
      BY <2>1, <3>1
  <2> QED
    BY <2>2 DEF Alone
<1> QED
  BY <1>1, <1>2, <1>3, Inductive, PTL DEF Spec

---------------------------------------------------------------------------
(* Answers that go astray.                                                  *)

\* An answer can still come from what is at p.
Coming(p) == p = 0 \/ p \in alive \/ -p \in Analyzers

\* Without a late answer only the frame that is being decoded is answered.
InStep ==
    "late" \notin trouble =>
        /\ AnswerMatchesFrame
        /\ \A p \in Places : Coming(p) =>
              \A i \in 1..Len(Contents[p]) : Contents[p][i] \in Frames =>
                  Contents[p][i] = frame /\ pc[Listener] \in {"flush", "read"}

\* An analyzer that was never started was given nothing and printed nothing.
Untouched == \A a \in Analyzers : a > spawned => stdin[a] = <<>> /\ stdout[a] = <<>>

LEMMA UntouchedKept == TypeOK /\ Stages /\ Untouched /\ [Next]_vars => Untouched'
<1> SUFFICES ASSUME TypeOK, Stages, Untouched, [Next]_vars PROVE Untouched'
  OBVIOUS
<1>0. spawned \in Nat /\ \A a \in Analyzers : a \in Nat
  BY DEF TypeOK, Analyzers
<1>1. CASE Quietly
  <2>1. \A a \in Analyzers : a > spawned' => a > spawned
    BY <1>0, <1>1 DEF Quietly
  <2> QED
    BY <1>1, <2>1 DEF Untouched, Quietly, pipes
<1>2. CASE FrameArrives \/ Read
  BY <1>2 DEF Untouched, FrameArrives, Read, processes, pipes
<1>3. ASSUME NEW x \in {Undecoded, Raised}, ComesTo(x)
      PROVE  Untouched'
  BY <1>3 DEF Untouched, ComesTo, pipes
<1>4. ASSUME NEW a \in Analyzers, Sends(a)
      PROVE  Untouched'
  <2>1. ~(a > spawned) /\ UNCHANGED <<spawned, stdout>>
    BY <1>0, <1>4 DEF Sends, TypeOK
  <2>2. \A b \in Analyzers : b # a => stdin'[b] = stdin[b]
    BY <1>4 DEF Sends, Send, TypeOK
  <2> QED
    BY <2>1, <2>2 DEF Untouched
<1>5. ASSUME NEW a \in Analyzers, Analyze(a)
      PROVE  Untouched'
  <2>1. ~(a > spawned) /\ UNCHANGED spawned
    BY <1>5 DEF Analyze, Untouched, processes
  <2>2. \A b \in Analyzers : b # a => stdin'[b] = stdin[b] /\ stdout'[b] = stdout[b]
    BY <1>5 DEF Analyze, TypeOK
  <2> QED
    BY <2>1, <2>2 DEF Untouched
<1>6. ASSUME NEW a \in Analyzers, Babble(a)
      PROVE  Untouched'
  BY <1>6 DEF Untouched, Babble, processes
<1>7. ASSUME NEW a \in Analyzers, ReadLine(a)
      PROVE  Untouched'
  <2>1. ~(a > spawned) /\ UNCHANGED <<spawned, stdin>>
    <3>1. stdout[a] # <<>>
      BY <1>7, ReadLineMoves
    <3> QED
      BY <1>7, <3>1 DEF ReadLine, Untouched, processes
  <2>2. \A b \in Analyzers : b # a => stdout'[b] = stdout[b]
    BY <1>7 DEF ReadLine, TypeOK
  <2> QED
    BY <2>1, <2>2 DEF Untouched
<1> QED
  BY <1>1, <1>2, <1>3, <1>4, <1>5, <1>6, <1>7, Kinds

(* Only a frame's own answer, or none, is given to it.                      *)
LEMMA GivesMatch ==
    ASSUME TypeOK, Turn, AnswerMatchesFrame, pc[Listener] # "idle",
           NEW result \in {Undecoded, Raised, frame}, decoded' = Append(decoded, result)
    PROVE  AnswerMatchesFrame'
<1>1. frame = Len(decoded) + 1 /\ Len(decoded) \in Nat
  BY DEF Turn, TypeOK
<1>2. \A i \in 1..Len(decoded) : decoded'[i] = decoded[i]
  BY <1>1 DEF TypeOK
<1>3. Len(decoded') = frame /\ decoded'[frame] = result
  BY <1>1 DEF TypeOK
<1>4. ASSUME NEW i \in 1..Len(decoded'), decoded'[i] \in Frames
      PROVE  decoded'[i] = i
  <2>1. CASE i \in 1..Len(decoded)
    BY <1>2, <1>4, <2>1 DEF AnswerMatchesFrame, Answers
  <2>2. CASE i = frame
    BY <1>3, <1>4, <2>2 DEF Frames, Undecoded, Raised
  <2> QED
    BY <1>1, <1>3, <2>1, <2>2
<1> QED
  BY <1>4 DEF AnswerMatchesFrame, Answers

\* What InStep says of the answers that can still come.
OnTime ==
    \A p \in Places : Coming(p) =>
        \A i \in 1..Len(Contents[p]) : Contents[p][i] \in Frames =>
            Contents[p][i] = frame /\ pc[Listener] \in {"flush", "read"}

\* No answer is under way.
Silence ==
    \A p \in Places : Coming(p) => \A i \in 1..Len(Contents[p]) : Contents[p][i] \notin Frames

LEMMA NothingOwed == TypeOK /\ ~Owed => Silence
<1> SUFFICES ASSUME TypeOK, ~Owed, NEW p \in Places, Coming(p),
                    NEW i \in 1..Len(Contents[p]), Contents[p][i] \in Frames
             PROVE  FALSE
  BY DEF Silence
<1>1. alive \subseteq Analyzers
  BY DecoderAssumption DEF TypeOK, Analyzers
<1>2. CASE p = 0
  <2>1. Contents[0] = queue
    BY ContentsAre DEF Contents
  <2> QED
    BY <1>2, <2>1 DEF Owed, Frames, Junk
<1>3. CASE p \in alive
  <2>1. Contents[p] = stdin[p] /\ p \in Analyzers
    BY <1>1, <1>3, ContentsAre DEF Contents
  <2>2. stdin[p] # <<>>
    BY <2>1
  <2> QED
    BY <1>3, <2>1, <2>2 DEF Owed
<1>4. CASE -p \in Analyzers
  <2>1. -(-p) = p
    BY DecoderAssumption DEF Places, Given
  <2>2. Contents[p] = stdout[-p]
    BY <1>4, <2>1, ContentsAre DEF Contents
  <2>3. stdout[-p] # <<>>
    BY <2>2
  <2> QED
    BY <1>4, <2>3 DEF Owed
<1> QED
  BY <1>2, <1>3, <1>4 DEF Coming

(* What was on time and passes on is on time.                               *)
LEMMA PassingOnTime ==
    ASSUME TypeOK, OnTime, NEW p \in Places, NEW k \in 1..Len(Contents[p]), NEW q \in Places,
           Coming(p), Passes(Contents, p, k, q, Contents'), UNCHANGED <<pc, alive, frame>>
    PROVE  OnTime'
<1>1. PICK rest : /\ Took(Contents, p, k, rest)
                  /\ Contents' = rest \/ Put(rest, q, Contents[p][k], Contents')
  BY DEF Passes
<1>2. /\ Full(rest) /\ Contents[p][k] \in Marks
      /\ \A r \in Places : \A i \in 1..Len(rest[r]) :
            \E j \in 1..Len(Contents[r]) : rest[r][i] = Contents[r][j]
  BY <1>1, ContentsFull, TookHolds
<1>3. \A r \in Places : \A i \in 1..Len(Contents'[r]) :
         \/ \E j \in 1..Len(Contents[r]) : Contents'[r][i] = Contents[r][j]
         \/ Contents'[r][i] = Contents[p][k]
  <2>1. CASE Contents' = rest
    BY <1>2, <2>1
  <2>2. CASE Put(rest, q, Contents[p][k], Contents')
    <3>1. \A r \in Places : \A i \in 1..Len(Contents'[r]) :
             \/ i \in 1..Len(rest[r]) /\ Contents'[r][i] = rest[r][i]
             \/ Contents'[r][i] = Contents[p][k]
      BY <1>2, <2>2, PutHolds
    <3> QED
      BY <1>2, <3>1
  <2> QED
    BY <1>1, <2>1, <2>2
<1>4. \A r \in Places : Coming(r)' <=> Coming(r)
  BY DEF Coming
<1> QED
  BY <1>3, <1>4 DEF OnTime

LEMMA InStepKept ==
    TypeOK /\ TypeOK' /\ Stages /\ Ordered /\ Untouched /\ InStep /\ [Next]_vars => InStep'
<1> SUFFICES ASSUME TypeOK, TypeOK', Stages, Ordered, Untouched, InStep, [Next]_vars,
                    "late" \notin trouble'
             PROVE  AnswerMatchesFrame' /\ OnTime'
  BY DEF InStep, OnTime
<1>1. "late" \notin trouble
  BY DEF Next, Watch, vars
<1>2. OnTime /\ AnswerMatchesFrame /\ Turn
  BY <1>1 DEF InStep, OnTime, Ordered
<1>3. ASSUME UNCHANGED decoded
      PROVE  AnswerMatchesFrame'
  BY <1>2, <1>3 DEF AnswerMatchesFrame, Answers
<1>4. pc[Listener] \in Labels /\ Full(Contents) /\ 0 \in Places /\ Given \in Places
  BY ContentsFull, PlacesAre DEF TypeOK, Labels, Threads
<1>5. CASE Quietly
  <2>1. Contents' = Contents /\ UNCHANGED <<frame, decoded>>
    BY <1>5 DEF Quietly, Contents, pipes, platform
  <2>2. pc[Listener] \in {"flush", "read"} => pc'[Listener] \in {"flush", "read"}
    <3>1. pc[Listener] \in {"flush", "read"} =>
             pc'[Listener] \in Labels /\ pc'[Listener] \notin Early /\ pc'[Listener] # "idle"
      BY <1>5 DEF Quietly, Early, Entering, TypeOK, Labels, Threads
    <3>2. pc'[Listener] # "answer"
      BY StagesKept DEF Stages
    <3> QED
      BY <3>1, <3>2 DEF Labels, Early
  <2>3. ASSUME NEW p \in Places, Coming(p)', ~Coming(p)
        PROVE  Contents[p] = <<>>
    <3>1. p = spawned + 1 /\ p \in alive'
      BY <1>5, <2>3 DEF Coming, Quietly
    <3>2. p \in Analyzers /\ p > spawned
      BY <3>1, DecoderAssumption DEF TypeOK, Analyzers
    <3> QED
      BY <3>2, ContentsAre DEF Untouched, Contents
  <2> QED
    BY <1>2, <1>3, <2>1, <2>2, <2>3 DEF OnTime
<1>6. CASE FrameArrives
  <2>1. pc[Listener] = "idle" /\ Contents' = Contents /\ UNCHANGED <<alive, decoded>>
    BY <1>6 DEF FrameArrives, Contents, pipes, processes
  <2> QED
    BY <1>2, <1>3, <2>1 DEF OnTime, Coming
<1>7. ASSUME NEW x \in {Undecoded, Raised}, ComesTo(x)
      PROVE  AnswerMatchesFrame' /\ OnTime'
  <2>1. decoded' = Append(decoded, x) /\ pc[Listener] # "idle"
    BY <1>7, NothingMoves
  <2>2. AnswerMatchesFrame'
    BY <1>2, <2>1, GivesMatch
  <2>3. decoded' # decoded /\ decoded'[Len(decoded')] = x
    BY <2>1 DEF TypeOK
  <2>4. ~Owed'
    BY <1>7, <2>3 DEF Next, Watch, vars, program, platform, GivesUp, ComesTo
  <2>5. Silence'
    <3>1. TypeOK' /\ ~Owed' => Silence'
      BY NothingOwed, PTL
    <3> QED
      BY <2>4, <3>1
  <2> QED
    BY <2>2, <2>5 DEF OnTime, Silence
<1>8. ASSUME NEW a \in Analyzers, Sends(a)
      PROVE  AnswerMatchesFrame' /\ OnTime'
  <2>1. /\ a \in Places /\ frame \in Frames
        /\ pc[Listener] \in Early /\ pc'[Listener] = "flush"
        /\ UNCHANGED <<alive, frame, decoded>>
        /\ Put(Contents, a, frame, Contents')
    BY <1>2, <1>8, SendsMoves
  <2>2. \A p \in Places : \A i \in 1..Len(Contents'[p]) :
           \/ i \in 1..Len(Contents[p]) /\ Contents'[p][i] = Contents[p][i]
           \/ Contents'[p][i] = frame
    BY <1>4, <2>1, PutHolds DEF Marks, Lines
  <2>3. \A p \in Places : Coming(p)' <=> Coming(p)
    BY <2>1 DEF Coming
  <2> QED
    BY <1>2, <1>3, <2>1, <2>2, <2>3 DEF OnTime
<1>9. ASSUME NEW a \in Analyzers, Babble(a)
      PROVE  AnswerMatchesFrame' /\ OnTime'
  <2>1. UNCHANGED <<pc, alive, frame, decoded>> /\ Put(Contents, 0, Junk, Contents')
    BY <1>9, BabbleMoves
  <2>2. Junk \in Marks /\ Junk \notin Frames
    BY DEF Marks, Lines, Junk, Frames
  <2>3. \A p \in Places : \A i \in 1..Len(Contents'[p]) :
           \/ i \in 1..Len(Contents[p]) /\ Contents'[p][i] = Contents[p][i]
           \/ Contents'[p][i] = Junk
    BY <1>4, <2>1, <2>2, PutHolds
  <2>4. \A p \in Places : Coming(p)' <=> Coming(p)
    BY <2>1 DEF Coming
  <2> QED
    BY <1>2, <1>3, <2>1, <2>2, <2>3, <2>4 DEF OnTime
<1>10. ASSUME NEW a \in Analyzers, Analyze(a)
       PROVE  AnswerMatchesFrame' /\ OnTime'
  <2>1. Coming(a)
    BY <1>10, AnalyzeMoves DEF Coming
  <2> QED
    BY <1>2, <1>3, <1>10, <2>1, AnalyzeMoves, PassingOnTime
<1>11. ASSUME NEW a \in Analyzers, ReadLine(a)
       PROVE  AnswerMatchesFrame' /\ OnTime'
  <2>1. Coming(-a)
    BY DEF Coming, Analyzers
  <2> QED
    BY <1>2, <1>3, <1>11, <2>1, ReadLineMoves, PassingOnTime
<1>12. CASE Read
  <2>1. /\ 1 \in 1..Len(Contents[0]) /\ Contents[0][1] = Head(queue) /\ Head(queue) \in Lines
        /\ pc[Listener] = "read" /\ UNCHANGED <<alive, frame>>
        /\ Head(queue) = Junk => UNCHANGED <<pc, decoded>>
        /\ Head(queue) # Junk => decoded' = Append(decoded, Head(queue))
    BY <1>12, ReadMoves
  <2>2. PICK rest : /\ Took(Contents, 0, 1, rest)
                    /\ Head(queue) = Junk => Contents' = rest
                    /\ Head(queue) # Junk => Put(rest, Given, Head(queue), Contents')
    BY <1>12, ReadMoves
  <2>3. Coming(0) /\ \A p \in Places : Coming(p)' <=> Coming(p)
    BY <2>1 DEF Coming
  <2>4. CASE Head(queue) = Junk
    <3>1. Passes(Contents, 0, 1, Given, Contents')
      BY <2>2, <2>4 DEF Passes
    <3> QED
      BY <1>2, <1>3, <1>4, <2>1, <2>3, <2>4, <3>1, PassingOnTime
  <2>5. CASE Head(queue) # Junk
    <3>1. Head(queue) = frame /\ frame \in Frames
      BY <1>2, <1>4, <2>1, <2>3, <2>5 DEF OnTime, Lines
    <3>2. AnswerMatchesFrame'
      BY <1>2, <2>1, <2>5, <3>1, GivesMatch
    <3>3. Full(rest) /\ Nowhere(frame, rest)
      BY <1>4, <2>1, <2>2, <3>1, TakeOne DEF Ordered
    <3>4. \A p \in Places : \A i \in 1..Len(rest[p]) :
             \E j \in 1..Len(Contents[p]) : rest[p][i] = Contents[p][j]
      BY <1>4, <2>1, <2>2, TookHolds
    <3>5. \A p \in Places : p # Given => Contents'[p] = rest[p]
      BY <2>2, <2>5, <3>1, <3>3, <1>4, PutHolds DEF Marks, Lines
    <3>6. ~Coming(Given)
      <4>1. Given # 0 /\ Given \notin Analyzers /\ alive \subseteq Analyzers
        BY DecoderAssumption DEF Given, Analyzers, TypeOK
      <4>2. -Given \notin Analyzers
        BY DecoderAssumption DEF Given, Analyzers
      <4> QED
        BY <4>1, <4>2 DEF Coming
    <3>7. ASSUME NEW p \in Places, Coming(p)', NEW i \in 1..Len(Contents'[p]), Contents'[p][i] \in Frames
          PROVE  FALSE
      <4>1. p # Given /\ Coming(p)
        BY <2>3, <3>6, <3>7, <1>4
      <4>2. i \in 1..Len(rest[p]) /\ rest[p][i] \in Frames /\ rest[p][i] # frame
        BY <3>3, <3>5, <3>7, <4>1 DEF Nowhere
      <4> QED
        BY <1>2, <3>4, <4>1, <4>2 DEF OnTime
    <3> QED
      BY <3>2, <3>7 DEF OnTime
  <2> QED
    BY <2>4, <2>5
<1> QED
  BY <1>5, <1>6, <1>7, <1>8, <1>9, <1>10, <1>11, <1>12, Kinds

(* decoder.py:158-169: a late answer is all that can pair a frame with the  *)
(* wrong one.                                                               *)
THEOREM OnlyLatenessMispairs == Spec => []LatenessAloneMispairs
<1>1. Init => Untouched /\ InStep
  <2> SUFFICES ASSUME Init PROVE Untouched /\ InStep
    OBVIOUS
  <2>1. \A p \in Places : Contents[p] = <<>>
    BY InitEmpty
  <2> QED
    BY <2>1 DEF Init, Untouched, InStep, AnswerMatchesFrame, Answers
<1>2. IInv /\ IInv' /\ Untouched /\ InStep /\ [Next]_vars => Untouched' /\ InStep'
  BY UntouchedKept, InStepKept DEF IInv
<1>3. InStep => LatenessAloneMispairs
  BY DEF InStep, LatenessAloneMispairs
<1> QED
  BY <1>1, <1>2, <1>3, Inductive, PTL DEF Spec

---------------------------------------------------------------------------
(* VesselTelemetry: the way of what was decoded to the dashboard.           *)

(* The decoder's part of every step is a step of the decoder or none.       *)
LEMMA DecoderInside == TelemetrySpec => Spec
<1>1. TelemetryInit => Init
  BY DEF TelemetryInit
<1>2. [TelemetryNext]_allVars => [Next]_vars
  BY DEF TelemetryNext, DecoderStep, Handle, allVars
<1> QED
  BY <1>1, <1>2, PTL DEF TelemetrySpec, Spec

(* decoder.py:77-107, platform.py:105-115: the decoder under the dashboard  *)
(* implements its contract.                                                 *)
THEOREM ContractKeptBelow == TelemetrySpec => KeepsContract
BY DecoderInside, ContractKept

---------------------------------------------------------------------------
(* What the decoder may do to the results.                                  *)

LEMMA OnlyAppends ==
    ASSUME TypeOK, Stages, [Next]_vars
    PROVE  decoded' = decoded \/ \E result : decoded' = Append(decoded, result)
<1>1. CASE Quietly \/ FrameArrives
  BY <1>1 DEF Quietly, FrameArrives, platform
<1>2. ASSUME NEW x \in {Undecoded, Raised}, ComesTo(x)
      PROVE  \E result : decoded' = Append(decoded, result)
  BY <1>2 DEF ComesTo, Decoded
<1>3. ASSUME NEW a \in Analyzers, Sends(a) \/ Analyze(a) \/ Babble(a) \/ ReadLine(a)
      PROVE  decoded' = decoded
  BY <1>3 DEF Sends, Send, Analyze, Babble, ReadLine, platform
<1>4. CASE Read
  BY <1>4 DEF Read, Decoded
<1> QED
  BY <1>1, <1>2, <1>3, <1>4, Kinds

---------------------------------------------------------------------------
(* Types.                                                                   *)

LEMMA RecordType ==
    ASSUME TelemetryTypeOK, NEW n \in 0..MaxFrames, NEW m \in 0..MaxFrames, Record(n, m)
    PROVE  vessel' \in [Readings -> Value]
BY DEF Record, TelemetryTypeOK, Value

\* on_can_event is not done with more frames than decode has returned for.
LEMMA TelemetryTypeKept ==
    TelemetryTypeOK /\ Turn /\ Stages /\ TypeOK' /\ [TelemetryNext]_allVars => TelemetryTypeOK'
<1> SUFFICES ASSUME TelemetryTypeOK, Turn, Stages, TypeOK', [TelemetryNext]_allVars
             PROVE  shows' \in Voyages /\ handled' \in 0..Len(decoded') /\ vessel' \in [Readings -> Value]
  BY DEF TelemetryTypeOK
<1>1. /\ Len(decoded) \in Nat /\ Len(decoded') \in Nat /\ handled \in Nat /\ handled <= Len(decoded)
      /\ Len(decoded) <= MaxFrames
  <2>1. Len(decoded) \in Nat /\ Len(decoded') \in Nat
    <3>1. decoded \in Seq(Frames \cup {Undecoded, Raised})
      BY DEF TelemetryTypeOK, TypeOK
    <3>2. decoded' \in Seq(Frames \cup {Undecoded, Raised})
      BY DEF TypeOK
    <3>3. \A s \in Seq(Frames \cup {Undecoded, Raised}) : Len(s) \in Nat
      OBVIOUS
    <3> QED
      BY <3>1, <3>2, <3>3
  <2>2. handled \in Nat /\ handled <= Len(decoded)
    BY <2>1 DEF TelemetryTypeOK
  <2>3. Len(decoded) <= frame /\ frame \in 0..MaxFrames
    BY <2>1 DEF TelemetryTypeOK, TypeOK, Turn
  <2> QED
    BY <2>1, <2>2, <2>3, DecoderAssumption
<1>2. CASE UNCHANGED allVars
  BY <1>2 DEF allVars, vars, program, platform, telemetryVars, TelemetryTypeOK
<1>3. CASE DecoderStep
  <2>1. UNCHANGED <<shows, handled, vessel>> /\ [Next]_vars
    BY <1>3 DEF DecoderStep, telemetryVars
  <2>2. Len(decoded') >= Len(decoded)
    BY <1>1, <2>1, OnlyAppends DEF TelemetryTypeOK
  <2> QED
    BY <1>1, <2>1, <2>2 DEF TelemetryTypeOK
<1>4. CASE Handle
  <2>1. UNCHANGED <<shows, decoded>> /\ handled' = handled + 1 /\ handled < Len(decoded)
    BY <1>4 DEF Handle, vars, program, platform
  <2>2. handled' \in 0..MaxFrames /\ Frames \subseteq 0..MaxFrames
    BY <1>1, <2>1, DecoderAssumption DEF Frames
  <2>3. vessel' \in [Readings -> Value]
    BY <1>4, <2>2, RecordType DEF Handle, TelemetryTypeOK
  <2> QED
    BY <1>1, <2>1, <2>3 DEF TelemetryTypeOK
<1> QED
  BY <1>2, <1>3, <1>4 DEF TelemetryNext

LEMMA TypeInit == TelemetryInit => TelemetryTypeOK
<1> SUFFICES ASSUME TelemetryInit PROVE TelemetryTypeOK
  OBVIOUS
<1>1. TypeOK
  BY InitHolds DEF TelemetryInit, IInv
<1>2. handled \in 0..Len(decoded)
  BY DEF TelemetryInit, Init
<1>3. vessel \in [Readings -> Value]
  <2>1. NoValue \in Value
    BY DecoderAssumption DEF NoValue, Value
  <2> QED
    BY <2>1 DEF TelemetryInit
<1> QED
  BY <1>1, <1>2, <1>3 DEF TelemetryTypeOK, TelemetryInit

(* Every variable keeps its type.                                           *)
THEOREM TelemetryTypeCorrect == TelemetrySpec => []TelemetryTypeOK
<1>1. IInv' => TypeOK'
  BY DEF IInv
<1>2. IInv => Turn /\ Stages
  BY DEF IInv, Ordered
<1> QED
  BY <1>1, <1>2, TypeInit, TelemetryTypeKept, DecoderInside, Inductive, PTL DEF TelemetrySpec

---------------------------------------------------------------------------
(* The age of what is shown.                                                *)

\* No frame is given the answer of a later one.
NotAhead == \A i \in 1..Len(decoded) : decoded[i] <= i

LEMMA NotAheadKept == TypeOK /\ NotAhead /\ [Contract!Next]_contract => NotAhead'
<1> SUFFICES ASSUME TypeOK, NotAhead, [Contract!Next]_contract PROVE NotAhead'
  OBVIOUS
<1>1. CASE UNCHANGED decoded
  BY <1>1 DEF NotAhead
<1>2. CASE Contract!Give
  <2>1. PICK result \in Contract!Fresh \cup {Undecoded, Raised} : decoded' = Append(decoded, result)
    BY <1>2 DEF Contract!Give
  <2>2. frame = Len(decoded) + 1 /\ Len(decoded) \in Nat
    BY <1>2 DEF Contract!Give, TypeOK
  <2>3. result <= Len(decoded) + 1
    <3>1. CASE result \in Contract!Fresh
      BY <2>2, <3>1 DEF Contract!Fresh
    <3>2. CASE result \in {Undecoded, Raised}
      BY <2>2, <3>2 DEF Undecoded, Raised
    <3> QED
      BY <3>1, <3>2
  <2>4. /\ Len(decoded') = Len(decoded) + 1 /\ decoded'[Len(decoded) + 1] = result
        /\ \A i \in 1..Len(decoded) : decoded'[i] = decoded[i]
    BY <2>1, <2>2 DEF TypeOK
  <2>5. ASSUME NEW i \in 1..Len(decoded') PROVE decoded'[i] <= i
    <3>1. CASE i \in 1..Len(decoded)
      BY <2>4, <3>1 DEF NotAhead
    <3>2. CASE i = Len(decoded) + 1
      BY <2>3, <2>4, <3>2
    <3> QED
      BY <2>2, <2>4, <3>1, <3>2
  <2> QED
    BY <2>5 DEF NotAhead
<1> QED
  BY <1>1, <1>2 DEF Contract!Next, Contract!Ask, contract

\* Once an answer was late, that is not forgotten.
LEMMA LateForGood == [Next]_vars => ("late" \in trouble => "late" \in trouble')
BY DEF Next, Watch, vars

\* The age of one reading.
Aged(value) == /\ value.from <= value.stamp
               /\ "late" \notin trouble => value.from = value.stamp

LEMMA AgesKept ==
    /\ TelemetryTypeOK /\ NotAhead /\ LatenessAloneMispairs /\ LatenessAloneRejuvenates
    /\ [TelemetryNext]_allVars
    => LatenessAloneRejuvenates'
<1> SUFFICES ASSUME TelemetryTypeOK, NotAhead, LatenessAloneMispairs, LatenessAloneRejuvenates,
                    [TelemetryNext]_allVars, NEW r \in Readings
             PROVE  Aged(vessel[r])'
  BY DEF LatenessAloneRejuvenates, Aged
<1>1. Aged(vessel[r]) /\ (vessel[r] = vessel'[r] => Aged(vessel[r])')
  <2>1. "late" \in trouble => "late" \in trouble'
    BY LateForGood DEF TelemetryNext, DecoderStep, Handle, allVars
  <2> QED
    BY <2>1 DEF LatenessAloneRejuvenates, Aged
<1>2. CASE UNCHANGED telemetryVars
  BY <1>1, <1>2 DEF telemetryVars
<1>3. CASE Handle
  <2>1. /\ UNCHANGED <<decoded, trouble>> /\ handled' \in 1..Len(decoded)
        /\ vessel' = vessel \/ (decoded[handled'] \in Frames /\ Record(decoded[handled'], handled'))
    BY <1>3 DEF Handle, vars, program, platform, TelemetryTypeOK, TypeOK
  <2>2. CASE vessel' = vessel
    BY <1>1, <2>2
  <2>3. CASE decoded[handled'] \in Frames /\ Record(decoded[handled'], handled')
    <3>1. vessel'[r] = vessel[r]
          \/ vessel'[r] = [from |-> decoded[handled'], stamp |-> handled']
      BY <2>3 DEF Record
    <3>2. decoded[handled'] <= handled'
      BY <2>1 DEF NotAhead
    <3>3. "late" \notin trouble => decoded[handled'] = handled'
      BY <2>1, <2>3 DEF LatenessAloneMispairs, AnswerMatchesFrame, Answers
    <3>4. CASE vessel'[r] = [from |-> decoded[handled'], stamp |-> handled']
      BY <2>1, <3>2, <3>3, <3>4 DEF Aged
    <3> QED
      BY <1>1, <3>1, <3>4
  <2> QED
    BY <2>1, <2>2, <2>3
<1> QED
  BY <1>2, <1>3 DEF TelemetryNext, DecoderStep, allVars

(* web-ui-and-http.md: a value on the dashboard is never shown as older than*)
(* it is, and as younger only when an answer was late.                      *)
THEOREM AgesAreTrue == TelemetrySpec => []LatenessAloneRejuvenates
<1>1. Init => NotAhead
  BY DEF Init, NotAhead
<1>2. IInv /\ NotAhead /\ [Next]_vars => NotAhead'
  BY StepKeepsContract, NotAheadKept DEF IInv
<1>3. TelemetryInit => LatenessAloneRejuvenates
  BY DEF TelemetryInit, LatenessAloneRejuvenates, NoValue
<1>4. Spec => []NotAhead
  BY <1>1, <1>2, Inductive, PTL DEF Spec
<1> QED
  BY <1>3, <1>4, AgesKept, TelemetryTypeCorrect, OnlyLatenessMispairs, DecoderInside, PTL
     DEF TelemetrySpec

---------------------------------------------------------------------------
(* The order of the answers of one analyzer.  The places are in a line:     *)
(* a frame goes from the stdin to the stdout, to the queue, to the results, *)
(* so what lies ahead is always of an earlier frame.                        *)

\* What is at p was printed, or is to be, before what is at q: an answer goes
\* from an analyzer's stdin to its stdout, to the queue and to the results.
Ahead(p, q) ==
    \/ p = Given /\ q # Given
    \/ p = 0 /\ q \notin {Given, 0}
    \/ -p \in Analyzers /\ q \in Analyzers

\* One line: the frames come in their order wherever they are.
Sorted(held) ==
    \A p, q \in Places : \A i \in 1..Len(held[p]), j \in 1..Len(held[q]) :
        held[p][i] \in Frames /\ held[q][j] \in Frames /\ (Ahead(p, q) \/ (p = q /\ i < j))
            => held[p][i] < held[q][j]

\* A frame n has its turn at p: what is ahead of p is earlier, what is behind
\* it later.
Before(n, p, held) ==
    \A q \in Places : Ahead(q, p) =>
        \A i \in 1..Len(held[q]) : held[q][i] \in Frames => held[q][i] < n

After(n, p, held) ==
    \A q \in Places : Ahead(p, q) =>
        \A i \in 1..Len(held[q]) : held[q][i] \in Frames => n < held[q][i]

Last(n, p, held) == \A i \in 1..Len(held[p]) : held[p][i] \in Frames => held[p][i] < n

First(n, p, held) == \A i \in 1..Len(held[p]) : held[p][i] \in Frames => n < held[p][i]

(* Taking the head of one place keeps the order, and it had its turn there. *)
LEMMA TakeSorted ==
    ASSUME NEW held, Full(held), Sorted(held),
           NEW p \in Places, 1 \in 1..Len(held[p]),
           NEW rest, Took(held, p, 1, rest)
    PROVE  /\ Full(rest)
           /\ Sorted(rest)
           /\ held[p][1] \in Marks
           /\ held[p][1] \in Frames => /\ Before(held[p][1], p, rest)
                                       /\ First(held[p][1], p, rest)
                                       /\ After(held[p][1], p, rest)
           /\ \A q \in Places : q # p => rest[q] = held[q]
<1>1. /\ Full(rest) /\ held[p][1] \in Marks
      /\ \A q \in Places : Len(rest[q]) \in Nat /\ Len(held[q]) \in Nat
      /\ \A q \in Places : q # p => rest[q] = held[q]
  BY TookHolds
<1>2. \A q \in Places : \A i \in 1..Len(rest[q]) :
         \E j \in 1..Len(held[q]) : rest[q][i] = held[q][j] /\ j = IF q = p THEN i + 1 ELSE i
  <2>1. \A q \in Places : \A i \in 1..Len(rest[q]) :
           \E j \in 1..Len(held[q]) : /\ rest[q][i] = held[q][j]
                                      /\ j = IF q = p /\ i >= 1 THEN i + 1 ELSE i
    BY TookHolds
  <2>2. \A q \in Places : \A i \in 1..Len(rest[q]) : i >= 1
    BY <1>1
  <2> QED
    BY <2>1, <2>2
<1>3. Sorted(rest)
  <2> SUFFICES ASSUME NEW q \in Places, NEW r \in Places,
                      NEW i \in 1..Len(rest[q]), NEW j \in 1..Len(rest[r]),
                      rest[q][i] \in Frames, rest[r][j] \in Frames,
                      Ahead(q, r) \/ (q = r /\ i < j)
               PROVE  rest[q][i] < rest[r][j]
    BY DEF Sorted
  <2>1. PICK k \in 1..Len(held[q]) : rest[q][i] = held[q][k] /\ k = IF q = p THEN i + 1 ELSE i
    BY <1>2
  <2>2. PICK l \in 1..Len(held[r]) : rest[r][j] = held[r][l] /\ l = IF r = p THEN j + 1 ELSE j
    BY <1>2
  <2>3. q = r /\ i < j => k < l
    BY <1>1, <2>1, <2>2
  <2> QED
    BY <2>1, <2>2, <2>3 DEF Sorted
<1>4. ASSUME held[p][1] \in Frames
      PROVE  Before(held[p][1], p, rest) /\ First(held[p][1], p, rest) /\ After(held[p][1], p, rest)
  <2>1. ASSUME NEW q \in Places, NEW i \in 1..Len(rest[q]), rest[q][i] \in Frames
        PROVE  /\ Ahead(q, p) => rest[q][i] < held[p][1]
               /\ Ahead(p, q) \/ p = q => held[p][1] < rest[q][i]
    <3>1. PICK k \in 1..Len(held[q]) : rest[q][i] = held[q][k] /\ k = IF q = p THEN i + 1 ELSE i
      BY <1>2
    <3>2. q = p => 1 < k
      BY <1>1, <3>1
    <3> QED
      BY <1>4, <2>1, <3>1, <3>2 DEF Sorted
  <2> QED
    BY <2>1 DEF Before, First, After
<1> QED
  BY <1>1, <1>3, <1>4

(* Appending what is no frame, or a frame whose turn it is there.           *)
LEMMA PutSorted ==
    ASSUME NEW held, Full(held), Sorted(held),
           NEW p \in Places, NEW x \in Marks,
           x \in Frames => Before(x, p, held) /\ Last(x, p, held) /\ After(x, p, held),
           NEW longer, Put(held, p, x, longer), ~Ahead(p, p)
    PROVE  Sorted(longer)
<1>1. /\ Full(longer)
      /\ \A q \in Places : Len(longer[q]) \in Nat /\ Len(held[q]) \in Nat
  BY PutHolds
<1>2. \A q \in Places : \A i \in 1..Len(longer[q]) :
         \/ i \in 1..Len(held[q]) /\ longer[q][i] = held[q][i]
         \/ q = p /\ i = Len(held[p]) + 1 /\ longer[q][i] = x
  BY PutHolds
<1> SUFFICES ASSUME NEW q \in Places, NEW r \in Places,
                    NEW i \in 1..Len(longer[q]), NEW j \in 1..Len(longer[r]),
                    longer[q][i] \in Frames, longer[r][j] \in Frames,
                    Ahead(q, r) \/ (q = r /\ i < j)
             PROVE  longer[q][i] < longer[r][j]
  BY DEF Sorted
<1>3. CASE i \in 1..Len(held[q]) /\ longer[q][i] = held[q][i]
           /\ j \in 1..Len(held[r]) /\ longer[r][j] = held[r][j]
  BY <1>3 DEF Sorted
<1>4. CASE i \in 1..Len(held[q]) /\ longer[q][i] = held[q][i]
           /\ r = p /\ j = Len(held[p]) + 1 /\ longer[r][j] = x
  BY <1>4 DEF Before, Last
<1>5. CASE q = p /\ i = Len(held[p]) + 1 /\ longer[q][i] = x
           /\ j \in 1..Len(held[r]) /\ longer[r][j] = held[r][j]
  <2>1. ~(q = r /\ i < j)
    BY <1>1, <1>5
  <2> QED
    BY <1>5, <2>1 DEF After
<1>6. CASE q = p /\ i = Len(held[p]) + 1 /\ r = p /\ j = Len(held[p]) + 1
  BY <1>1, <1>6
<1> QED
  BY <1>2, <1>3, <1>4, <1>5, <1>6

\* A frame n may be put last at p.
Fits(n, p, held) == Before(n, p, held) /\ Last(n, p, held) /\ After(n, p, held)

\* What is taken at p and put at q keeps its turn: no place lies between them.
NextTo(p, q, held) ==
    /\ \A r \in Places : Ahead(r, q) \/ r = q => Ahead(r, p)
    /\ \A r \in Places : Ahead(q, r) => r = p \/ Ahead(p, r) \/ held[r] = <<>>

LEMMA NextFits ==
    ASSUME NEW held, Full(held), NEW n, NEW p \in Places, NEW q \in Places,
           Before(n, p, held), First(n, p, held), After(n, p, held), NextTo(p, q, held)
    PROVE  Fits(n, q, held)
<1>1. Before(n, q, held) /\ Last(n, q, held)
  BY DEF Before, Last, NextTo
<1>2. ASSUME NEW r \in Places, Ahead(q, r), NEW i \in 1..Len(held[r]), held[r][i] \in Frames
      PROVE  n < held[r][i]
  <2>1. CASE r = p
    BY <1>2, <2>1 DEF First
  <2>2. CASE Ahead(p, r)
    BY <1>2, <2>2 DEF After
  <2>3. CASE held[r] = <<>>
    BY <1>2, <2>3
  <2> QED
    BY <1>2, <2>1, <2>2, <2>3 DEF NextTo
<1> QED
  BY <1>1, <1>2 DEF Fits, After

\* What is ahead of what.
LEMMA AheadIs ==
    /\ \A p \in Places : ~Ahead(p, p)
    /\ \A p \in Places : ~Ahead(p, Given) /\ (p # Given => Ahead(Given, p))
    /\ \A p \in Places : Ahead(p, 0) <=> p = Given
    /\ \A a \in Analyzers : \A p \in Places :
          /\ Ahead(p, -a) <=> p \in {Given, 0}
          /\ Ahead(p, a) <=> p \in {Given, 0} \/ -p \in Analyzers
          /\ ~Ahead(a, p)
          /\ Ahead(-a, p) <=> p \in Analyzers
    /\ \A p \in Places : Ahead(0, p) <=> p \notin {Given, 0}
BY PlacesAre, DecoderAssumption DEF Ahead, Places, Given, Analyzers

\* Of one analyzer's pipes no other is a rival.
LEMMA OthersEmpty ==
    ASSUME TypeOK, Untouched, spawned <= 1, NEW a \in Analyzers, stdin[a] # <<>> \/ stdout[a] # <<>>
    PROVE  \A b \in Analyzers : b # a => stdin[b] = <<>> /\ stdout[b] = <<>>
<1>1. spawned \in Nat /\ a \in Nat /\ ~(a > spawned)
  BY DecoderAssumption DEF TypeOK, Untouched, Analyzers
<1>2. \A b \in Analyzers : b # a => b > spawned
  BY <1>1, DecoderAssumption DEF Analyzers
<1> QED
  BY <1>2 DEF Untouched

\* The stations of a frame are next to one another.
LEMMA QueueNextTo ==
    ASSUME NEW held
    PROVE  NextTo(0, Given, held)
BY AheadIs, PlacesAre DEF NextTo

LEMMA StdoutNextTo ==
    ASSUME NEW held, NEW a \in Analyzers,
           \A b \in Analyzers : b # a => held[-b] = <<>>
    PROVE  NextTo(-a, 0, held)
<1>1. \A r \in Places : Ahead(r, 0) \/ r = 0 => Ahead(r, -a)
  BY AheadIs
<1>2. ASSUME NEW r \in Places, Ahead(0, r), r # -a, ~Ahead(-a, r)
      PROVE  held[r] = <<>>
  <2>1. -r \in Analyzers /\ -(-r) = r /\ -r # a
    BY <1>2, AheadIs, PlacesAre, DecoderAssumption DEF Places, Given, Analyzers
  <2> QED
    BY <2>1
<1> QED
  BY <1>1, <1>2 DEF NextTo

LEMMA StdinNextTo ==
    ASSUME NEW held, NEW a \in Analyzers,
           \A b \in Analyzers : b # a => held[b] = <<>>
    PROVE  NextTo(a, -a, held)
<1>1. -a \in Places /\ -(-a) = a
  BY PlacesAre, DecoderAssumption DEF Analyzers
<1> QED
  BY <1>1, AheadIs DEF NextTo

(* What is taken at p and put at the next place, or lost, keeps the order.  *)
LEMMA PassingSorted ==
    ASSUME NEW held, Full(held), Sorted(held),
           NEW p \in Places, 1 \in 1..Len(held[p]), NEW q \in Places, p # q,
           NEW rest, Took(held, p, 1, rest), NextTo(p, q, rest)
    PROVE  /\ Sorted(rest)
           /\ \A after : Put(rest, q, held[p][1], after) => Sorted(after)
<1>1. /\ Full(rest) /\ Sorted(rest) /\ held[p][1] \in Marks
      /\ held[p][1] \in Frames => /\ Before(held[p][1], p, rest)
                                  /\ First(held[p][1], p, rest)
                                  /\ After(held[p][1], p, rest)
  BY TakeSorted
<1>2. held[p][1] \in Frames => Fits(held[p][1], q, rest)
  BY <1>1, NextFits
<1>3. ~Ahead(q, q)
  BY AheadIs
<1>4. ASSUME NEW after, Put(rest, q, held[p][1], after)
      PROVE  Sorted(after)
  BY <1>1, <1>2, <1>3, <1>4, PutSorted DEF Fits
<1> QED
  BY <1>1, <1>4

\* One reader at most is started for the only analyzer there ever was.
OneReader ==
    spawned <= 1 =>
        /\ \A a \in Analyzers : readers[a] <= 1
        /\ \A t \in Threads : pc[t] = "readers" =>
               /\ spawned = 1
               /\ \A a \in Analyzers : readers[a] = 0
               /\ \A u \in Threads : pc[u] = "readers" => u = t
        /\ spawned = 0 => \A a \in Analyzers : readers[a] = 0

LEMMA OneReaderKept == TypeOK /\ OneReader /\ [Next]_vars => OneReader'
<1> SUFFICES ASSUME TypeOK, OneReader, [Next]_vars PROVE OneReader'
  OBVIOUS
<1>1. ASSUME UNCHANGED <<spawned, readers>>,
             \A t \in Threads : pc'[t] = "readers" => pc[t] = "readers"
      PROVE  OneReader'
  BY <1>1 DEF OneReader
<1>2. CASE UNCHANGED vars
  BY <1>1, <1>2 DEF vars, program, processes
<1> SUFFICES ASSUME Next PROVE OneReader'
  BY <1>2
<1>3. /\ pc \in [Threads -> Labels] /\ Listener \in Threads /\ Checkers \subseteq Threads
      /\ readers \in [Analyzers -> Nat] /\ spawned \in Nat
  BY DEF TypeOK, Labels, Threads
<1>4. ASSUME UNCHANGED <<spawned, readers>>,
             NEW t \in Threads, NEW label \in Labels \ {"readers"}, Goto(t, label)
      PROVE  OneReader'
  <2>1. \A u \in Threads : pc'[u] = "readers" => pc[u] = "readers"
    BY <1>3, <1>4 DEF Goto
  <2> QED
    BY <1>1, <1>4, <2>1
<1>5. ASSUME NEW t \in Threads, Spawn(t)
      PROVE  OneReader'
  <2>1. spawned' = spawned + 1 /\ UNCHANGED readers /\ pc' = [pc EXCEPT ![t] = "readers"]
    BY <1>5 DEF Spawn, Goto
  <2> SUFFICES ASSUME spawned = 0 PROVE OneReader'
    BY <1>3, <2>1 DEF OneReader
  <2>2. \A a \in Analyzers : readers[a] = 0
    BY DEF OneReader
  <2>3. \A u \in Threads : pc'[u] = "readers" => u = t
    BY <1>3, <2>1 DEF OneReader
  <2> QED
    BY <2>1, <2>2, <2>3 DEF OneReader
<1>6. ASSUME NEW t \in Threads, StartReader(t), process # None
      PROVE  OneReader'
  <2>1. /\ pc[t] = "readers" /\ pc' = [pc EXCEPT ![t] = "stderr"]
        /\ readers' = [readers EXCEPT ![process] = @ + 1] /\ UNCHANGED spawned
    BY <1>6 DEF StartReader, Goto
  <2> SUFFICES ASSUME spawned <= 1 PROVE OneReader'
    BY <2>1 DEF OneReader
  <2>2. /\ spawned = 1 /\ \A a \in Analyzers : readers[a] = 0
        /\ \A u \in Threads : pc[u] = "readers" => u = t
    BY <2>1 DEF OneReader
  <2>3. \A a \in Analyzers : readers'[a] <= 1
    BY <1>3, <2>1, <2>2
  <2>4. \A u \in Threads : pc'[u] # "readers"
    BY <1>3, <2>1, <2>2
  <2> QED
    BY <2>1, <2>2, <2>3, <2>4 DEF OneReader
<1>7. ASSUME NEW t \in Threads, EnsureProcess(t), ~Spawn(t), ~(StartReader(t) /\ process # None)
      PROVE  OneReader'
  <2>1. UNCHANGED <<spawned, readers>>
    BY <1>7 DEF EnsureProcess, Ensure, EnsurePoll, SpawnFails, StartReader, StartStderrReader,
                processes
  <2>2. \E u \in Threads, label \in Labels \ {"readers"} : Goto(u, label)
    BY <1>3, <1>7 DEF EnsureProcess, Ensure, EnsurePoll, SpawnFails, StartReader,
                      StartStderrReader, EnsureRaises, DecodeRaises, Decoded, AfterEnsure, Labels,
                      Entering
  <2> QED
    BY <1>4, <2>1, <2>2
<1>8. CASE FrameArrives \/ Write \/ WriteGoesOn \/ Flush \/ Read \/ Timeout
  <2>1. UNCHANGED <<spawned, readers>>
    BY <1>8 DEF FrameArrives, Write, WriteGoesOn, Flush, Read, Timeout, processes
  <2>2. UNCHANGED pc \/ \E label \in Labels \ {"readers"} : Goto(Listener, label)
    BY <1>8 DEF FrameArrives, Write, WriteGoesOn, Flush, Read, Timeout, DecodeRaises, Decoded,
                Send, Labels, Entering
  <2> QED
    BY <1>1, <1>3, <1>4, <2>1, <2>2
<1>9. ASSUME NEW t \in Checkers, Check(t) \/ AnswerReady(t)
      PROVE  OneReader'
  <2>1. \E label \in Labels \ {"readers"} : Goto(t, label)
    BY <1>9 DEF Check, AnswerReady, Labels, Entering
  <2>2. UNCHANGED <<spawned, readers>>
    BY <1>9 DEF Check, AnswerReady, processes
  <2> QED
    BY <1>3, <1>4, <2>1, <2>2
<1>10. CASE \/ \E a \in Analyzers : Analyze(a) \/ Babble(a) \/ ReadLine(a) \/ Die(a)
            \/ Stop \/ Terminate \/ Reap \/ Forget
  <2>1. UNCHANGED <<spawned, readers, pc>>
    BY <1>10 DEF Analyze, Babble, ReadLine, Die, Stop, Terminate, Reap, Forget, processes
  <2> QED
    BY <1>1, <2>1
<1> QED
  BY <1>5, <1>6, <1>7, <1>8, <1>9, <1>10, StepCases

\* With one analyzer the frames come in their order everywhere.
InTurn == spawned <= 1 => Sorted(Contents)

LEMMA NothingInTurn ==
    ASSUME TypeOK, Sorted(Contents), NEW x \in {Undecoded, Raised}, ComesTo(x)
    PROVE  Sorted(Contents')
<1>1. Full(Contents) /\ x \in Marks /\ x \notin Frames /\ Given \in Places
  BY ContentsFull, PlacesAre DEF Marks, Frames, Undecoded, Raised
<1>2. Put(Contents, Given, x, Contents')
  BY NothingMoves
<1> QED
  BY <1>1, <1>2, PutSorted, AheadIs

LEMMA BabbleInTurn ==
    ASSUME TypeOK, Sorted(Contents), NEW a \in Analyzers, Babble(a)
    PROVE  Sorted(Contents')
<1>1. Full(Contents) /\ Junk \in Marks /\ Junk \notin Frames /\ 0 \in Places
  BY ContentsFull, PlacesAre DEF Marks, Lines, Frames, Junk
<1>2. Put(Contents, 0, Junk, Contents')
  BY BabbleMoves
<1> QED
  BY <1>1, <1>2, PutSorted, AheadIs

LEMMA SendsInTurn ==
    ASSUME TypeOK, Ordered, Sorted(Contents), NEW a \in Analyzers, Sends(a)
    PROVE  Sorted(Contents')
<1>1. /\ a \in Places /\ frame \in Frames /\ pc[Listener] \in Early
      /\ Put(Contents, a, frame, Contents')
  BY SendsMoves DEF Ordered
<1>2. ASSUME NEW p \in Places, NEW i \in 1..Len(Contents[p]), Contents[p][i] \in Frames
      PROVE  Contents[p][i] < frame
  <2>1. ~Nowhere(Contents[p][i], Contents)
    BY DEF Nowhere
  <2> QED
    BY <1>1, <1>2, <2>1 DEF Ordered, Below, Frames
<1>3. Before(frame, a, Contents) /\ Last(frame, a, Contents)
  BY <1>1, <1>2 DEF Before, Last
<1>4. After(frame, a, Contents)
  BY <1>1, AheadIs DEF After
<1>5. frame \in Marks
  BY <1>1 DEF Marks, Lines
<1> QED
  BY <1>1, <1>3, <1>4, <1>5, PutSorted, ContentsFull, AheadIs

LEMMA ReadInTurn ==
    ASSUME TypeOK, Sorted(Contents), Read
    PROVE  Sorted(Contents')
<1>1. /\ 0 \in Places /\ Given \in Places /\ 0 # Given /\ 1 \in 1..Len(Contents[0])
      /\ Contents[0][1] = Head(queue)
  BY ReadMoves, PlacesAre
<1>2. PICK rest : /\ Took(Contents, 0, 1, rest)
                  /\ Head(queue) = Junk => Contents' = rest
                  /\ Head(queue) # Junk => Put(rest, Given, Head(queue), Contents')
  BY ReadMoves
<1>3. /\ Sorted(rest)
      /\ \A after : Put(rest, Given, Contents[0][1], after) => Sorted(after)
  BY <1>1, <1>2, QueueNextTo, PassingSorted, ContentsFull
<1> QED
  BY <1>1, <1>2, <1>3

LEMMA ReadLineInTurn ==
    ASSUME TypeOK, Untouched, OneReader, spawned <= 1, Sorted(Contents),
           NEW a \in Analyzers, ReadLine(a)
    PROVE  Sorted(Contents')
<1>1. PICK k \in 1..Len(Contents[-a]) :
         k <= readers[a] /\ Passes(Contents, -a, k, 0, Contents')
  BY ReadLineMoves
<1>2. /\ 0 \in Places /\ -a \in Places /\ -a # 0 /\ stdout[a] # <<>>
      /\ Full(Contents)
  BY ReadLineMoves, PlacesAre, ContentsFull
<1>3. k = 1
  <2>1. readers[a] <= 1 /\ readers[a] \in Nat
    BY DEF OneReader, TypeOK
  <2> QED
    BY <1>1, <2>1
<1>4. PICK rest : /\ Took(Contents, -a, 1, rest)
                  /\ Contents' = rest \/ Put(rest, 0, Contents[-a][1], Contents')
  BY <1>1, <1>3 DEF Passes
<1>5. NextTo(-a, 0, rest)
  <2>1. ASSUME NEW b \in Analyzers, b # a
        PROVE  rest[-b] = <<>>
    <3>1. stdout[b] = <<>>
      BY <1>2, <2>1, OthersEmpty
    <3>2. -b \in Places /\ -b # -a
      BY <2>1, PlacesAre DEF Analyzers
    <3>3. Contents[-b] = <<>>
      BY <3>1, ContentsAre DEF Contents
    <3> QED
      BY <1>1, <1>2, <1>3, <1>4, <3>2, <3>3, TookHolds
  <2> QED
    BY <2>1, StdoutNextTo
<1>6. Sorted(rest) /\ \A after : Put(rest, 0, Contents[-a][1], after) => Sorted(after)
  BY <1>1, <1>2, <1>3, <1>4, <1>5, PassingSorted
<1> QED
  BY <1>4, <1>6

LEMMA AnalyzeInTurn ==
    ASSUME TypeOK, Untouched, spawned <= 1, Sorted(Contents), NEW a \in Analyzers, Analyze(a)
    PROVE  Sorted(Contents')
<1>1. /\ a \in Places /\ -a \in Places /\ -a # a /\ stdin[a] # <<>> /\ 1 \in 1..Len(Contents[a])
      /\ Full(Contents)
  BY AnalyzeMoves, PlacesAre, ContentsFull
<1>2. PICK rest : /\ Took(Contents, a, 1, rest)
                  /\ Contents' = rest \/ Put(rest, -a, Contents[a][1], Contents')
  BY AnalyzeMoves DEF Passes
<1>3. NextTo(a, -a, rest)
  <2>1. ASSUME NEW b \in Analyzers, b # a
        PROVE  rest[b] = <<>>
    <3>1. stdin[b] = <<>>
      BY <1>1, <2>1, OthersEmpty
    <3>2. b \in Places
      BY PlacesAre
    <3>3. Contents[b] = <<>>
      BY <3>1, ContentsAre DEF Contents
    <3> QED
      BY <1>1, <1>2, <2>1, <3>2, <3>3, TookHolds
  <2> QED
    BY <2>1, StdinNextTo
<1>4. Sorted(rest) /\ \A after : Put(rest, -a, Contents[a][1], after) => Sorted(after)
  BY <1>1, <1>2, <1>3, PassingSorted
<1> QED
  BY <1>2, <1>4

LEMMA InTurnKept ==
    TypeOK /\ Stages /\ Ordered /\ Untouched /\ OneReader /\ InTurn /\ [Next]_vars => InTurn'
<1> SUFFICES ASSUME TypeOK, Stages, Ordered, Untouched, OneReader, InTurn, [Next]_vars,
                    spawned' <= 1
             PROVE  Sorted(Contents')
  BY DEF InTurn
<1>1. CASE Quietly
  <2>1. Contents' = Contents
    BY <1>1 DEF Quietly, Contents, pipes, platform
  <2>2. spawned <= 1
    BY <1>1 DEF Quietly, TypeOK
  <2> QED
    BY <2>1, <2>2 DEF InTurn
<1>2. CASE FrameArrives
  <2>1. Contents' = Contents /\ UNCHANGED spawned
    BY <1>2 DEF FrameArrives, Contents, pipes, processes
  <2> QED
    BY <2>1 DEF InTurn
<1>3. ASSUME NEW x \in {Undecoded, Raised}, ComesTo(x)
      PROVE  Sorted(Contents')
  BY <1>3, NothingInTurn, NothingMoves DEF InTurn
<1>4. ASSUME NEW a \in Analyzers, Sends(a)
      PROVE  Sorted(Contents')
  BY <1>4, SendsInTurn, SendsMoves DEF InTurn, Ordered
<1>5. ASSUME NEW a \in Analyzers, Analyze(a)
      PROVE  Sorted(Contents')
  BY <1>5, AnalyzeInTurn, AnalyzeMoves DEF InTurn
<1>6. ASSUME NEW a \in Analyzers, Babble(a)
      PROVE  Sorted(Contents')
  BY <1>6, BabbleInTurn, BabbleMoves DEF InTurn
<1>7. ASSUME NEW a \in Analyzers, ReadLine(a)
      PROVE  Sorted(Contents')
  BY <1>7, ReadLineInTurn, ReadLineMoves DEF InTurn
<1>8. CASE Read
  BY <1>8, ReadInTurn, ReadMoves DEF InTurn
<1> QED
  BY <1>1, <1>2, <1>3, <1>4, <1>5, <1>6, <1>7, <1>8, Kinds

\* A reading that was recorded is the answer to a frame that was handled.
Recorded ==
    \A r \in Readings : vessel[r].from = 0 \/ \E i \in 1..handled : decoded[i] = vessel[r].from

LEMMA RecordedKept ==
    TelemetryTypeOK /\ Stages /\ Recorded /\ [TelemetryNext]_allVars => Recorded'
<1> SUFFICES ASSUME TelemetryTypeOK, Stages, Recorded, [TelemetryNext]_allVars,
                    NEW r \in Readings, vessel'[r].from # 0
             PROVE  \E i \in 1..handled' : decoded'[i] = vessel'[r].from
  BY DEF Recorded
<1>0. handled \in Nat /\ Len(decoded) \in Nat /\ handled <= Len(decoded)
      /\ decoded \in Seq(Frames \cup {Undecoded, Raised})
  BY DEF TelemetryTypeOK, TypeOK
<1>1. ASSUME vessel'[r] = vessel[r], UNCHANGED handled \/ handled' = handled + 1
      PROVE  \E i \in 1..handled' : decoded'[i] = vessel'[r].from
  <2>1. PICK i \in 1..handled : decoded[i] = vessel[r].from
    BY <1>1 DEF Recorded
  <2>2. i \in 1..Len(decoded) /\ i \in 1..handled'
    BY <1>0, <1>1
  <2>3. decoded' = decoded \/ \E result : decoded' = Append(decoded, result)
    BY OnlyAppends DEF TelemetryTypeOK, TelemetryNext, DecoderStep, Handle, allVars
  <2>4. decoded'[i] = decoded[i]
    BY <1>0, <2>2, <2>3
  <2> QED
    BY <1>1, <2>1, <2>2, <2>4
<1>2. CASE UNCHANGED telemetryVars
  BY <1>1, <1>2 DEF telemetryVars
<1>3. CASE Handle
  <2>1. handled' = handled + 1 /\ UNCHANGED decoded
    BY <1>3 DEF Handle, vars, program, platform
  <2>2. vessel'[r] = vessel[r] \/ vessel'[r].from = decoded[handled']
    BY <1>3 DEF Handle, Record
  <2>3. handled' \in 1..handled'
    BY <1>0, <2>1
  <2> QED
    BY <1>1, <2>1, <2>2, <2>3
<1> QED
  BY <1>2, <1>3 DEF TelemetryNext, DecoderStep, allVars

(* A recording goes back only to an answer that lateness and a respawn      *)
(* brought out of its turn.                                                 *)
LEMMA TurnsBack ==
    /\ TelemetryTypeOK /\ Recorded /\ LatenessAloneMispairs /\ InTurn /\ [TelemetryNext]_allVars
    => \A r \in Readings :
          vessel'[r].from < vessel[r].from => "late" \in trouble /\ spawned > 1
<1> SUFFICES ASSUME TelemetryTypeOK, Recorded, LatenessAloneMispairs, InTurn,
                    [TelemetryNext]_allVars,
                    NEW r \in Readings, vessel'[r].from < vessel[r].from
             PROVE  "late" \in trouble /\ spawned > 1
  OBVIOUS
<1>1. vessel[r].from \in 0..MaxFrames /\ spawned \in Nat /\ handled \in Nat
      /\ decoded \in Seq(Frames \cup {Undecoded, Raised}) /\ Len(decoded) \in Nat
  BY DEF TelemetryTypeOK, TypeOK, Value
<1>2. Handle /\ handled' = handled + 1 /\ handled' \in 1..Len(decoded)
      /\ vessel'[r].from = decoded[handled'] /\ decoded[handled'] \in Frames
  <2>1. vessel'[r] # vessel[r]
    BY <1>1
  <2>2. Handle
    BY <2>1 DEF TelemetryNext, DecoderStep, allVars, telemetryVars
  <2>3. handled' = handled + 1 /\ handled < Len(decoded)
    BY <2>2 DEF Handle
  <2>4. vessel'[r].from = decoded[handled'] /\ decoded[handled'] \in Frames
    BY <2>1, <2>2 DEF Handle, Record
  <2> QED
    BY <1>1, <2>2, <2>3, <2>4
<1>3. vessel[r].from \in Frames
  BY <1>1, <1>2 DEF Frames
<1>4. PICK i \in 1..handled : decoded[i] = vessel[r].from
  BY <1>3 DEF Recorded, Frames
<1>5. i \in 1..Len(decoded) /\ i < handled' /\ handled' \in Nat
  BY <1>1, <1>2
<1>6. decoded[handled'] < decoded[i] /\ decoded[i] \in Frames
  BY <1>2, <1>3, <1>4
<1>7. CASE "late" \notin trouble
  <2>1. decoded[i] = i /\ decoded[handled'] = handled'
    BY <1>2, <1>5, <1>6, <1>7 DEF LatenessAloneMispairs, AnswerMatchesFrame, Answers
  <2> QED
    BY <1>5, <1>6, <2>1
<1>8. CASE spawned <= 1
  <2>1. Contents[Given] = decoded /\ Given \in Places
    BY ContentsAre, PlacesAre DEF Contents
  <2>2. decoded[i] < decoded[handled']
    BY <1>2, <1>5, <1>6, <1>8, <2>1 DEF InTurn, Sorted
  <2> QED
    BY <1>2, <1>6, <2>2 DEF Frames
<1> QED
  BY <1>1, <1>7, <1>8

(* decoder.py:150-156: a reading goes back to an earlier frame's value only *)
(* after an answer was late and a second analyzer was started.              *)
THEOREM OnlyRespawnTurnsBack == TelemetrySpec => RespawnAloneTurnsBack
<1>1. Init => Untouched /\ OneReader /\ InTurn
  <2> SUFFICES ASSUME Init PROVE Untouched /\ OneReader /\ Sorted(Contents)
    BY DEF InTurn
  <2>1. \A p \in Places : Contents[p] = <<>>
    BY InitEmpty
  <2> QED
    BY <2>1 DEF Init, Untouched, OneReader, Sorted
<1>2. IInv /\ Untouched /\ OneReader /\ InTurn /\ [Next]_vars
      => Untouched' /\ OneReader' /\ InTurn'
  BY UntouchedKept, OneReaderKept, InTurnKept DEF IInv
<1>3. Spec => []InTurn
  BY <1>1, <1>2, Inductive, PTL DEF Spec
<1>4. TelemetryInit => Recorded
  BY DEF TelemetryInit, Recorded, NoValue
<1>5. TelemetrySpec => []Recorded
  <2>1. IInv => Stages
    BY DEF IInv
  <2> QED
    BY <1>4, <2>1, RecordedKept, TelemetryTypeCorrect, DecoderInside, Inductive, PTL
       DEF TelemetrySpec
<1>6. TelemetryTypeOK /\ Recorded /\ LatenessAloneMispairs /\ InTurn /\ [TelemetryNext]_allVars
      => [ \A r \in Readings :
             vessel'[r].from < vessel[r].from => "late" \in trouble /\ spawned > 1 ]_allVars
  BY TurnsBack
<1> QED
  BY <1>3, <1>5, <1>6, TelemetryTypeCorrect, OnlyLatenessMispairs, DecoderInside, PTL
     DEF TelemetrySpec, RespawnAloneTurnsBack
=============================================================================
