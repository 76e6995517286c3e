-------------------------- MODULE CanIngestProofs --------------------------
(***************************************************************************)
(* Proofs about CanIngest for any number of listener threads, frames and   *)
(* capture sessions: one listener at a time, a truthful running flag,      *)
(* captures without gaps, every frame accounted for, and telemetry that is *)
(* ahead of the catalog only by an answer that came late.                  *)
(***************************************************************************)
EXTENDS CanIngest, TLAPS, FiniteSetTheorems

PCs == {"unborn", "opening", "leaving", "dead"} \cup InLoop
InHand == {"capture", "decode", "record", "publish"}
Busy == {"opening", "leaving"} \cup InLoop

\* Only the thread that the listener remembers is alive; later ones are unborn.
Single ==
    \A t \in Threads : (pc[t] \in Busy => t = thread) /\ (t > thread => pc[t] = "unborn")

\* What a thread holds is the last frame that the bus delivered.
Held == \A t \in Threads : pc[t] \in InHand => event[t] \in Frame /\ event[t].id = sent

\* A frame is counted when it is recorded and not before.
Counted ==
    /\ \A p \in Pgns : catalog[p].count <= sent /\ catalog[p].sample <= sent
    /\ \A t \in Threads, p \in Pgns :
          pc[t] \in {"capture", "decode", "record"} => catalog[p].count < sent

\* The catalog has a frame or a newer one, or it is known why not.
Settled(f) ==
    f > catalog["rpm"].sample => f \in errors \/ \E d \in done : d.id = f /\ ~d.kept

\* It is about to be recorded.
Pending(f) ==
    \E t \in Threads : pc[t] = "record" /\ event[t].kind = "rpm" /\ event[t].id = f

\* The same of the next state.
SettledNext(f) ==
    f > catalog'["rpm"].sample => f \in errors' \/ \E d \in done' : d.id = f /\ ~d.kept
PendingNext(f) ==
    \E t \in Threads : pc'[t] = "record" /\ event'[t].kind = "rpm" /\ event'[t].id = f

\* What may be published, now or later.
Owing ==
    /\ Settled(rpm)
    /\ \A f \in owed : Settled(f) \/ Pending(f)
    /\ \A t \in Threads : Settled(answer[t]) \/ Pending(answer[t])

EndsWith(file, n) == file = <<>> \/ file[Len(file)] = n

\* Where the open file ends, by how far the thread in the loop has come.
OpenFile ==
    /\ handle = "open" => session # None /\ service \in {"up", "joining", "closing"}
    /\ \A s \in 1..MaxSessions : s > sessions => files[s] = <<>>
    /\ session <= sessions
    /\ \A t \in Threads : handle = "open" =>
          /\ pc[t] = "opening" => files[session] = <<>>
          /\ pc[t] = "capture" => EndsWith(files[session], sent - 1)
          /\ pc[t] \in InLoop \ {"capture"} => EndsWith(files[session], sent)

\* What the handler is done with came before what a thread still holds.
Past ==
    /\ IsFiniteSet(done)
    /\ \A f \in done : f.id <= sent
    /\ \A i \in errors : i <= sent
    /\ \A t \in Threads :
          pc[t] \in InHand => sent \notin errors /\ \A f \in done : f.id # sent

IInv ==
    /\ TypeOK
    /\ Single /\ RunningMeansAlive
    /\ Held /\ Counted /\ Owing
    /\ OpenFile /\ CaptureIsGapless
    /\ Past /\ FramesAccounted

---------------------------------------------------------------------------
(* The count of frames, taken apart.                                        *)

CountOf(table) == table["rpm"].count + table["other"].count
Waiting == { t \in Threads : pc[t] = "publish" /\ event[t].kind \in Pgns }
KeptOf(frames) == { f \in frames : f.kind \in Pgns /\ f.kept }
FailedOf(frames, failures) == { f \in KeptOf(frames) : f.id \in failures }

Balance(table, waiting, frames, failures) ==
    CountOf(table) - Cardinality(waiting) + Cardinality(FailedOf(frames, failures))
        = Cardinality(KeptOf(frames))

LEMMA AccountedIsBalance == FramesAccounted <=> Balance(catalog, Waiting, done, errors)
BY DEF FramesAccounted, Balance, CountOf, Waiting, KeptOf, FailedOf

(* A finished frame that no table counts: it was taken away or has no PGN.  *)
LEMMA UncountedFrame ==
    ASSUME NEW frames, NEW failures, NEW f, ~(f.kind \in Pgns /\ f.kept),
           \A g \in frames : g.id # f.id
    PROVE  /\ KeptOf(frames \cup {f}) = KeptOf(frames)
           /\ FailedOf(frames \cup {f}, failures) = FailedOf(frames, failures)
           /\ FailedOf(frames \cup {f}, failures \cup {f.id}) = FailedOf(frames, failures)
BY DEF KeptOf, FailedOf

(* A finished frame that is kept adds one, also to the failed ones if it is *)
(* one of them.                                                             *)
LEMMA KeptFrame ==
    ASSUME NEW frames, IsFiniteSet(frames), NEW failures, NEW f,
           f.kind \in Pgns, f.kept, \A g \in frames : g.id # f.id
    PROVE  /\ Cardinality(KeptOf(frames)) \in Nat
           /\ Cardinality(FailedOf(frames, failures)) \in Nat
           /\ Cardinality(KeptOf(frames \cup {f})) = Cardinality(KeptOf(frames)) + 1
           /\ f.id \notin failures =>
                 FailedOf(frames \cup {f}, failures) = FailedOf(frames, failures)
           /\ Cardinality(FailedOf(frames \cup {f}, failures \cup {f.id}))
                 = Cardinality(FailedOf(frames, failures)) + 1
<1>1. KeptOf(frames) \subseteq frames /\ FailedOf(frames, failures) \subseteq frames
  BY DEF KeptOf, FailedOf
<1>2. IsFiniteSet(KeptOf(frames)) /\ IsFiniteSet(FailedOf(frames, failures))
  BY <1>1, FS_Subset
<1>3. f \notin frames
  OBVIOUS
<1>4. f \notin KeptOf(frames) /\ f \notin FailedOf(frames, failures)
  BY <1>1, <1>3
<1>5. KeptOf(frames \cup {f}) = KeptOf(frames) \cup {f}
  BY DEF KeptOf
<1>6. f.id \notin failures => FailedOf(frames \cup {f}, failures) = FailedOf(frames, failures)
  BY DEF KeptOf, FailedOf
<1>7. FailedOf(frames \cup {f}, failures \cup {f.id}) = FailedOf(frames, failures) \cup {f}
  BY DEF KeptOf, FailedOf
<1> QED
  BY <1>2, <1>4, <1>5, <1>6, <1>7, FS_AddElement, FS_CardinalityType

(* Of the threads at most one waits to publish.                             *)
LEMMA WaitingOf ==
    ASSUME Single, NEW t \in Threads, pc[t] \in Busy
    PROVE  Waiting = IF pc[t] = "publish" /\ event[t].kind \in Pgns THEN {t} ELSE {}
BY DEF Single, Waiting, Busy, InLoop

LEMMA NobodyWaits ==
    ASSUME \A t \in Threads : pc[t] # "publish"
    PROVE  Waiting = {}
BY DEF Waiting

LEMMA BalanceStays ==
    ASSUME FramesAccounted, UNCHANGED <<catalog, errors, done>>, Waiting' = Waiting
    PROVE  FramesAccounted'
<1>1. Balance(catalog, Waiting, done, errors)
  BY AccountedIsBalance
<1>2. Balance(catalog', Waiting', done', errors')
  BY <1>1
<1>3. FramesAccounted' <=> Balance(catalog', Waiting', done', errors')
  BY DEF FramesAccounted, Balance, CountOf, Waiting, KeptOf, FailedOf
<1> QED
  BY <1>2, <1>3

(* What is settled stays so: nothing is taken out of a table, and what the  *)
(* handler was done with stays done.                                        *)
LEMMA SettledStays ==
    ASSUME TypeOK, NEW f \in 0..MaxFrames, Settled(f),
           catalog["rpm"].sample <= catalog'["rpm"].sample, catalog'["rpm"].sample \in 0..MaxFrames,
           errors \subseteq errors', done \subseteq done'
    PROVE  SettledNext(f)
<1>1. catalog["rpm"].sample \in Int /\ f \in Int /\ catalog'["rpm"].sample \in Int
  BY DEF TypeOK, Pgns
<1> QED
  BY <1>1 DEF Settled, SettledNext

LEMMA OwingStays ==
    ASSUME TypeOK, Owing, UNCHANGED <<owed, answer, rpm, catalog>>,
           errors \subseteq errors', done \subseteq done',
           \A t \in Threads : pc[t] = "record" => pc'[t] = "record" /\ event'[t] = event[t]
    PROVE  Owing'
<1>1. catalog["rpm"].sample \in 0..MaxFrames
  BY DEF TypeOK, Pgns
<1>2. ASSUME NEW f \in 0..MaxFrames
      PROVE  (Settled(f) => SettledNext(f)) /\ (Pending(f) => PendingNext(f))
  BY <1>1, SettledStays DEF Pending, PendingNext
<1>3. /\ rpm \in 0..MaxFrames /\ owed \subseteq 0..MaxFrames
      /\ \A t \in Threads : answer[t] \in 0..MaxFrames
  BY DEF TypeOK
<1>4. SettledNext(rpm')
  BY <1>2, <1>3 DEF Owing
<1>5. \A f \in owed' : SettledNext(f) \/ PendingNext(f)
  BY <1>2, <1>3 DEF Owing
<1>6. \A t \in Threads : SettledNext(answer'[t]) \/ PendingNext(answer'[t])
  BY <1>2, <1>3 DEF Owing
<1> QED
  BY <1>4, <1>5, <1>6 DEF Owing, Settled, SettledNext, Pending, PendingNext

---------------------------------------------------------------------------
(* Steps in which no listener thread moves and no frame is handled.         *)

LEMMA ServiceStep ==
    ASSUME IInv, UNCHANGED <<thread, running, pc, event, stores, answers, sent, done>>,
           service' \in ServiceStages, faulted' \in BOOLEAN, stopEvent' \in BOOLEAN,
           session' \in 0..MaxSessions, handle' \in {"none", "open", "closed"},
           sessions' \in 0..MaxSessions, files' = files,
           OpenFile'
    PROVE  IInv'
<1>1. TypeOK'
  BY DEF IInv, TypeOK, stores, answers
<1>2. Single' /\ RunningMeansAlive' /\ Held' /\ Counted' /\ Owing'
  BY OwingStays DEF IInv, Single, RunningMeansAlive, Held, Counted, stores, answers
<1>3. CaptureIsGapless'
  BY DEF IInv, CaptureIsGapless
<1>4. Past'
  BY DEF IInv, Past, stores
<1>5. FramesAccounted'
  BY BalanceStays DEF IInv, Waiting, stores
<1> QED
  BY <1>1, <1>2, <1>3, <1>4, <1>5 DEF IInv

(* What start and stop do beside the listener thread.                       *)
LEMMA ServiceKeeps ==
    ASSUME IInv, StartRefused \/ LogStarted \/ Stop \/ Joined
    PROVE  IInv'
<1>1. /\ UNCHANGED <<thread, running, pc, event, stores, answers, sent, done, session, handle, sessions, files>>
      /\ service' \in ServiceStages /\ faulted' \in BOOLEAN /\ stopEvent' \in BOOLEAN
      /\ service \in {"up", "joining", "closing"} => service' \in {"up", "joining", "closing"}
  BY DEF IInv, TypeOK, StartRefused, LogStarted, Stop, Joined, listener, capture, stores,
         ServiceStages
<1>2. OpenFile'
  BY <1>1 DEF IInv, OpenFile, EndsWith
<1>3. session' \in 0..MaxSessions /\ handle' \in {"none", "open", "closed"}
      /\ sessions' \in 0..MaxSessions
  BY <1>1 DEF IInv, TypeOK
<1> QED
  BY <1>1, <1>2, <1>3, ServiceStep

(* Stopped, and the two calls of the capture.                               *)
LEMMA CaptureKeeps ==
    ASSUME IInv, Stopped \/ StartCapture \/ StopCapture
    PROVE  IInv'
<1>1. /\ UNCHANGED <<thread, running, pc, event, stores, answers, sent, done, files>>
      /\ service' \in ServiceStages /\ faulted' \in BOOLEAN /\ stopEvent' \in BOOLEAN
      /\ session' \in 0..MaxSessions /\ handle' \in {"none", "open", "closed"}
      /\ sessions' \in 0..MaxSessions
  BY IngestAssumption DEF IInv, TypeOK, Stopped, StartCapture, StopCapture, CloseCapture,
         listener, capture, stores, ServiceStages, None
<1>2. OpenFile'
  <2>1. CASE Stopped \/ StopCapture
    BY <2>1, <1>1 DEF IInv, TypeOK, OpenFile, Stopped, StopCapture, CloseCapture, None
  <2>2. CASE StartCapture
    <3>1. session' \in 1..MaxSessions /\ files[session'] = <<>> /\ service' = "up"
          /\ session' = sessions' /\ sessions' = sessions + 1
      BY <2>2, IngestAssumption DEF IInv, TypeOK, OpenFile, StartCapture
    <3> QED
      BY <1>1, <3>1 DEF IInv, TypeOK, OpenFile, EndsWith, None
  <2> QED
    BY <2>1, <2>2
<1> QED
  BY <1>1, <1>2, ServiceStep

(* One thread goes to another place.                                        *)
LEMMA Moves ==
    ASSUME TypeOK, NEW t \in Threads, NEW label \in PCs, pc' = [pc EXCEPT ![t] = label]
    PROVE  /\ pc' \in [Threads -> PCs]
           /\ pc'[t] = label
           /\ \A u \in Threads : u # t => pc'[u] = pc[u]
<1>1. pc \in [Threads -> PCs]
  BY DEF TypeOK, PCs
<1> QED
  BY <1>1

LEMMA StartKeeps ==
    ASSUME IInv, Start
    PROVE  IInv'
<1>1. CASE IsAlive(thread)
  <2>1. UNCHANGED <<thread, running, pc, event, stores, answers, sent, done, session, handle, sessions, files>>
        /\ service' \in ServiceStages /\ faulted' \in BOOLEAN /\ stopEvent' \in BOOLEAN
        /\ service = "down"
    BY <1>1 DEF IInv, TypeOK, Start, StartThread, listener, capture, stores, ServiceStages
  <2>2. OpenFile'
    BY <2>1 DEF IInv, OpenFile, EndsWith
  <2> QED
    BY <2>1, <2>2, ServiceStep DEF IInv, TypeOK
<1>2. CASE ~IsAlive(thread)
  <2>1. /\ thread' = thread + 1 /\ thread' \in Threads
        /\ pc' = [pc EXCEPT ![thread'] = "opening"]
        /\ stopEvent' = FALSE /\ faulted' = FALSE /\ service = "down" /\ service' = "logging"
        /\ UNCHANGED <<running, event, capture, stores, answers, sent, done>>
    BY <1>2, IngestAssumption DEF IInv, TypeOK, Start, StartThread, Threads
  <2>2. /\ pc'[thread'] = "opening"
        /\ \A t \in Threads : t # thread' => pc'[t] = pc[t]
        /\ \A t \in Threads : pc[t] \notin Busy
    BY <1>2, <2>1 DEF IInv, TypeOK, Single, IsAlive, Busy, Threads, None
  <2>3. TypeOK'
    <3>1. pc' \in [Threads -> PCs]
      BY <2>1, Moves DEF IInv, PCs
    <3>2. thread' \in 0..MaxStarts
      BY <2>1 DEF Threads
    <3> QED
      BY <2>1, <3>1, <3>2 DEF IInv, TypeOK, PCs, ServiceStages, capture, stores, answers
  <2>4. Single'
    BY <2>1, <2>2 DEF IInv, TypeOK, Single, Busy, Threads
  <2>5. RunningMeansAlive'
    BY <2>1, <2>2 DEF IInv, RunningMeansAlive, Busy, InLoop
  <2>6. Held' /\ Counted' /\ Owing'
    <3>1. \A t \in Threads : pc[t] # "record"
      BY <2>2 DEF Busy, InLoop
    <3> QED
      BY <2>1, <2>2, <3>1, OwingStays DEF IInv, Held, Counted, InHand, stores, answers
  <2>7. OpenFile' /\ CaptureIsGapless'
    BY <2>1, <2>2 DEF IInv, OpenFile, CaptureIsGapless, capture
  <2>8. Past'
    BY <2>1, <2>2 DEF IInv, Past, InHand, stores
  <2>9. Waiting' = Waiting
    BY <2>1, <2>2 DEF Waiting, Busy, InLoop
  <2>10. FramesAccounted'
    BY <2>1, <2>9, BalanceStays DEF IInv, stores
  <2> QED
    BY <2>3, <2>4, <2>5, <2>6, <2>7, <2>8, <2>10 DEF IInv
<1> QED
  BY <1>1, <1>2

---------------------------------------------------------------------------
(* Steps of a listener thread.                                              *)

(* It moves; the thread it is, and what the service is doing, stay.         *)
ThreadStep(t, label) ==
    /\ pc[t] \in Busy
    /\ pc' = [pc EXCEPT ![t] = label]
    /\ UNCHANGED <<service, thread, stopEvent, session, handle, sessions>>

LEMMA ThreadMoves ==
    ASSUME IInv, NEW t \in Threads, NEW label \in {"leaving", "dead"} \cup InLoop,
           ThreadStep(t, label), pc[t] = "opening" => label \in {"loop", "dead"},
           running' = IF label = "dead" THEN FALSE ELSE running \/ label = "loop"
    PROVE  /\ pc' \in [Threads -> PCs]
           /\ pc'[t] = label
           /\ \A u \in Threads : u # t => pc'[u] = pc[u] /\ pc'[u] \notin Busy
           /\ running' \in BOOLEAN
           /\ Single' /\ RunningMeansAlive'
<1>1. pc' \in [Threads -> PCs] /\ pc'[t] = label /\ \A u \in Threads : u # t => pc'[u] = pc[u]
  BY Moves DEF IInv, ThreadStep, PCs
<1>2. t = thread /\ \A u \in Threads : u # t => pc[u] \notin Busy
  BY DEF IInv, Single, ThreadStep
<1>3. Single'
  BY <1>1, <1>2 DEF IInv, Single, ThreadStep, Busy, Threads
<1>4. RunningMeansAlive'
  BY <1>1, <1>2 DEF IInv, RunningMeansAlive, ThreadStep, Busy, InLoop
<1> QED
  BY <1>1, <1>2, <1>3, <1>4 DEF IInv, TypeOK

(* It moves without touching a frame.                                       *)
LEMMA QuietThreadStep ==
    ASSUME IInv, NEW t \in Threads, NEW label \in {"leaving", "dead"} \cup InLoop,
           ThreadStep(t, label),
           <<pc[t], label>> \in {<<"opening", "loop">>, <<"opening", "dead">>, <<"loop", "leaving">>,
                                <<"leaving", "dead">>, <<"capture", "decode">>, <<"decode", "record">>},
           running' = IF label = "dead" THEN FALSE ELSE running \/ label = "loop",
           handle = "open" => pc[t] # "capture",
           UNCHANGED <<faulted, event, files, stores, sent, done>>,
           \/ UNCHANGED answers
           \/ /\ owed' \subseteq 1..MaxFrames /\ answer' \in [Threads -> 0..MaxFrames]
              /\ Owing'
    PROVE  IInv'
<1>0. pc[t] = "opening" => label \in {"loop", "dead"}
  OBVIOUS
<1>1. /\ pc' \in [Threads -> PCs]
      /\ pc'[t] = label
      /\ \A u \in Threads : u # t => pc'[u] = pc[u] /\ pc'[u] \notin Busy
      /\ running' \in BOOLEAN
      /\ Single' /\ RunningMeansAlive'
  BY <1>0, ThreadMoves
<1>2. TypeOK'
  BY <1>1 DEF IInv, TypeOK, ThreadStep, stores, answers, PCs
<1>3. Held' /\ Counted' /\ Owing'
  <2>1. Owing'
    BY <1>1, OwingStays DEF IInv, stores, answers
  <2> QED
    BY <1>1, <2>1 DEF IInv, Held, Counted, InHand, stores
<1>4. OpenFile' /\ CaptureIsGapless'
  BY <1>1 DEF IInv, OpenFile, CaptureIsGapless, ThreadStep, EndsWith, InLoop, Busy
<1>5. Past'
  BY <1>1 DEF IInv, Past, InHand, stores
<1>6. Waiting' = Waiting
  BY <1>1 DEF Waiting
<1>7. FramesAccounted'
  BY <1>6, BalanceStays DEF IInv, stores
<1> QED
  BY <1>1, <1>2, <1>3, <1>4, <1>5, <1>7 DEF IInv

LEMMA OpenBusKeeps ==
    ASSUME IInv, NEW t \in Threads, OpenBus(t)
    PROVE  IInv'
<1>1. PICK label \in {"loop", "dead"} :
         /\ pc' = [pc EXCEPT ![t] = label]
         /\ running' = IF label = "loop" THEN TRUE ELSE running
  BY DEF OpenBus, Goto
<1>2. ~running
  <2>1. \A u \in Threads : pc[u] \notin {"leaving"} \cup InLoop
    BY DEF IInv, Single, OpenBus, Busy, InLoop
  <2> QED
    BY <2>1 DEF IInv, RunningMeansAlive
<1>3. ThreadStep(t, label) /\ UNCHANGED <<faulted, event, files, stores, answers, sent, done>>
  BY <1>1 DEF ThreadStep, OpenBus, Busy, capture, stores
<1>4. pc[t] = "opening" /\ label \in {"leaving", "dead"} \cup InLoop
  BY DEF OpenBus, InLoop
<1>5. running' = IF label = "dead" THEN FALSE ELSE running \/ label = "loop"
  BY <1>1, <1>2 DEF IInv, TypeOK
<1> QED
  BY <1>3, <1>4, <1>5, QuietThreadStep

LEMMA LeavingKeeps ==
    ASSUME IInv, NEW t \in Threads, Leave(t) \/ RecvFails(t)
    PROVE  IInv'
<1>1. /\ ThreadStep(t, "leaving") /\ pc[t] = "loop" /\ running' = running
      /\ UNCHANGED <<faulted, event, files, stores, answers, sent, done>>
  BY DEF ThreadStep, Leave, RecvFails, Goto, Busy, InLoop, listener, capture, stores
<1>2. running' = (running \/ "leaving" = "loop")
  BY <1>1 DEF IInv, TypeOK
<1> QED
  BY <1>1, <1>2, QuietThreadStep

LEMMA ShutdownKeeps ==
    ASSUME IInv, NEW t \in Threads, Shutdown(t)
    PROVE  IInv'
<1>1. /\ ThreadStep(t, "dead") /\ pc[t] = "leaving" /\ running' = FALSE
      /\ UNCHANGED <<faulted, event, files, stores, answers, sent, done>>
  BY DEF ThreadStep, Shutdown, Goto, Busy, InLoop, capture, stores
<1> QED
  BY <1>1, QuietThreadStep

LEMMA DecodeKeeps ==
    ASSUME IInv, NEW t \in Threads, Decode(t)
    PROVE  IInv'
<1>1. /\ ThreadStep(t, "record") /\ pc[t] = "decode" /\ running' = running
      /\ UNCHANGED <<faulted, event, files, stores, sent, done>>
  BY DEF ThreadStep, Decode, Goto, Busy, InLoop, listener, capture, stores
<1>2. running' = (running \/ "record" = "loop") /\ "record" \in InLoop
  BY <1>1 DEF IInv, TypeOK, InLoop
<1>3. event[t] \in Frame
  BY <1>1 DEF IInv, Held, InHand
<1>4. PICK a \in OwedWith(t) \cup {None} :
         answer' = [answer EXCEPT ![t] = a] /\ owed' = OwedWith(t) \ {a}
  BY DEF Decode
<1>5. OwedWith(t) \subseteq 1..MaxFrames /\ a \in 0..MaxFrames
  <2>1. event[t].id \in 1..MaxFrames /\ owed \subseteq 1..MaxFrames
    BY <1>3 DEF IInv, TypeOK, Frame
  <2>2. OwedWith(t) \subseteq 1..MaxFrames
    BY <2>1 DEF OwedWith
  <2> QED
    BY <2>2, IngestAssumption DEF None
<1>6. owed' \subseteq 1..MaxFrames /\ answer' \in [Threads -> 0..MaxFrames]
  BY <1>4, <1>5 DEF IInv, TypeOK
<1>7. Owing'
  <2>1. \A u \in Threads : pc[u] # "record"
    BY <1>1 DEF IInv, Single, Busy, InLoop
  <2>2. catalog["rpm"].sample \in 0..MaxFrames /\ pc'[t] = "record"
    BY <1>1 DEF IInv, TypeOK, Pgns, ThreadStep
  <2>3. ASSUME NEW f \in 0..MaxFrames, Settled(f)
        PROVE  SettledNext(f)
    BY <1>1, <2>3 DEF Settled, SettledNext, stores
  <2>4. ASSUME NEW f \in OwedWith(t)
        PROVE  SettledNext(f) \/ PendingNext(f)
    <3>1. CASE f \in owed
      BY <1>5, <2>1, <2>3, <3>1 DEF IInv, Owing, Pending, PendingNext
    <3>2. CASE event[t].kind = "rpm" /\ f = event[t].id
      BY <1>1, <2>2, <3>2 DEF Pending, PendingNext
    <3> QED
      BY <3>1, <3>2 DEF OwedWith
  <2>5. SettledNext(None)
    BY <1>1, <2>2 DEF Settled, SettledNext, None, stores
  <2>6. ASSUME NEW u \in Threads
        PROVE  SettledNext(answer'[u]) \/ PendingNext(answer'[u])
    <3>1. CASE u = t
      BY <1>4, <2>4, <2>5, <3>1 DEF IInv, TypeOK
    <3>2. CASE u # t
      <4>1. answer'[u] = answer[u] /\ answer[u] \in 0..MaxFrames
        BY <1>4, <3>2 DEF IInv, TypeOK
      <4>2. Settled(answer[u])
        BY <2>1 DEF IInv, Owing, Pending, PendingNext
      <4> QED
        BY <2>3, <4>1, <4>2
    <3> QED
      BY <3>1, <3>2
  <2>7. SettledNext(rpm')
    BY <1>1, <2>3 DEF IInv, TypeOK, Owing, stores
  <2> QED
    BY <1>4, <2>4, <2>6, <2>7 DEF Owing, Settled, SettledNext, Pending, PendingNext
<1> QED
  BY <1>1, <1>2, <1>6, <1>7, QuietThreadStep

LEMMA RecvKeeps ==
    ASSUME IInv, NEW t \in Threads, Recv(t)
    PROVE  IInv'
<1>1. PICK kind \in FrameKinds[sent'] :
         /\ event' = [event EXCEPT ![t] = [id |-> sent', kind |-> kind]]
         /\ sent' = sent + 1 /\ sent < MaxFrames
         /\ ThreadStep(t, "capture") /\ pc[t] = "loop" /\ running' = running
         /\ UNCHANGED <<faulted, files, stores, answers, done>>
  BY DEF ThreadStep, Recv, Goto, Busy, InLoop, listener, capture, stores, answers
<1>2. running' = (running \/ "capture" = "loop") /\ "capture" \in InLoop
  BY <1>1 DEF IInv, TypeOK, InLoop
<1>3. /\ pc' \in [Threads -> PCs]
      /\ pc'[t] = "capture"
      /\ \A u \in Threads : u # t => pc'[u] = pc[u] /\ pc'[u] \notin Busy
      /\ running' \in BOOLEAN
      /\ Single' /\ RunningMeansAlive'
  BY <1>1, <1>2, ThreadMoves
<1>4. sent \in Nat /\ sent' \in 1..MaxFrames
  BY <1>1, IngestAssumption DEF IInv, TypeOK
<1>5. [id |-> sent', kind |-> kind] \in Frame
  BY <1>4, IngestAssumption DEF Frame, Pgns
<1>6. /\ event' \in [Threads -> Frame \cup {NoFrame}]
      /\ event'[t] = [id |-> sent', kind |-> kind]
      /\ \A u \in Threads : u # t => event'[u] = event[u]
  BY <1>1, <1>5 DEF IInv, TypeOK
<1>7. TypeOK'
  BY <1>1, <1>3, <1>4, <1>6 DEF IInv, TypeOK, ThreadStep, stores, answers, PCs
<1>8. Held'
  BY <1>3, <1>5, <1>6 DEF Held, InHand, Busy, InLoop
<1>9. Counted'
  BY <1>1, <1>3, <1>4 DEF IInv, TypeOK, Counted, Busy, InLoop, stores
<1>10. Owing'
  <2>1. \A u \in Threads : pc[u] # "record"
    BY <1>1 DEF IInv, Single, ThreadStep, Busy, InLoop
  <2> QED
    BY <1>1, <2>1, OwingStays DEF IInv, stores, answers
<1>11. OpenFile' /\ CaptureIsGapless'
  BY <1>1, <1>3, <1>4 DEF IInv, OpenFile, CaptureIsGapless, ThreadStep, EndsWith, InLoop, Busy
<1>12. Past'
  BY <1>1, <1>3, <1>4 DEF IInv, TypeOK, Outcome, Past, InHand, InLoop, Busy, stores
<1>13. Waiting' = Waiting
  BY <1>1, <1>3, <1>6 DEF IInv, Single, Waiting, InLoop, Busy
<1>14. FramesAccounted'
  BY <1>1, <1>13, BalanceStays DEF IInv, stores
<1> QED
  BY <1>3, <1>7, <1>8, <1>9, <1>10, <1>11, <1>12, <1>14 DEF IInv

\* f is what is remembered of the frame that t holds.
Remembers(f, t, kept) ==
    /\ f \in Outcome
    /\ f.id = event[t].id /\ f.kind = event[t].kind /\ f.kept = kept

LEMMA DoneIsOutcome ==
    ASSUME IInv, NEW t \in Threads, NEW kept \in BOOLEAN, pc[t] \in InHand
    PROVE  Remembers(DoneWith(t, kept), t, kept)
BY DEF IInv, Held, DoneWith, Outcome, Frame, Remembers

(* The books balance when what a thread holds is finished.                  *)
LEMMA FinishedBalance ==
    ASSUME IInv, NEW t \in Threads, NEW kept \in BOOLEAN, pc[t] \in InHand,
           NEW f, Remembers(f, t, kept),
           NEW failures,
           \/ ~kept /\ pc[t] # "publish" /\ failures = errors
           \/ kept /\ pc[t] = "publish" /\ failures = errors
           \/ kept /\ pc[t] = "decode" /\ failures = errors \cup {event[t].id}
    PROVE  /\ f.id = sent
           /\ IsFiniteSet(done \cup {f})
           /\ Balance(catalog, {}, done \cup {f}, failures)
<1>1. event[t] \in Frame /\ event[t].id = sent /\ sent \in Nat
  BY DEF IInv, Held, TypeOK
<1>2. f \in Outcome /\ f.id = sent /\ f.kind = event[t].kind /\ f.kept = kept
  BY <1>1 DEF Remembers
<1>3. /\ IsFiniteSet(done) /\ f.id \notin errors /\ \A g \in done : g.id # f.id
  BY <1>2 DEF IInv, Past
<1>4. Waiting = IF pc[t] = "publish" /\ event[t].kind \in Pgns THEN {t} ELSE {}
  BY WaitingOf DEF IInv, InHand, InLoop, Busy
<1>5. Cardinality({t}) = 1 /\ Cardinality({}) = 0
  BY FS_Singleton, FS_EmptySet
<1>6. Balance(catalog, Waiting, done, errors) /\ CountOf(catalog) \in Nat
  BY AccountedIsBalance DEF IInv, TypeOK, CountOf, Pgns
<1>7. Balance(catalog, {}, done \cup {f}, failures)
  <2>1. CASE ~(f.kind \in Pgns /\ f.kept)
    <3>1. Waiting = {}
      BY <1>2, <1>4, <2>1
    <3>2. /\ KeptOf(done \cup {f}) = KeptOf(done)
          /\ FailedOf(done \cup {f}, errors) = FailedOf(done, errors)
          /\ FailedOf(done \cup {f}, errors \cup {f.id}) = FailedOf(done, errors)
      BY <1>3, <2>1, UncountedFrame
    <3>3. failures = errors \/ failures = errors \cup {f.id}
      BY <1>1, <1>2
    <3> QED
      BY <1>6, <3>1, <3>2, <3>3 DEF Balance
  <2>2. CASE f.kind \in Pgns /\ f.kept
    <3>1. /\ Cardinality(KeptOf(done)) \in Nat
          /\ Cardinality(FailedOf(done, errors)) \in Nat
          /\ Cardinality(KeptOf(done \cup {f})) = Cardinality(KeptOf(done)) + 1
          /\ FailedOf(done \cup {f}, errors) = FailedOf(done, errors)
          /\ Cardinality(FailedOf(done \cup {f}, errors \cup {f.id}))
                = Cardinality(FailedOf(done, errors)) + 1
      BY <1>3, <2>2, KeptFrame
    <3>2. CASE pc[t] = "publish" /\ failures = errors
      <4>1. Cardinality(Waiting) = 1
        BY <1>2, <1>4, <1>5, <2>2, <3>2
      <4> QED
        BY <1>5, <1>6, <3>1, <3>2, <4>1 DEF Balance
    <3>3. CASE pc[t] = "decode" /\ failures = errors \cup {f.id}
      <4>1. Cardinality(Waiting) = 0
        BY <1>4, <1>5, <3>3
      <4> QED
        BY <1>5, <1>6, <3>1, <3>3, <4>1 DEF Balance
    <3> QED
      BY <1>1, <1>2, <2>2, <3>2, <3>3
  <2> QED
    BY <2>1, <2>2
<1> QED
  BY <1>2, <1>3, <1>7, FS_AddElement

(* The handler, or a failing write, is done with the frame.                 *)
LEMMA FinishKeeps ==
    ASSUME IInv, NEW t \in Threads, NEW label \in {"loop", "leaving"}, NEW kept \in BOOLEAN,
           pc[t] \in InHand, Finish(t, label, kept),
           pc[t] = "capture" <=> label = "leaving",
           UNCHANGED <<service, listener, capture, catalog, sent>>, faulted' \in BOOLEAN,
           rpm' = rpm \/ (pc[t] = "publish" /\ rpm' = answer[t]),
           owed' = owed \/ (pc[t] = "decode" /\ owed' = OwedWith(t)),
           \/ ~kept /\ pc[t] # "publish" /\ errors' = errors
           \/ kept /\ pc[t] = "publish" /\ errors' = errors
           \/ kept /\ pc[t] = "decode" /\ errors' = errors \cup {event[t].id}
    PROVE  IInv'
<1>1. /\ ThreadStep(t, label) /\ pc[t] # "opening"
      /\ running' = IF label = "dead" THEN FALSE ELSE running \/ label = "loop"
      /\ label \in {"leaving", "dead"} \cup InLoop
  <2>1. running
    BY DEF IInv, RunningMeansAlive, InHand, InLoop
  <2> QED
    BY <2>1 DEF ThreadStep, Finish, Goto, InHand, InLoop, Busy, listener, capture
<1>2. /\ pc' \in [Threads -> PCs]
      /\ pc'[t] = label
      /\ \A u \in Threads : u # t => pc'[u] = pc[u] /\ pc'[u] \notin Busy
      /\ running' \in BOOLEAN
      /\ Single' /\ RunningMeansAlive'
  BY <1>1, ThreadMoves
<1>3. event[t] \in Frame /\ event[t].id = sent /\ sent \in Nat
  BY DEF IInv, Held, TypeOK
<1>4. PICK f : Remembers(f, t, kept) /\ done' = done \cup {f}
  BY DoneIsOutcome DEF Finish
<1>5. f.id = sent /\ IsFiniteSet(done') /\ Balance(catalog, {}, done', errors')
  BY <1>4, FinishedBalance
<1>6. /\ event' \in [Threads -> Frame \cup {NoFrame}]
      /\ \A u \in Threads : u # t => event'[u] = event[u]
  BY DEF IInv, TypeOK, Finish
<1>7. errors' \subseteq 1..MaxFrames
  BY <1>3 DEF IInv, TypeOK, Frame
<1>8. TypeOK'
  <2>1. rpm' \in 0..MaxFrames /\ owed' \subseteq 1..MaxFrames
    BY <1>3 DEF IInv, TypeOK, OwedWith, Frame
  <2>2. answer' \in [Threads -> 0..MaxFrames]
    BY IngestAssumption DEF IInv, TypeOK, Finish, None
  <2> QED
    BY <1>1, <1>2, <1>4, <1>6, <1>7, <2>1, <2>2
       DEF Remembers, IInv, TypeOK, listener, capture, PCs
<1>9. Held' /\ Counted'
  BY <1>1, <1>2 DEF IInv, Held, Counted, InHand, InLoop, Busy
<1>13. Owing'
  <2>1. \A u \in Threads : pc[u] = "record" => u = t
    BY <1>1 DEF IInv, Single, ThreadStep, Busy, InLoop
  <2>2. ASSUME NEW n \in 0..MaxFrames, Settled(n)
        PROVE  SettledNext(n)
    <3>1. catalog["rpm"].sample \in 0..MaxFrames
      BY DEF IInv, TypeOK, Pgns
    <3> QED
      BY <1>4, <2>2, <3>1, SettledStays DEF IInv
  <2>3. ~kept \/ pc[t] = "decode" => SettledNext(event[t].id)
    BY <1>4 DEF Settled, SettledNext, Remembers
  <2>4. ASSUME NEW n \in 0..MaxFrames, Settled(n) \/ Pending(n)
        PROVE  SettledNext(n)
    BY <2>1, <2>2, <2>3, <2>4 DEF Pending, PendingNext
  <2>5. SettledNext(rpm')
    <3>1. CASE rpm' = rpm
      BY <2>2, <3>1 DEF IInv, TypeOK, Owing
    <3>2. CASE rpm' = answer[t]
      <4>1. answer[t] \in 0..MaxFrames /\ (Settled(answer[t]) \/ Pending(answer[t]))
        BY DEF IInv, TypeOK, Owing
      <4> QED
        BY <2>4, <3>2, <4>1
    <3> QED
      BY <3>1, <3>2
  <2>6. ASSUME NEW n \in owed'
        PROVE  SettledNext(n)
    <3>1. CASE n \in owed
      BY <2>4, <3>1 DEF IInv, TypeOK, Owing
    <3>2. CASE pc[t] = "decode" /\ n = event[t].id
      BY <2>3, <3>2
    <3> QED
      BY <3>1, <3>2 DEF OwedWith
  <2>7. ASSUME NEW u \in Threads
        PROVE  SettledNext(answer'[u])
    <3>1. answer[u] \in 0..MaxFrames /\ (Settled(answer[u]) \/ Pending(answer[u]))
      BY DEF IInv, TypeOK, Owing
    <3>2. answer'[u] = IF u = t THEN None ELSE answer[u]
      BY DEF IInv, TypeOK, Finish
    <3>3. SettledNext(None)
      BY DEF IInv, TypeOK, Settled, SettledNext, None, Pgns
    <3> QED
      BY <2>4, <3>1, <3>2, <3>3
  <2> QED
    BY <2>5, <2>6, <2>7 DEF Owing, Settled, SettledNext, Pending, PendingNext
<1>10. OpenFile' /\ CaptureIsGapless'
  BY <1>1, <1>2 DEF IInv, OpenFile, CaptureIsGapless, ThreadStep, EndsWith, InHand, InLoop, Busy,
                    capture
<1>11. Past'
  <2>1. \A u \in Threads : pc'[u] \notin InHand
    BY <1>2 DEF InHand, InLoop, Busy
  <2> QED
    BY <1>3, <1>4, <1>5, <2>1 DEF IInv, Past
<1>12. FramesAccounted'
  <2>1. Waiting' = {}
    BY <1>2 DEF Waiting, InLoop, Busy
  <2>2. Balance(catalog', Waiting', done', errors')
    BY <1>5, <2>1
  <2> QED
    BY <2>2 DEF FramesAccounted, Balance, CountOf, Waiting, KeptOf, FailedOf
<1> QED
  BY <1>2, <1>8, <1>9, <1>10, <1>11, <1>12, <1>13 DEF IInv

LEMMA WriteFrameKeeps ==
    ASSUME IInv, NEW t \in Threads, WriteFrame(t)
    PROVE  IInv'
<1>1. CASE handle = "open" /\ files' = [files EXCEPT ![session] = Append(@, event[t].id)]
           /\ Goto(t, "decode") /\ UNCHANGED <<inHand, done>>
  <2>1. /\ ThreadStep(t, "decode") /\ pc[t] = "capture" /\ running' = running
        /\ UNCHANGED <<faulted, event, stores, answers, sent, done>>
    BY <1>1 DEF ThreadStep, WriteFrame, Goto, Busy, InLoop, listener, inHand, answers
  <2>2. running' = (running \/ "decode" = "loop") /\ "decode" \in InLoop
    BY <2>1 DEF IInv, TypeOK, InLoop
  <2>3. /\ pc' \in [Threads -> PCs]
        /\ pc'[t] = "decode"
        /\ \A u \in Threads : u # t => pc'[u] = pc[u] /\ pc'[u] \notin Busy
        /\ running' \in BOOLEAN
        /\ Single' /\ RunningMeansAlive'
    BY <2>1, <2>2, ThreadMoves
  <2>4. event[t] \in Frame /\ event[t].id = sent /\ sent \in 1..MaxFrames
        /\ session \in 1..MaxSessions
    BY <1>1, <2>1 DEF IInv, TypeOK, Held, OpenFile, InHand, Frame, None
  <2>5. /\ files[session] \in Seq(1..MaxFrames) /\ EndsWith(files[session], sent - 1)
        /\ files'[session] = Append(files[session], sent)
        /\ files' \in [1..MaxSessions -> Seq(1..MaxFrames)]
        /\ \A s \in 1..MaxSessions : s # session => files'[s] = files[s]
    BY <1>1, <2>1, <2>4 DEF IInv, TypeOK, OpenFile
  <2>6. TypeOK'
    BY <2>1, <2>3, <2>5 DEF IInv, TypeOK, ThreadStep, stores, answers, PCs
  <2>7. Held' /\ Counted' /\ Owing'
    <3>1. \A u \in Threads : pc[u] # "record"
      BY <2>1 DEF IInv, Single, ThreadStep, Busy, InLoop
    <3>2. Owing'
      BY <2>1, <3>1, OwingStays DEF IInv, stores, answers
    <3> QED
      BY <2>1, <2>3, <3>2 DEF IInv, Held, Counted, InHand, stores
  <2>8. OpenFile'
    <3>1. EndsWith(files'[session], sent)
      BY <2>4, <2>5 DEF EndsWith
    <3>2. session <= sessions /\ session \in Nat /\ sessions \in Nat
      BY DEF IInv, TypeOK, OpenFile
    <3> QED
      BY <2>1, <2>3, <2>5, <3>1, <3>2 DEF IInv, OpenFile, ThreadStep, InLoop, Busy
  <2>9. CaptureIsGapless'
    <3>1. \A i \in 1..(Len(files'[session]) - 1) :
             files'[session][i + 1] = files'[session][i] + 1
      BY <2>4, <2>5 DEF IInv, CaptureIsGapless, EndsWith
    <3> QED
      BY <2>5, <3>1 DEF IInv, CaptureIsGapless
  <2>10. Past'
    BY <2>1, <2>3 DEF IInv, Past, InHand, stores
  <2>11. Waiting' = Waiting
    BY <2>1, <2>3 DEF Waiting
  <2>12. FramesAccounted'
    BY <2>1, <2>11, BalanceStays DEF IInv, stores
  <2> QED
    BY <2>3, <2>6, <2>7, <2>8, <2>9, <2>10, <2>12 DEF IInv
<1>2. CASE handle = "none" /\ Goto(t, "decode") /\ UNCHANGED <<inHand, files, done>>
  <2>1. /\ ThreadStep(t, "decode") /\ pc[t] = "capture" /\ running' = running
        /\ UNCHANGED <<faulted, event, files, stores, answers, sent, done>>
    BY <1>2 DEF ThreadStep, WriteFrame, Goto, Busy, InLoop, listener, inHand, answers
  <2>2. running' = (running \/ "decode" = "loop") /\ "decode" \in InLoop
    BY <2>1 DEF IInv, TypeOK, InLoop
  <2> QED
    BY <1>2, <2>1, <2>2, QuietThreadStep
<1>3. CASE Finish(t, "leaving", FALSE) /\ UNCHANGED files
  <2>1. /\ pc[t] = "capture" /\ UNCHANGED <<service, faulted, listener, capture, stores, owed, sent>>
    BY <1>3 DEF WriteFrame, capture
  <2>2. faulted' \in BOOLEAN
    BY <2>1 DEF IInv, TypeOK
  <2> QED
    BY <1>3, <2>1, <2>2, FinishKeeps DEF InHand, stores
<1> QED
  BY <1>1, <1>2, <1>3 DEF WriteFrame

LEMMA DecodeRaisesKeeps ==
    ASSUME IInv, NEW t \in Threads, DecodeRaises(t)
    PROVE  IInv'
<1>1. PICK kept \in BOOLEAN :
         /\ Finish(t, "loop", kept)
         /\ IF kept THEN errors' = errors \cup {event[t].id} ELSE errors' = errors
  BY DEF DecodeRaises
<1>2. /\ pc[t] = "decode" /\ faulted' = TRUE
      /\ UNCHANGED <<service, listener, capture, catalog, rpm, sent>>
  BY DEF DecodeRaises
<1>3. faulted' \in BOOLEAN /\ owed' \in {owed, OwedWith(t)}
  BY <1>2 DEF DecodeRaises
<1> QED
  BY <1>1, <1>2, <1>3, FinishKeeps DEF InHand

LEMMA PublishKeeps ==
    ASSUME IInv, NEW t \in Threads, Publish(t)
    PROVE  IInv'
<1>1. /\ Finish(t, "loop", TRUE) /\ pc[t] = "publish" /\ errors' = errors
      /\ UNCHANGED <<service, listener, capture, catalog, sent>> /\ faulted' \in BOOLEAN
  BY DEF IInv, TypeOK, Publish
<1>2. rpm' \in {rpm, answer[t]} /\ owed' = owed
  BY DEF Publish
<1> QED
  BY <1>1, <1>2, FinishKeeps DEF InHand

(* The table after the upsert: one more of the frame's PGN, with the frame  *)
(* for its sample; a foreign frame changes nothing.                         *)
LEMMA Upsert ==
    ASSUME IInv, NEW t \in Threads, pc[t] = "record",
           catalog' = IF event[t].kind = "foreign" THEN catalog
                      ELSE [catalog EXCEPT ![event[t].kind] =
                               [count |-> @.count + 1, sample |-> event[t].id]]
    PROVE  /\ catalog' \in [Pgns -> [count : 0..MaxFrames, sample : 0..MaxFrames]]
           /\ \A p \in Pgns : catalog'[p].count <= sent /\ catalog'[p].sample <= sent
           /\ catalog["rpm"].sample <= catalog'["rpm"].sample
           /\ event[t].kind = "rpm" => catalog'["rpm"].sample = sent
           /\ event[t].kind \in Pgns => CountOf(catalog') = CountOf(catalog) + 1
           /\ event[t].kind \notin Pgns => catalog' = catalog
<1>1. /\ event[t] \in Frame /\ event[t].id = sent /\ sent \in 0..MaxFrames
      /\ event[t].kind \in Pgns \cup {"foreign"}
  BY IngestAssumption DEF IInv, TypeOK, Held, InHand, Frame, Pgns
<1>2. \A p \in Pgns : /\ catalog[p] \in [count : 0..MaxFrames, sample : 0..MaxFrames]
                      /\ catalog[p].count < sent /\ catalog[p].sample <= sent
  BY DEF IInv, TypeOK, Counted
<1>3. CASE event[t].kind = "foreign"
  BY <1>1, <1>2, <1>3 DEF IInv, TypeOK, Pgns
<1>4. CASE event[t].kind \in Pgns
  <2> DEFINE row == [count |-> catalog[event[t].kind].count + 1, sample |-> sent]
  <2>1. catalog' = [catalog EXCEPT ![event[t].kind] = row]
    BY <1>1, <1>4 DEF Pgns
  <2>2. row \in [count : 0..MaxFrames, sample : 0..MaxFrames] /\ row.count <= sent /\ row.sample = sent
        /\ row.count = catalog[event[t].kind].count + 1
    BY <1>1, <1>2, <1>4, IngestAssumption
  <2> HIDE DEF row
  <2>3. /\ catalog' \in [Pgns -> [count : 0..MaxFrames, sample : 0..MaxFrames]]
        /\ catalog'[event[t].kind] = row
        /\ \A p \in Pgns : p # event[t].kind => catalog'[p] = catalog[p]
    BY <1>4, <2>1, <2>2 DEF IInv, TypeOK
  <2>4. CountOf(catalog') = CountOf(catalog) + 1
    BY <1>2, <1>4, <2>2, <2>3 DEF CountOf, Pgns
  <2> QED
    BY <1>1, <1>2, <1>4, <2>2, <2>3, <2>4 DEF Pgns
<1> QED
  BY <1>1, <1>3, <1>4

LEMMA RecordKeeps ==
    ASSUME IInv, NEW t \in Threads, Record(t)
    PROVE  IInv'
<1>1. CASE Finish(t, "loop", FALSE) /\ UNCHANGED catalog
  <2>1. /\ pc[t] = "record" /\ errors' = errors
        /\ UNCHANGED <<service, listener, capture, catalog, rpm, owed, sent>> /\ faulted' \in BOOLEAN
    BY <1>1 DEF IInv, TypeOK, Record
  <2> QED
    BY <1>1, <2>1, FinishKeeps DEF InHand
<1>2. CASE /\ catalog' = IF event[t].kind = "foreign" THEN catalog
                         ELSE [catalog EXCEPT ![event[t].kind] =
                                  [count |-> @.count + 1, sample |-> event[t].id]]
           /\ Goto(t, "publish") /\ UNCHANGED <<inHand, done>>
  <2>1. /\ ThreadStep(t, "publish") /\ pc[t] = "record" /\ running' = running
        /\ UNCHANGED <<faulted, event, files, errors, rpm, answers, sent, done>>
    BY <1>2 DEF ThreadStep, Record, Goto, Busy, InLoop, listener, capture, inHand, answers
  <2>2. running' = (running \/ "publish" = "loop") /\ "publish" \in InLoop
    BY <2>1 DEF IInv, TypeOK, InLoop
  <2>3. /\ pc' \in [Threads -> PCs]
        /\ pc'[t] = "publish"
        /\ \A u \in Threads : u # t => pc'[u] = pc[u] /\ pc'[u] \notin Busy
        /\ running' \in BOOLEAN
        /\ Single' /\ RunningMeansAlive'
    BY <2>1, <2>2, ThreadMoves
  <2>4. /\ catalog' \in [Pgns -> [count : 0..MaxFrames, sample : 0..MaxFrames]]
        /\ \A p \in Pgns : catalog'[p].count <= sent /\ catalog'[p].sample <= sent
        /\ catalog["rpm"].sample <= catalog'["rpm"].sample
        /\ event[t].kind = "rpm" => catalog'["rpm"].sample = sent
        /\ event[t].kind \in Pgns => CountOf(catalog') = CountOf(catalog) + 1
        /\ event[t].kind \notin Pgns => catalog' = catalog
    BY <1>2, <2>1, Upsert
  <2>5. TypeOK'
    BY <2>1, <2>3, <2>4 DEF IInv, TypeOK, ThreadStep, PCs, answers
  <2>6. Held' /\ Counted'
    BY <2>1, <2>3, <2>4 DEF IInv, Held, Counted, InHand, InLoop, Busy
  <2>7. Owing'
    <3>1. \A u \in Threads : pc[u] = "record" => u = t
      BY <2>1 DEF IInv, Single, ThreadStep, Busy, InLoop
    <3>2. /\ catalog'["rpm"].sample \in 0..MaxFrames
          /\ event[t].id = sent /\ sent \in 0..MaxFrames
      BY <2>1, <2>4 DEF IInv, TypeOK, Held, InHand, Pgns
    <3>3. ASSUME NEW n \in 0..MaxFrames, Settled(n) \/ Pending(n)
          PROVE  SettledNext(n)
      <4>1. CASE Settled(n)
        BY <2>1, <2>4, <3>2, <4>1, SettledStays DEF IInv
      <4>2. CASE Pending(n)
        BY <2>4, <3>1, <3>2, <4>2 DEF Pending, PendingNext, Settled, SettledNext
      <4> QED
        BY <3>3, <4>1, <4>2
    <3>4. SettledNext(rpm')
      BY <2>1, <3>3 DEF IInv, TypeOK, Owing
    <3>5. \A n \in owed' : SettledNext(n)
      BY <2>1, <3>3 DEF IInv, TypeOK, Owing, answers
    <3>6. \A u \in Threads : SettledNext(answer'[u])
      BY <2>1, <3>3 DEF IInv, TypeOK, Owing, answers
    <3> QED
      BY <3>4, <3>5, <3>6 DEF Owing, Settled, SettledNext, Pending, PendingNext
  <2>8. OpenFile' /\ CaptureIsGapless'
    BY <2>1, <2>3 DEF IInv, OpenFile, CaptureIsGapless, ThreadStep, EndsWith, InLoop, Busy
  <2>9. Past'
    BY <2>1, <2>3 DEF IInv, Past, InHand
  <2>10. FramesAccounted'
    <3>1. Waiting = {} /\ Waiting' = IF event[t].kind \in Pgns THEN {t} ELSE {}
      BY <2>1, <2>3, WaitingOf DEF IInv, Waiting, Busy, InLoop
    <3>2. Cardinality({t}) = 1 /\ Cardinality({}) = 0
      BY FS_Singleton, FS_EmptySet
    <3>3. CountOf(catalog) \in Nat /\ Balance(catalog, Waiting, done, errors)
      BY AccountedIsBalance DEF IInv, TypeOK, CountOf, Pgns
    <3>4. /\ Cardinality(KeptOf(done)) \in Nat
          /\ Cardinality(FailedOf(done, errors)) \in Nat
      <4>1. KeptOf(done) \subseteq done /\ FailedOf(done, errors) \subseteq done
        BY DEF KeptOf, FailedOf
      <4> QED
        BY <4>1, FS_Subset, FS_CardinalityType DEF IInv, Past
    <3>5. Balance(catalog', Waiting', done, errors)
      BY <2>4, <3>1, <3>2, <3>3, <3>4 DEF Balance
    <3>6. Balance(catalog', Waiting', done', errors')
      BY <2>1, <3>5
    <3> QED
      BY <3>6 DEF FramesAccounted, Balance, CountOf, Waiting, KeptOf, FailedOf
  <2> QED
    BY <2>3, <2>5, <2>6, <2>7, <2>8, <2>9, <2>10 DEF IInv
<1> QED
  BY <1>1, <1>2 DEF Record

---------------------------------------------------------------------------
LEMMA CrashKeeps ==
    ASSUME IInv, Crash
    PROVE  IInv'
<1>1. /\ service' = "down" /\ faulted' = FALSE /\ thread' = None /\ stopEvent' = FALSE
      /\ running' = FALSE /\ pc' = [t \in Threads |-> "unborn"]
      /\ event' = [t \in Threads |-> NoFrame] /\ session' = None /\ handle' = "none" /\ rpm' = 0
      /\ owed' = {} /\ answer' = [t \in Threads |-> None]
      /\ UNCHANGED <<sessions, files, catalog, errors, sent>>
  BY DEF Crash
<1>2. /\ done' \subseteq Outcome /\ IsFiniteSet(done') /\ \A f \in done' : f.id <= sent
      /\ Balance(catalog, {}, done', errors)
  <2>1. CASE \A t \in Threads : pc[t] # "publish"
    <3>1. done' = done /\ Waiting = {}
      BY <2>1, NobodyWaits DEF Crash
    <3> QED
      BY <3>1, AccountedIsBalance DEF IInv, TypeOK, Past
  <2>2. ASSUME NEW t \in Threads, pc[t] = "publish"
        PROVE  /\ done' \subseteq Outcome /\ IsFiniteSet(done') /\ \A f \in done' : f.id <= sent
               /\ Balance(catalog, {}, done', errors)
    <3>1. { x \in Threads : pc[x] = "publish" } = {t}
      BY <2>2 DEF IInv, Single, Busy, InLoop
    <3>2. PICK f : Remembers(f, t, TRUE) /\ done' = done \cup {f}
      <4>1. { DoneWith(x, TRUE) : x \in { y \in Threads : pc[y] = "publish" } } = {DoneWith(t, TRUE)}
        BY <3>1
      <4>2. done' = done \cup {DoneWith(t, TRUE)}
        BY <4>1 DEF Crash
      <4> QED
        BY <2>2, <4>2, DoneIsOutcome DEF InHand
    <3>3. f.id = sent /\ IsFiniteSet(done') /\ Balance(catalog, {}, done', errors)
      BY <2>2, <3>2, FinishedBalance DEF InHand
    <3> QED
      BY <3>2, <3>3 DEF Remembers, IInv, TypeOK, Past
  <2> QED
    BY <2>1, <2>2
<1>3. TypeOK'
  <2>1. pc' \in [Threads -> PCs] /\ event' \in [Threads -> Frame \cup {NoFrame}]
    BY <1>1 DEF PCs
  <2>2. /\ thread' \in 0..MaxStarts /\ session' \in 0..MaxSessions /\ rpm' \in 0..MaxFrames
    BY <1>1, IngestAssumption DEF None
  <2> QED
    <3>1. answer' \in [Threads -> 0..MaxFrames]
      BY <1>1, IngestAssumption DEF None
    <3> QED
      BY <1>1, <1>2, <2>1, <2>2, <3>1 DEF IInv, TypeOK, PCs, ServiceStages
<1>4. Single' /\ RunningMeansAlive' /\ Held' /\ Counted'
  BY <1>1 DEF IInv, Single, RunningMeansAlive, Held, Counted, InHand, InLoop, Busy
<1>5. Owing'
  <2>1. catalog'["rpm"].sample \in 0..MaxFrames
    BY <1>1 DEF IInv, TypeOK, Pgns
  <2>2. rpm' = 0 /\ owed' = {} /\ \A t \in Threads : answer'[t] = 0
    BY <1>1 DEF None
  <2> QED
    BY <2>1, <2>2 DEF Owing, Settled, SettledNext
<1>6. OpenFile' /\ CaptureIsGapless'
  BY <1>1 DEF IInv, TypeOK, OpenFile, CaptureIsGapless, None
<1>7. Past'
  BY <1>1, <1>2 DEF IInv, Past, InHand
<1>8. FramesAccounted'
  <2>1. Waiting' = {}
    BY <1>1 DEF Waiting
  <2>2. Balance(catalog', Waiting', done', errors')
    BY <1>1, <1>2, <2>1
  <2> QED
    BY <2>2 DEF FramesAccounted, Balance, CountOf, Waiting, KeptOf, FailedOf
<1> QED
  BY <1>3, <1>4, <1>5, <1>6, <1>7, <1>8 DEF IInv

LEMMA InitHolds == Init => IInv
<1> SUFFICES ASSUME Init PROVE IInv
  OBVIOUS
<1>1. TypeOK
  <2>1. /\ service \in ServiceStages /\ faulted \in BOOLEAN /\ stopEvent \in BOOLEAN
        /\ running \in BOOLEAN /\ handle \in {"none", "open", "closed"} /\ done \subseteq Outcome
    BY DEF Init, ServiceStages
  <2>2. /\ thread \in 0..MaxStarts /\ session \in 0..MaxSessions /\ sessions \in 0..MaxSessions
        /\ rpm \in 0..MaxFrames /\ sent \in 0..MaxFrames /\ errors \subseteq 1..MaxFrames
    BY IngestAssumption DEF Init, None
  <2>3. /\ pc \in [Threads -> PCs] /\ event \in [Threads -> Frame \cup {NoFrame}]
        /\ owed \subseteq 1..MaxFrames /\ answer \in [Threads -> 0..MaxFrames]
    BY IngestAssumption DEF Init, PCs, None
  <2>4. files \in [1..MaxSessions -> Seq(1..MaxFrames)]
    BY DEF Init
  <2>5. catalog \in [Pgns -> [count : 0..MaxFrames, sample : 0..MaxFrames]]
    BY IngestAssumption DEF Init
  <2> QED
    BY <2>1, <2>2, <2>3, <2>4, <2>5 DEF TypeOK, PCs
<1>2. Single /\ RunningMeansAlive /\ Held /\ Counted /\ Owing
  <2>1. catalog["rpm"].sample = 0 /\ rpm = 0 /\ owed = {} /\ \A t \in Threads : answer[t] = 0
    BY DEF Init, Pgns, None
  <2>2. Owing
    BY <2>1 DEF Owing, Settled, SettledNext
  <2> QED
    BY <2>2 DEF Init, Single, RunningMeansAlive, Held, Counted, Pgns, InHand, InLoop, Busy
<1>3. OpenFile /\ CaptureIsGapless
  BY DEF Init, OpenFile, CaptureIsGapless, None
<1>4. Past
  BY FS_EmptySet DEF Init, Past, InHand
<1>5. FramesAccounted
  <2>1. Waiting = {} /\ KeptOf(done) = {} /\ FailedOf(done, errors) = {}
    BY DEF Init, Waiting, KeptOf, FailedOf
  <2>2. CountOf(catalog) = 0
    BY DEF Init, CountOf, Pgns
  <2>3. Balance(catalog, Waiting, done, errors)
    BY <2>1, <2>2, FS_EmptySet DEF Balance
  <2> QED
    BY <2>3, AccountedIsBalance
<1> QED
  BY <1>1, <1>2, <1>3, <1>4, <1>5 DEF IInv

LEMMA StutterKeeps ==
    ASSUME IInv, UNCHANGED vars
    PROVE  IInv'
<1>1. TypeOK' /\ Single' /\ RunningMeansAlive'
  BY DEF IInv, vars, listener, TypeOK, Single, RunningMeansAlive, capture, stores, answers
<1>2. Held' /\ Counted' /\ Owing'
  BY OwingStays DEF IInv, vars, Held, Counted, stores, answers
<1>3. OpenFile' /\ CaptureIsGapless' /\ Past'
  BY DEF IInv, vars, OpenFile, CaptureIsGapless, EndsWith, Past, capture, stores
<1>4. Waiting' = Waiting
  BY DEF vars, Waiting
<1>5. FramesAccounted'
  BY <1>4, BalanceStays DEF IInv, vars, stores
<1> QED
  BY <1>1, <1>2, <1>3, <1>5 DEF IInv

LEMMA NextKeeps == IInv /\ [Next]_vars => IInv'
<1> SUFFICES ASSUME IInv, [Next]_vars PROVE IInv'
  OBVIOUS
<1>1. CASE Lifecycle
  BY <1>1, StartKeeps, ServiceKeeps, CaptureKeeps DEF Lifecycle
<1>2. CASE StartCapture \/ StopCapture
  BY <1>2, CaptureKeeps
<1>3. CASE Crash
  BY <1>3, CrashKeeps
<1>4. ASSUME NEW t \in Threads, Run(t) \/ RecvFails(t)
      PROVE  IInv'
  <2>1. CASE Handle(t)
    BY <2>1, WriteFrameKeeps, DecodeRaisesKeeps, DecodeKeeps, RecordKeeps, PublishKeeps DEF Handle
  <2>2. CASE OpenBus(t) \/ Leave(t) \/ Recv(t) \/ Shutdown(t) \/ RecvFails(t)
    BY <2>2, OpenBusKeeps, LeavingKeeps, RecvKeeps, ShutdownKeeps
  <2> QED
    BY <1>4, <2>1, <2>2 DEF Run
<1>5. CASE UNCHANGED vars
  BY <1>5, StutterKeeps
<1> QED
  BY <1>1, <1>2, <1>3, <1>4, <1>5 DEF Next

THEOREM Inductive == Spec => []IInv
BY InitHolds, NextKeeps, PTL DEF Spec

---------------------------------------------------------------------------
(* Every state has its type: no counter, row or file leaves its bounds.     *)
THEOREM TypeCorrect == Spec => []TypeOK
<1>1. IInv => TypeOK
  BY DEF IInv
<1> QED
  BY <1>1, Inductive, PTL

(* socketcan.py:38-45: through any sequence of starts, stops that do not    *)
(* wait and crashes, at most one listener thread is alive.                  *)
THEOREM OneListenerAlways == Spec => []OneListener
<1>1. IInv => OneListener
  <2> SUFFICES ASSUME IInv PROVE OneListener
    OBVIOUS
  <2>1. Live \subseteq {thread}
    BY DEF IInv, Single, Live, IsAlive, Busy
  <2>2. Live = {} \/ Live = {thread}
    BY <2>1
  <2>3. Cardinality({}) = 0 /\ Cardinality({thread}) = 1
    BY FS_EmptySet, FS_Singleton
  <2> QED
    BY <2>2, <2>3 DEF OneListener
<1> QED
  BY <1>1, Inductive, PTL

(* socketcan.py:67-103: what is_running says is true of the threads.        *)
THEOREM RunningIsTrue == Spec => []RunningMeansAlive
<1>1. IInv => RunningMeansAlive
  BY DEF IInv
<1> QED
  BY <1>1, Inductive, PTL

(* capture.py:62-79: no frame is missing between two captured ones, though  *)
(* writes fail, listeners end and sessions are stopped at any moment.       *)
THEOREM CapturesHaveNoGaps == Spec => []CaptureIsGapless
<1>1. IInv => CaptureIsGapless
  BY DEF IInv
<1> QED
  BY <1>1, Inductive, PTL

(* platform.py:105-118: every handled frame with a PGN is counted once, or  *)
(* has its decoder_error, or was taken away by a failing statement.         *)
THEOREM EveryFrameAccounted == Spec => []FramesAccounted
<1>1. IInv => FramesAccounted
  BY DEF IInv
<1> QED
  BY <1>1, Inductive, PTL

(* platform.py:106-118: when telemetry shows a frame that the catalog has   *)
(* not reached, that frame has its decoder_error or a statement failed for  *)
(* it: only a late answer brings such a frame to the dashboard.             *)
THEOREM TelemetryFollows == Spec => []TelemetryExplained
<1>1. IInv => TelemetryExplained
  BY DEF IInv, Owing, Settled, SettledNext, TelemetryExplained
<1> QED
  BY <1>1, Inductive, PTL
=============================================================================
