------------------------ MODULE CommandServiceProofs ------------------------
(***************************************************************************)
(* Proofs about CommandService for any set of threads, requests, buttons   *)
(* and settings: what is sent was approved and audited before, behind open *)
(* gates, and answers, events and audit rows tell what happened; frames    *)
(* keep to the rate, and the bus is opened once, unless threads overlap.   *)
(***************************************************************************)
EXTENDS CommandService, TLAPS, FiniteSetTheorems

Sent(id) == \E f \in wire : f.id = id

Told(id) == (\E e \in events : e.id = id) \/ (\E r \in replies : r.id = id)

\* What is true of the call a thread serves, by how far it has come.
Stage(w) ==
    pc[w] # "idle" =>
        /\ job[w].id <= calls
        /\ ~Told(job[w].id)
        /\ Sent(job[w].id) <=> pc[w] = "sent"
        /\ job[w].kind # "preview" => settings.lab_transmit_enabled
        /\ pc[w] \in InLimiter => GatesOpen(settings) /\ Key(job[w].req) \in Keys
        /\ pc[w] = "audit" =>
               job[w].reason # "none" /\ (job[w].reason = "approved" => GatesOpen(settings))
        /\ pc[w] = "note" => job[w].kind = "preview" /\ HasRow(job[w].id)
        /\ pc[w] \in InTransmit =>
               job[w].kind # "preview" /\ Approved(job[w].id) /\ GatesOpen(settings)

\* No two threads serve one call, and a call has a number before it has effects.
Distinct ==
    \A v, w \in Workers : v # w /\ pc[v] # "idle" /\ pc[w] # "idle" => job[v].id # job[w].id

Numbered ==
    /\ Distinct
    /\ \A x \in events \cup wire \cup replies : x.id <= calls

Staged == \A w \in Workers : Stage(w)

IInv ==
    /\ TypeOK
    /\ Numbered
    /\ Staged
    /\ WireAudited
    /\ UnauditedDidNothing
    /\ EventsTruthful
    /\ AnswersTruthful

---------------------------------------------------------------------------
(* What a thread's step may touch of what the invariant speaks of.          *)

GrowsBy(new, old, id) == old \subseteq new /\ \A x \in new : x \in old \/ x.id = id

StepOf(w) ==
    /\ pc[w] # "idle"
    /\ settings' = settings /\ calls' = calls
    /\ \A v \in Workers : v # w => pc'[v] = pc[v] /\ job'[v] = job[v]
    /\ pc'[w] # "idle" => job'[w].id = job[w].id
    /\ GrowsBy(audit', audit, job[w].id) /\ GrowsBy(events', events, job[w].id)
    /\ GrowsBy(wire', wire, job[w].id) /\ GrowsBy(replies', replies, job[w].id)

(* A step of one thread keeps the invariant of the calls of all others.     *)
LEMMA OthersKeepStage ==
    ASSUME IInv, NEW w \in Workers, StepOf(w)
    PROVE  Numbered' /\ \A v \in Workers : v # w => Stage(v)'
<1>1. ASSUME NEW v \in Workers, v # w, pc[v] # "idle"
      PROVE  Stage(v)'
  <2>1. job[v].id # job[w].id /\ pc'[v] = pc[v] /\ job'[v] = job[v]
    BY <1>1 DEF IInv, Numbered, Distinct, StepOf
  <2>2. Sent(job[v].id)' <=> Sent(job[v].id)
    BY <2>1 DEF StepOf, GrowsBy, Sent
  <2>3. Told(job[v].id)' <=> Told(job[v].id)
    BY <2>1 DEF StepOf, GrowsBy, Told
  <2>4. /\ HasRow(job[v].id) => HasRow(job[v].id)'
        /\ Approved(job[v].id) => Approved(job[v].id)'
    BY <2>1 DEF StepOf, GrowsBy, HasRow, Approved
  <2>5. Stage(v) /\ settings' = settings /\ calls' = calls
    BY DEF IInv, Staged, StepOf
  <2> QED
    BY <2>1, <2>2, <2>3, <2>4, <2>5 DEF Stage
<1>2. ASSUME NEW v \in Workers, v # w, pc[v] = "idle"
      PROVE  Stage(v)'
  BY <1>2 DEF StepOf, Stage
<1>3. Numbered'
  <2>1. job[w].id <= calls
    BY DEF IInv, Staged, Stage, StepOf
  <2>2. \A x \in (events \cup wire \cup replies)' : x.id <= calls'
    BY <2>1 DEF IInv, Numbered, Distinct, StepOf, GrowsBy
  <2>3. \A u, v \in Workers : u # v /\ pc'[u] # "idle" /\ pc'[v] # "idle"
                                => job'[u].id # job'[v].id
    BY DEF IInv, Numbered, Distinct, StepOf
  <2> QED
    BY <2>2, <2>3 DEF Numbered, Distinct
<1> QED
  BY <1>1, <1>2, <1>3

(* Steps that put nothing on the wire and tell nobody.                      *)
LEMMA QuietStep ==
    ASSUME IInv, NEW w \in Workers, StepOf(w),
           wire' = wire, events' = events, replies' = replies
    PROVE  WireAudited' /\ UnauditedDidNothing' /\ EventsTruthful' /\ AnswersTruthful'
<1>1. \A id : (HasRow(id) => HasRow(id)') /\ (Approved(id) => Approved(id)')
  BY DEF StepOf, GrowsBy, HasRow, Approved
<1>2. \A id, kind : Logged(id, kind)' <=> Logged(id, kind)
  BY DEF Logged
<1> QED
  BY <1>1, <1>2 DEF IInv, WireAudited, UnauditedDidNothing, EventsTruthful, AnswersTruthful

(* A call's answer: true if it is an error, or of what the call has done.   *)
LEMMA AnswerStep ==
    ASSUME IInv, NEW w \in Workers, StepOf(w), NEW outcome, NEW i, i = job[w].id,
           wire' = wire,
           replies' = replies \cup {[id |-> i, outcome |-> outcome]},
           \A e \in events' : \/ e \in events
                              \/ /\ e.kind = "command_preview_evaluated" /\ HasRow(i)
                              \/ /\ e.kind = "lab_fusion_transmitted"
                                 /\ pc[w] = "sent"
                              \/ /\ e.kind = "lab_fusion_transmit_failed"
                                 /\ pc[w] = "failed",
           outcome # "error" => \/ outcome = "transmitted" /\ pc[w] = "sent"
                                      /\ Logged(i, "lab_fusion_transmitted")'
                                \/ outcome \notin {"transmitted", "lab_disabled"} /\ pc[w] # "sent"
                                      /\ HasRow(i)'
    PROVE  WireAudited' /\ UnauditedDidNothing' /\ EventsTruthful' /\ AnswersTruthful'
<1>1. \A id : (HasRow(id) => HasRow(id)') /\ (Approved(id) => Approved(id)')
  BY DEF StepOf, GrowsBy, HasRow, Approved
<1>2. \A id, kind : Logged(id, kind) => Logged(id, kind)'
  BY DEF Logged, StepOf, GrowsBy
<1>3. Sent(i) <=> pc[w] = "sent"
  BY DEF IInv, Staged, Stage, StepOf
<1>4. pc[w] \in {"sent", "failed"} => Approved(i) /\ HasRow(i)
  BY DEF IInv, Staged, Stage, StepOf, InTransmit, Approved, HasRow
<1>5. \A e \in events' : e \in events \/ e.id = i
  BY DEF StepOf, GrowsBy
<1>6. WireAudited'
  BY <1>1 DEF IInv, WireAudited
<1>7. UnauditedDidNothing'
  <2>1. ASSUME NEW e \in events' PROVE HasRow(e.id)'
    <3>1. CASE e \in events
      BY <1>1, <3>1 DEF IInv, UnauditedDidNothing
    <3>2. CASE e \notin events
      BY <1>1, <1>4, <1>5, <3>2
    <3> QED
      BY <3>1, <3>2
  <2>2. ASSUME NEW r \in replies'
        PROVE  r.outcome \in {"lab_disabled", "error"} \/ HasRow(r.id)'
    <3>1. CASE r \in replies
      BY <1>1, <3>1 DEF IInv, UnauditedDidNothing
    <3>2. CASE r.id = i /\ r.outcome = outcome /\ outcome # "error"
      <4>1. HasRow(i)'
        BY <1>1, <1>4, <3>2
      <4> QED
        BY <3>2, <4>1
    <3>3. CASE r.outcome = "error"
      BY <3>3
    <3> QED
      BY <3>1, <3>2, <3>3
  <2> QED
    BY <2>1, <2>2 DEF UnauditedDidNothing
<1>8. EventsTruthful'
  BY <1>3, <1>5 DEF IInv, EventsTruthful, Sent
<1>9. AnswersTruthful'
  <2> SUFFICES ASSUME NEW r \in replies'
               PROVE  /\ r.outcome = "transmitted" =>
                            Sent(r.id)' /\ Approved(r.id)'
                              /\ Logged(r.id, "lab_fusion_transmitted")'
                      /\ r.outcome \notin {"transmitted", "error"} => ~Sent(r.id)'
    BY DEF AnswersTruthful, Sent
  <2>1. Sent(r.id)' <=> Sent(r.id)
    BY DEF Sent
  <2>2. CASE r \in replies
    BY <1>1, <1>2, <2>1, <2>2 DEF IInv, AnswersTruthful, Sent
  <2>3. CASE r.id = i /\ r.outcome = outcome /\ outcome = "transmitted"
    <3>1. /\ pc[w] = "sent"
          /\ Logged(i, "lab_fusion_transmitted")'
      BY <2>3
    <3>2. Sent(i)' /\ Approved(i)'
      BY <1>1, <1>3, <1>4, <3>1 DEF Sent
    <3> QED
      BY <2>3, <3>1, <3>2
  <2>4. CASE r.id = i /\ r.outcome = outcome /\ outcome \notin {"transmitted", "error"}
    <3>1. ~Sent(i)'
      BY <1>3, <2>4 DEF Sent
    <3> QED
      BY <2>4, <3>1
  <2>5. CASE r.outcome = "error"
    BY <2>5
  <2> QED
    BY <2>2, <2>3, <2>4, <2>5
<1> QED
  BY <1>6, <1>7, <1>8, <1>9

(* The conclusions of a step's lemma make up the invariant.                 *)
LEMMA StepKeepsInvariant ==
    ASSUME IInv, NEW w \in Workers, StepOf(w), TypeOK', Stage(w)',
           WireAudited' /\ UnauditedDidNothing' /\ EventsTruthful' /\ AnswersTruthful'
    PROVE  IInv'
BY OthersKeepStage DEF IInv, Staged

---------------------------------------------------------------------------
(* Types of what the threads hold.                                          *)

ThreadTypes ==
    /\ pc \in [Workers -> PC]
    /\ job \in [Workers -> Job \cup {NoJob}]
    /\ \A w \in Workers : job[w] = NoJob <=> pc[w] = "idle"

LEMMA WatchType ==
    ASSUME overlapped \subseteq {"limiter", "transmitter"}, Watch
    PROVE  overlapped' \subseteq {"limiter", "transmitter"}
<1>1. Overlap' \subseteq {"limiter", "transmitter"}
  BY DEF Overlap
<1> QED
  BY <1>1 DEF Watch

LEMMA BusyHasJob ==
    ASSUME ThreadTypes, NEW w \in Workers, pc[w] # "idle"
    PROVE  job[w] \in Job
BY DEF ThreadTypes

LEMMA GotoMoves ==
    ASSUME ThreadTypes, NEW w \in Workers, pc[w] # "idle",
           NEW label \in PC \ {"idle"}, Goto(w, label)
    PROVE  /\ ThreadTypes'
           /\ pc'[w] = label /\ job' = job /\ replies' = replies
           /\ \A v \in Workers : v # w => pc'[v] = pc[v] /\ job'[v] = job[v]
<1>1. /\ pc' = [pc EXCEPT ![w] = label] /\ job' = job /\ replies' = replies
      /\ pc \in [Workers -> PC]
  BY DEF Goto, ThreadTypes
<1>2. pc' \in [Workers -> PC] /\ pc'[w] = label /\ \A v \in Workers : v # w => pc'[v] = pc[v]
  BY <1>1
<1> QED
  BY <1>1, <1>2 DEF ThreadTypes

LEMMA AnswerEnds ==
    ASSUME ThreadTypes, NEW w \in Workers, pc[w] # "idle",
           NEW outcome \in Outcomes, Answer(w, outcome)
    PROVE  /\ ThreadTypes'
           /\ pc'[w] = "idle"
           /\ \A v \in Workers : v # w => pc'[v] = pc[v] /\ job'[v] = job[v]
           /\ replies' = replies \cup {[id |-> job[w].id, outcome |-> outcome]}
           /\ [id |-> job[w].id, outcome |-> outcome] \in Reply
<1>1. /\ pc' = [pc EXCEPT ![w] = "idle"] /\ job' = [job EXCEPT ![w] = NoJob]
      /\ replies' = replies \cup {[id |-> job[w].id, outcome |-> outcome]}
      /\ pc \in [Workers -> PC] /\ job \in [Workers -> Job \cup {NoJob}] /\ "idle" \in PC
  BY DEF Answer, ThreadTypes, PC
<1>2. /\ pc' \in [Workers -> PC] /\ pc'[w] = "idle"
      /\ job' \in [Workers -> Job \cup {NoJob}] /\ job'[w] = NoJob
      /\ \A v \in Workers : v # w => pc'[v] = pc[v] /\ job'[v] = job[v]
  BY <1>1
<1>3. [id |-> job[w].id, outcome |-> outcome] \in Reply
  BY BusyHasJob DEF Job, Reply
<1> QED
  BY <1>1, <1>2, <1>3 DEF ThreadTypes

(* Where a thread's step is quiet and leaves the tables and the bus alone.  *)
LEMMA LocalStep ==
    ASSUME IInv, NEW w \in Workers, pc[w] # "idle", Watch,
           UNCHANGED <<outside, tables, transmitter, replies>>,
           attempts' \in [Keys -> Seq(Times)],
           ThreadTypes',
           \A v \in Workers : v # w => pc'[v] = pc[v] /\ job'[v] = job[v],
           pc'[w] # "idle" => job'[w].id = job[w].id,
           Stage(w)'
    PROVE  IInv'
<1>1. StepOf(w)
  BY DEF StepOf, GrowsBy, outside, tables, transmitter
<1>2. TypeOK'
  BY WatchType DEF IInv, TypeOK, ThreadTypes, outside, tables, transmitter
<1> QED
  BY <1>1, <1>2, QuietStep, StepKeepsInvariant DEF tables, transmitter

(* Where a call ends, with an answer and perhaps an event.                  *)
LEMMA EndingStep ==
    ASSUME IInv, NEW w \in Workers, pc[w] # "idle", Watch, NEW outcome \in Outcomes,
           Answer(w, outcome),
           UNCHANGED <<outside, transmitter>>,
           attempts' \in [Keys -> Seq(Times)],
           audit' \subseteq Row, GrowsBy(audit', audit, job[w].id),
           events' \subseteq Event, GrowsBy(events', events, job[w].id),
           \A e \in events' : \/ e \in events
                              \/ /\ e.kind = "command_preview_evaluated" /\ HasRow(job[w].id)
                              \/ /\ e.kind = "lab_fusion_transmitted"
                                 /\ pc[w] = "sent"
                              \/ /\ e.kind = "lab_fusion_transmit_failed"
                                 /\ pc[w] = "failed",
           NEW i, i = job[w].id,
           outcome # "error" => \/ outcome = "transmitted" /\ pc[w] = "sent"
                                      /\ Logged(i, "lab_fusion_transmitted")'
                                \/ outcome \notin {"transmitted", "lab_disabled"} /\ pc[w] # "sent"
                                      /\ HasRow(i)'
    PROVE  IInv'
<1>0. ThreadTypes
  BY DEF IInv, TypeOK, ThreadTypes
<1>1. /\ ThreadTypes'
      /\ pc'[w] = "idle"
      /\ \A v \in Workers : v # w => pc'[v] = pc[v] /\ job'[v] = job[v]
      /\ replies' = replies \cup {[id |-> i, outcome |-> outcome]}
      /\ [id |-> i, outcome |-> outcome] \in Reply
  BY <1>0, AnswerEnds
<1>2. GrowsBy(replies', replies, job[w].id)
  BY <1>1 DEF GrowsBy
<1>3. GrowsBy(wire', wire, job[w].id) /\ wire' = wire
  BY DEF GrowsBy, transmitter
<1>4. StepOf(w)
  BY <1>1, <1>2, <1>3 DEF StepOf, outside
<1>5. TypeOK'
  BY <1>1, WatchType DEF IInv, TypeOK, ThreadTypes, outside, transmitter
<1>6. Stage(w)'
  BY <1>1 DEF Stage
<1>7. WireAudited' /\ UnauditedDidNothing' /\ EventsTruthful' /\ AnswersTruthful'
  <2>1. \A e \in events' : \/ e \in events
                           \/ e.kind = "command_preview_evaluated" /\ HasRow(i)
                           \/ e.kind = "lab_fusion_transmitted" /\ pc[w] = "sent"
                           \/ e.kind = "lab_fusion_transmit_failed" /\ pc[w] = "failed"
    OBVIOUS
  <2> QED
    BY <1>1, <1>3, <1>4, <2>1, AnswerStep
<1> QED
  BY <1>4, <1>5, <1>6, <1>7, StepKeepsInvariant

---------------------------------------------------------------------------
(* The steps of a thread, one by one.                                       *)

LEMMA PruneTestKeeps ==
    ASSUME IInv, NEW w \in Workers, PruneTest(w), Watch
    PROVE  IInv'
<1>0. ThreadTypes /\ Stage(w) /\ pc[w] = "prune" /\ attempts \in [Keys -> Seq(Times)]
  BY DEF IInv, Staged, TypeOK, ThreadTypes, PruneTest
<1>1. PICK label \in {"pop", "append"} : Goto(w, label)
  BY DEF PruneTest
<1>2. /\ ThreadTypes' /\ pc'[w] = label /\ job' = job /\ replies' = replies
      /\ \A v \in Workers : v # w => pc'[v] = pc[v] /\ job'[v] = job[v]
  BY <1>0, <1>1, GotoMoves DEF PC, InPolicy, InLimiter
<1>3. UNCHANGED <<outside, attempts, tables, transmitter>>
  BY DEF PruneTest
<1>4. Stage(w)'
  BY <1>0, <1>2, <1>3 DEF Stage, Sent, Told, InLimiter, InTransmit, outside, tables, transmitter
<1> QED
  BY <1>0, <1>2, <1>3, <1>4, LocalStep

LEMMA PopKeeps ==
    ASSUME IInv, NEW w \in Workers, Pop(w), Watch
    PROVE  IInv'
<1>0. /\ ThreadTypes /\ Stage(w) /\ pc[w] = "pop" /\ attempts \in [Keys -> Seq(Times)]
      /\ audit \subseteq Row /\ events \subseteq Event
  BY DEF IInv, Staged, TypeOK, ThreadTypes, Pop
<1>1. UNCHANGED <<outside, tables, transmitter>>
  BY DEF Pop
<1>2. CASE Queue(w) # <<>> /\ SetQueue(w, Tail(Queue(w))) /\ Goto(w, "prune")
  <2>1. /\ ThreadTypes' /\ pc'[w] = "prune" /\ job' = job /\ replies' = replies
        /\ \A v \in Workers : v # w => pc'[v] = pc[v] /\ job'[v] = job[v]
    BY <1>0, <1>2, GotoMoves DEF PC, InPolicy, InLimiter
  <2>2. Queue(w) \in Seq(Times)
    BY <1>0 DEF Queue, Stage, InLimiter
  <2>3. Tail(Queue(w)) \in Seq(Times)
    BY <1>2, <2>2
  <2>4. attempts' \in [Keys -> Seq(Times)]
    BY <1>0, <1>2, <2>3 DEF SetQueue
  <2>5. Stage(w)'
    BY <1>0, <1>1, <2>1 DEF Stage, Sent, Told, InLimiter, InTransmit, outside, tables, transmitter
  <2> QED
    BY <1>0, <1>1, <2>1, <2>4, <2>5, LocalStep
<1>3. CASE Answer(w, "error") /\ UNCHANGED attempts
  <2>1. "error" \in Outcomes /\ pc[w] # "idle"
    BY <1>0 DEF Outcomes
  <2>2. UNCHANGED <<outside, transmitter>> /\ audit' = audit /\ events' = events
    BY <1>1 DEF tables
  <2>3. GrowsBy(audit', audit, job[w].id) /\ GrowsBy(events', events, job[w].id)
    BY <2>2 DEF GrowsBy
  <2> QED
    BY <1>0, <1>3, <2>1, <2>2, <2>3, EndingStep
<1> QED
  BY <1>2, <1>3 DEF Pop

LEMMA AppendAttemptKeeps ==
    ASSUME IInv, NEW w \in Workers, AppendAttempt(w), Watch
    PROVE  IInv'
<1>0. ThreadTypes /\ Stage(w) /\ pc[w] = "append" /\ attempts \in [Keys -> Seq(Times)]
  BY DEF IInv, Staged, TypeOK, ThreadTypes, AppendAttempt
<1>1. /\ UNCHANGED <<outside, tables, transmitter>>
      /\ SetQueue(w, Append(Queue(w), job[w].ts)) /\ Goto(w, "count")
  BY DEF AppendAttempt
<1>2. /\ ThreadTypes' /\ pc'[w] = "count" /\ job' = job /\ replies' = replies
      /\ \A v \in Workers : v # w => pc'[v] = pc[v] /\ job'[v] = job[v]
  BY <1>0, <1>1, GotoMoves DEF PC, InPolicy, InLimiter
<1>3. Queue(w) \in Seq(Times) /\ job[w].ts \in Times
  BY <1>0, BusyHasJob DEF Queue, Stage, InLimiter, Job
<1>4. Append(Queue(w), job[w].ts) \in Seq(Times)
  BY <1>3
<1>5. attempts' \in [Keys -> Seq(Times)]
  BY <1>0, <1>1, <1>4 DEF SetQueue
<1>6. Stage(w)'
  BY <1>0, <1>1, <1>2 DEF Stage, Sent, Told, InLimiter, InTransmit, outside, tables, transmitter
<1> QED
  BY <1>0, <1>1, <1>2, <1>5, <1>6, LocalStep

LEMMA CountKeeps ==
    ASSUME IInv, NEW w \in Workers, Count(w), Watch
    PROVE  IInv'
<1>0. /\ ThreadTypes /\ Stage(w) /\ pc[w] = "count" /\ attempts \in [Keys -> Seq(Times)]
      /\ job[w] \in Job
  BY BusyHasJob DEF IInv, Staged, TypeOK, ThreadTypes, Count
<1>1. PICK reason \in {"approved", "rate_limited"} : job' = [job EXCEPT ![w].reason = reason]
  BY DEF Count
<1>2. /\ pc' = [pc EXCEPT ![w] = "audit"]
      /\ UNCHANGED <<outside, attempts, tables, transmitter, replies>>
  BY DEF Count
<1>3. /\ job' = [job EXCEPT ![w] = [job[w] EXCEPT !.reason = reason]]
      /\ [job[w] EXCEPT !.reason = reason] \in Job
  BY <1>0, <1>1 DEF Job, Reasons
<1>4. /\ job'[w] = [job[w] EXCEPT !.reason = reason] /\ pc'[w] = "audit"
      /\ \A v \in Workers : v # w => pc'[v] = pc[v] /\ job'[v] = job[v]
      /\ job' \in [Workers -> Job \cup {NoJob}] /\ pc' \in [Workers -> PC]
  BY <1>0, <1>2, <1>3 DEF ThreadTypes, PC, InPolicy
<1>5. /\ job'[w].id = job[w].id /\ job'[w].kind = job[w].kind /\ job'[w].reason = reason
      /\ job'[w] # NoJob
  BY <1>0, <1>4 DEF Job, NoJob
<1>6. ThreadTypes'
  BY <1>0, <1>4, <1>5 DEF ThreadTypes
<1>7. Stage(w)'
  BY <1>0, <1>2, <1>4, <1>5
     DEF Stage, Sent, Told, InLimiter, InTransmit, outside, tables, transmitter
<1> QED
  BY <1>0, <1>2, <1>4, <1>5, <1>6, <1>7, LocalStep

(* Where a step writes one row and the call goes on.                        *)
LEMMA RowStep ==
    ASSUME IInv, NEW w \in Workers, pc[w] = "audit", Watch,
           audit' = audit \cup {[id |-> job[w].id, req |-> job[w].req,
                                 ts |-> job[w].ts, reason |-> job[w].reason]},
           UNCHANGED <<outside, attempts, events, transmitter>>,
           NEW label \in {"note", "transmit"}, Goto(w, label),
           label = "note" <=> job[w].kind = "preview",
           label = "transmit" => job[w].reason = "approved"
    PROVE  IInv'
<1>0. ThreadTypes /\ Stage(w) /\ job[w] \in Job
  BY BusyHasJob DEF IInv, Staged, TypeOK, ThreadTypes
<1>1. /\ ThreadTypes' /\ pc'[w] = label /\ job' = job /\ replies' = replies
      /\ \A v \in Workers : v # w => pc'[v] = pc[v] /\ job'[v] = job[v]
  BY <1>0, GotoMoves DEF PC, InTransmit
<1>2. [id |-> job[w].id, req |-> job[w].req, ts |-> job[w].ts, reason |-> job[w].reason] \in Row
  BY <1>0 DEF Stage, Job, Row
<1>3. TypeOK'
  BY <1>1, <1>2, WatchType DEF IInv, TypeOK, ThreadTypes, outside, transmitter
<1>4. StepOf(w)
  BY <1>1 DEF StepOf, GrowsBy, outside, transmitter
<1>5. HasRow(job[w].id)' /\ (job[w].reason = "approved" => Approved(job[w].id)')
  <2> DEFINE row == [id |-> job[w].id, req |-> job[w].req,
                     ts |-> job[w].ts, reason |-> job[w].reason]
  <2>1. row \in audit'
    OBVIOUS
  <2>2. row.id = job[w].id /\ row.reason = job[w].reason
    OBVIOUS
  <2> HIDE DEF row
  <2> QED
    BY <1>1, <2>1, <2>2 DEF HasRow, Approved
<1>6. Stage(w)'
  BY <1>0, <1>1, <1>5 DEF Stage, Sent, Told, InLimiter, InTransmit, outside, transmitter
<1> QED
  BY <1>1, <1>3, <1>4, <1>6, QuietStep, StepKeepsInvariant DEF transmitter

LEMMA LogCommandKeeps ==
    ASSUME IInv, NEW w \in Workers, LogCommand(w), Watch
    PROVE  IInv'
<1> DEFINE row == [id |-> job[w].id, req |-> job[w].req, ts |-> job[w].ts,
                   reason |-> job[w].reason]
<1>0. /\ ThreadTypes /\ Stage(w) /\ pc[w] = "audit" /\ job[w] \in Job
      /\ attempts \in [Keys -> Seq(Times)] /\ audit \subseteq Row /\ events \subseteq Event
  BY BusyHasJob DEF IInv, Staged, TypeOK, ThreadTypes, LogCommand
<1>1. UNCHANGED <<outside, attempts, events, transmitter>>
  BY DEF LogCommand
<1>2. attempts' \in [Keys -> Seq(Times)] /\ events' \subseteq Event
      /\ GrowsBy(events', events, job[w].id)
  BY <1>0, <1>1 DEF GrowsBy
<1>3. CASE audit' = audit \cup {row} /\ job[w].kind = "preview" /\ Goto(w, "note")
  BY <1>0, <1>1, <1>3, RowStep
<1>4. CASE audit' = audit \cup {row} /\ job[w].kind # "preview"
             /\ job[w].reason = "approved" /\ Goto(w, "transmit")
  BY <1>0, <1>1, <1>4, RowStep
<1>5. CASE audit' = audit \cup {row} /\ Answer(w, "denied")
  <2>1. row \in Row /\ "denied" \in Outcomes /\ pc[w] # "idle"
    BY <1>0 DEF Stage, Job, Row, Outcomes
  <2>2. audit' \subseteq Row /\ GrowsBy(audit', audit, job[w].id)
    BY <1>0, <1>5, <2>1 DEF GrowsBy
  <2>3. ASSUME NEW i, i = job[w].id PROVE HasRow(i)'
    <3>1. row \in audit' /\ row.id = i
      BY <1>5, <2>3
    <3> QED
      BY <3>1 DEF HasRow
  <2>4. PICK i : i = job[w].id
    OBVIOUS
  <2>5. HasRow(i)' /\ pc[w] # "sent"
    BY <1>0, <2>3, <2>4
  <2> QED
    BY <1>1, <1>2, <1>5, <2>1, <2>2, <2>4, <2>5, EndingStep
<1>6. CASE audit' = audit /\ Answer(w, "error")
  <2>1. "error" \in Outcomes /\ pc[w] # "idle"
    BY <1>0 DEF Outcomes
  <2>2. audit' \subseteq Row /\ GrowsBy(audit', audit, job[w].id)
    BY <1>0, <1>6 DEF GrowsBy
  <2> QED
    BY <1>1, <1>2, <1>6, <2>1, <2>2, EndingStep
<1> QED
  BY <1>3, <1>4, <1>5, <1>6 DEF LogCommand, AfterPolicy

(* The three steps that record a system event and answer.                   *)
LEMMA LogEventKeeps ==
    ASSUME IInv, NEW w \in Workers, Watch,
           UNCHANGED <<outside, attempts, audit, transmitter>>,
           NEW kind, NEW outcome, LogEvent(w, kind, outcome),
           \/ pc[w] = "note" /\ kind = "command_preview_evaluated" /\ outcome = "evaluated"
           \/ pc[w] = "sent" /\ kind = "lab_fusion_transmitted" /\ outcome = "transmitted"
           \/ pc[w] = "failed" /\ kind = "lab_fusion_transmit_failed"
                               /\ outcome = "transmit_failed"
    PROVE  IInv'
<1>0. /\ ThreadTypes /\ Stage(w) /\ pc[w] # "idle" /\ job[w] \in Job
      /\ attempts' \in [Keys -> Seq(Times)] /\ audit \subseteq Row /\ events \subseteq Event
      /\ "error" \in Outcomes /\ outcome \in Outcomes /\ kind \in EventKinds
      /\ outcome \notin {"lab_disabled", "error"}
  BY BusyHasJob DEF IInv, Staged, TypeOK, ThreadTypes, Outcomes, EventKinds
<1>1. /\ audit' \subseteq Row /\ GrowsBy(audit', audit, job[w].id)
      /\ UNCHANGED <<outside, transmitter>>
  BY <1>0 DEF GrowsBy
<1>2. HasRow(job[w].id)
  BY <1>0 DEF Stage, InTransmit, HasRow, Approved
<1>3. PICK i : i = job[w].id
  OBVIOUS
<1>4. CASE events' = events \cup {[id |-> job[w].id, kind |-> kind]} /\ Answer(w, outcome)
  <2>1. [id |-> job[w].id, kind |-> kind] \in Event
    BY <1>0 DEF Job, Event
  <2>2. events' \subseteq Event /\ GrowsBy(events', events, job[w].id)
    BY <1>0, <1>4, <2>1 DEF GrowsBy
  <2>3. \A e \in events' : e \in events \/ e.kind = kind
    BY <1>4
  <2>4. Logged(i, kind)' /\ HasRow(i)'
    BY <1>2, <1>3, <1>4 DEF Logged, HasRow
  <2>5. \/ outcome = "transmitted" /\ pc[w] = "sent" /\ Logged(i, "lab_fusion_transmitted")'
        \/ outcome \notin {"transmitted", "lab_disabled"} /\ pc[w] # "sent" /\ HasRow(i)'
    BY <2>4
  <2>6. \A e \in events' : \/ e \in events
                           \/ e.kind = "command_preview_evaluated" /\ HasRow(job[w].id)
                           \/ e.kind = "lab_fusion_transmitted" /\ pc[w] = "sent"
                           \/ e.kind = "lab_fusion_transmit_failed" /\ pc[w] = "failed"
    BY <1>2, <2>3
  <2> QED
    BY <1>0, <1>1, <1>3, <1>4, <2>2, <2>5, <2>6, EndingStep
<1>5. CASE events' = events /\ Answer(w, "error")
  <2>1. events' \subseteq Event /\ GrowsBy(events', events, job[w].id)
    BY <1>0, <1>5 DEF GrowsBy
  <2> QED
    BY <1>0, <1>1, <1>5, <2>1, EndingStep
<1> QED
  BY <1>4, <1>5 DEF LogEvent

LEMMA NotesKeep ==
    ASSUME IInv, NEW w \in Workers, NotePreview(w) \/ NoteSent(w) \/ NoteFailed(w), Watch
    PROVE  IInv'
<1>1. CASE NotePreview(w)
  BY <1>1, LogEventKeeps DEF NotePreview
<1>2. CASE NoteSent(w)
  BY <1>2, LogEventKeeps DEF NoteSent
<1>3. CASE NoteFailed(w)
  BY <1>3, LogEventKeeps DEF NoteFailed
<1> QED
  BY <1>1, <1>2, <1>3

LEMMA BuildFrameKeeps ==
    ASSUME IInv, NEW w \in Workers, BuildFrame(w), Watch
    PROVE  IInv'
<1>0. /\ ThreadTypes /\ Stage(w) /\ pc[w] = "transmit" /\ attempts' \in [Keys -> Seq(Times)]
      /\ audit \subseteq Row /\ events \subseteq Event
      /\ UNCHANGED <<outside, attempts, tables, transmitter>>
  BY DEF IInv, Staged, TypeOK, ThreadTypes, BuildFrame
<1>1. CASE \E label \in {"send", "open"} : Goto(w, label)
  <2>1. PICK label \in {"send", "open"} : Goto(w, label)
    BY <1>1
  <2>2. /\ ThreadTypes' /\ pc'[w] = label /\ job' = job /\ replies' = replies
        /\ \A v \in Workers : v # w => pc'[v] = pc[v] /\ job'[v] = job[v]
    BY <1>0, <2>1, GotoMoves DEF PC, InTransmit
  <2>3. Stage(w)'
    BY <1>0, <2>2 DEF Stage, Sent, Told, Approved, InLimiter, InTransmit, outside, tables, transmitter
  <2> QED
    BY <1>0, <2>2, <2>3, LocalStep
<1>2. CASE Answer(w, "error")
  <2>1. "error" \in Outcomes /\ pc[w] # "idle" /\ audit' = audit /\ events' = events
    BY <1>0 DEF Outcomes, tables
  <2>2. GrowsBy(audit', audit, job[w].id) /\ GrowsBy(events', events, job[w].id)
    BY <2>1 DEF GrowsBy
  <2> QED
    BY <1>0, <1>2, <2>1, <2>2, EndingStep
<1> QED
  BY <1>1, <1>2 DEF BuildFrame

LEMMA OpenBusKeeps ==
    ASSUME IInv, NEW w \in Workers, OpenBus(w), Watch
    PROVE  IInv'
<1>0. /\ ThreadTypes /\ Stage(w) /\ pc[w] = "open"
      /\ UNCHANGED <<outside, attempts, tables, wire>>
  BY DEF IInv, Staged, TypeOK, ThreadTypes, OpenBus
<1>1. PICK label \in {"send", "failed"} : Goto(w, label)
  BY DEF OpenBus
<1>2. /\ ThreadTypes' /\ pc'[w] = label /\ job' = job /\ replies' = replies
      /\ \A v \in Workers : v # w => pc'[v] = pc[v] /\ job'[v] = job[v]
  BY <1>0, <1>1, GotoMoves DEF PC, InTransmit
<1>3. bus' \in BOOLEAN /\ opened' \in Nat
  <2>1. bus \in BOOLEAN /\ opened \in Nat
    BY DEF IInv, TypeOK
  <2>2. CASE bus' = TRUE /\ opened' = opened + 1
    BY <2>1, <2>2
  <2>3. CASE UNCHANGED <<bus, opened>>
    BY <2>1, <2>3
  <2> QED
    BY <2>2, <2>3 DEF OpenBus
<1>4. TypeOK'
  BY <1>0, <1>2, <1>3, WatchType DEF IInv, TypeOK, ThreadTypes, outside, tables
<1>5. StepOf(w)
  BY <1>0, <1>2 DEF StepOf, GrowsBy, outside, tables
<1>6. Stage(w)'
  BY <1>0, <1>2 DEF Stage, Sent, Told, Approved, InLimiter, InTransmit, outside, tables
<1> QED
  BY <1>0, <1>2, <1>4, <1>5, <1>6, QuietStep, StepKeepsInvariant DEF tables

LEMMA SendKeeps ==
    ASSUME IInv, NEW w \in Workers, Send(w), Watch
    PROVE  IInv'
<1>0. /\ ThreadTypes /\ Stage(w) /\ pc[w] = "send" /\ job[w] \in Job
      /\ UNCHANGED <<outside, attempts, tables, bus, opened>>
      /\ wire \subseteq Frame
  BY BusyHasJob DEF IInv, Staged, TypeOK, ThreadTypes, Send
<1>1. ASSUME wire' = wire, Goto(w, "failed") PROVE IInv'
  <2>1. /\ ThreadTypes' /\ pc'[w] = "failed" /\ job' = job /\ replies' = replies
        /\ \A v \in Workers : v # w => pc'[v] = pc[v] /\ job'[v] = job[v]
    BY <1>0, <1>1, GotoMoves DEF PC, InTransmit
  <2>2. Stage(w)'
    BY <1>0, <1>1, <2>1 DEF Stage, Sent, Told, Approved, InLimiter, InTransmit, outside, tables
  <2>3. UNCHANGED <<outside, tables, transmitter, replies>> /\ attempts' \in [Keys -> Seq(Times)]
    BY <1>0, <1>1, <2>1 DEF transmitter, IInv, TypeOK
  <2> QED
    BY <1>0, <2>1, <2>2, <2>3, LocalStep
<1>2. ASSUME wire' = wire \cup {[id |-> job[w].id, kind |-> job[w].kind, ts |-> job[w].ts]},
             Goto(w, "sent")
      PROVE  IInv'
  <2> DEFINE frame == [id |-> job[w].id, kind |-> job[w].kind, ts |-> job[w].ts]
  <2>1. /\ ThreadTypes' /\ pc'[w] = "sent" /\ job' = job /\ replies' = replies
        /\ \A v \in Workers : v # w => pc'[v] = pc[v] /\ job'[v] = job[v]
    BY <1>0, <1>2, GotoMoves DEF PC, InTransmit
  <2>2. frame \in Frame /\ frame.id = job[w].id /\ frame \in wire'
    BY <1>0, <1>2 DEF Stage, InTransmit, Job, Kinds, Frame
  <2>3. wire' \subseteq Frame /\ GrowsBy(wire', wire, job[w].id)
    BY <1>0, <1>2, <2>2 DEF GrowsBy
  <2>4. Sent(job[w].id)' /\ \A id : id # job[w].id => (Sent(id)' <=> Sent(id))
    BY <2>1, <2>2, <2>3 DEF Sent, GrowsBy
  <2>5. TypeOK'
    BY <1>0, <2>1, <2>3, WatchType DEF IInv, TypeOK, ThreadTypes, outside, tables
  <2>6. StepOf(w)
    BY <1>0, <2>1, <2>3 DEF StepOf, GrowsBy, outside, tables
  <2>7. Stage(w)'
    BY <1>0, <2>1, <2>4 DEF Stage, Told, Approved, InLimiter, InTransmit, outside, tables
  <2>8. Approved(job[w].id) /\ HasRow(job[w].id) /\ ~Told(job[w].id)
    BY <1>0 DEF Stage, InTransmit, Approved, HasRow
  <2>9. \A id : /\ Approved(id)' <=> Approved(id)
                /\ HasRow(id)' <=> HasRow(id)
                /\ \A kind : Logged(id, kind)' <=> Logged(id, kind)
    BY <1>0 DEF Approved, HasRow, Logged, tables
  <2>10. WireAudited'
    BY <2>3, <2>8, <2>9 DEF IInv, WireAudited, GrowsBy
  <2>11. UnauditedDidNothing'
    <3>1. events' = events /\ replies' = replies
      BY <1>0, <2>1 DEF tables
    <3> QED
      BY <2>9, <3>1 DEF IInv, UnauditedDidNothing
  <2>12. EventsTruthful'
    <3>1. \A e \in events' : e \in events /\ e.id # job[w].id
      BY <1>0, <2>8 DEF Told, tables
    <3> QED
      BY <2>4, <3>1 DEF IInv, EventsTruthful, Sent
  <2>13. AnswersTruthful'
    <3>1. \A r \in replies' : r \in replies /\ r.id # job[w].id
      BY <2>1, <2>8 DEF Told
    <3> QED
      BY <2>4, <2>9, <3>1 DEF IInv, AnswersTruthful, Sent
  <2> QED
    BY <2>5, <2>6, <2>7, <2>10, <2>11, <2>12, <2>13, StepKeepsInvariant
<1> QED
  BY <1>1, <1>2 DEF Send

---------------------------------------------------------------------------
(* Calls arrive, time passes and the process is restarted.                  *)

(* A step that no thread's call takes part in, and that has no effect.      *)
LEMMA IdleStep ==
    ASSUME IInv, TypeOK', calls <= calls',
           UNCHANGED tables, wire' = wire,
           \/ replies' = replies
           \/ /\ calls < calls'
              /\ replies' = replies \cup {[id |-> calls', outcome |-> "lab_disabled"]},
           Staged',
           Distinct'
    PROVE  IInv'
<1>0. /\ calls \in Nat /\ calls' \in Nat
      /\ \A x \in events \cup wire \cup replies : x.id \in Nat /\ x.id <= calls
  BY DEF IInv, TypeOK, Numbered, Distinct, Event, Frame, Reply, ServiceAssumption
<1>1. Numbered'
  <2>1. \A x \in (events \cup wire \cup replies)' : x.id <= calls'
    BY <1>0 DEF tables
  <2> QED
    BY <2>1 DEF Numbered
<1>2. \A id : /\ Approved(id)' <=> Approved(id)
              /\ HasRow(id)' <=> HasRow(id)
              /\ \A kind : Logged(id, kind)' <=> Logged(id, kind)
  BY DEF Approved, HasRow, Logged, tables
<1>3. WireAudited' /\ EventsTruthful' /\ UnauditedDidNothing'
  BY <1>2 DEF IInv, WireAudited, EventsTruthful, UnauditedDidNothing, tables
<1>4. AnswersTruthful'
  <2> SUFFICES ASSUME NEW r \in replies'
               PROVE  /\ r.outcome = "transmitted" =>
                            Sent(r.id)' /\ Approved(r.id)'
                              /\ Logged(r.id, "lab_fusion_transmitted")'
                      /\ r.outcome \notin {"transmitted", "error"} => ~Sent(r.id)'
    BY DEF AnswersTruthful, Sent
  <2>1. CASE r \in replies
    BY <1>2, <2>1 DEF IInv, AnswersTruthful, Sent
  <2>2. CASE r \notin replies
    <3>1. r.outcome = "lab_disabled" /\ r.id = calls' /\ calls < calls'
      BY <2>2
    <3>2. \A f \in wire : f.id # calls'
      BY <1>0, <3>1
    <3> QED
      BY <3>1, <3>2 DEF Sent
  <2> QED
    BY <2>1, <2>2
<1> QED
  BY <1>1, <1>3, <1>4 DEF IInv

LEMMA TickKeeps ==
    ASSUME IInv, Tick, Watch
    PROVE  IInv'
<1>1. /\ now' \in Times
      /\ UNCHANGED <<settings, calls, earlier, attempts, tables, transmitter, pc, job, replies>>
  <2>1. now \in 0..MaxTime /\ now < MaxTime /\ now' = now + 1
    BY DEF IInv, TypeOK, Times, Tick
  <2>2. now' \in 0..MaxTime
    BY <2>1, ServiceAssumption DEF ServiceAssumption
  <2> QED
    BY <2>2 DEF Times, Tick
<1>2. TypeOK'
  BY <1>1, WatchType DEF IInv, TypeOK, tables, transmitter
<1>3. Staged'
  BY <1>1 DEF IInv, Staged, Stage, Sent, Told, Approved, HasRow, tables, transmitter
<1>4. Distinct'
  BY <1>1 DEF IInv, Numbered, Distinct
<1>5. /\ calls <= calls' /\ UNCHANGED tables /\ wire' = wire
      /\ replies' = replies
  BY <1>1 DEF IInv, TypeOK, transmitter
<1> QED
  BY <1>2, <1>3, <1>4, <1>5, IdleStep

LEMMA RestartKeeps ==
    ASSUME IInv, Restart, Watch
    PROVE  IInv'
<1>1. calls \in 0..MaxCalls /\ calls \in Nat
  BY ServiceAssumption DEF IInv, TypeOK, ServiceAssumption
<1>2. NoAttempts \in [Keys -> Seq(Times)]
  BY DEF NoAttempts
<1>3. /\ pc' \in [Workers -> PC]
      /\ job' \in [Workers -> Job \cup {NoJob}]
      /\ \A w \in Workers : pc'[w] = "idle" /\ job'[w] = NoJob
  BY DEF Restart, PC
<1>4. /\ settings' \in Configs /\ attempts' = NoAttempts /\ earlier' = calls
      /\ bus' = FALSE /\ opened' = 0
      /\ UNCHANGED <<now, calls, tables, wire, replies>>
  BY DEF Restart
<1>5. earlier' \in 0..calls' /\ opened' \in Nat /\ bus' \in BOOLEAN
  <2>1. earlier' = calls' /\ calls' \in 0..calls'
    BY <1>1, <1>4
  <2> QED
    BY <1>4, <2>1
<1>6. TypeOK'
  BY <1>2, <1>3, <1>4, <1>5, WatchType DEF IInv, TypeOK, tables
<1>7. Staged'
  BY <1>3 DEF Staged, Stage
<1>8. /\ calls <= calls' /\ UNCHANGED tables /\ wire' = wire
      /\ replies' = replies
      /\ Distinct'
  BY <1>1, <1>3, <1>4 DEF Distinct
<1> QED
  BY <1>6, <1>7, <1>8, IdleStep

(* Where a call arrives at a thread.                                        *)
LEMMA BeginKeeps ==
    ASSUME IInv, NEW w \in Workers, NEW kind \in Kinds, NEW req \in Request,
           kind # "preview" => settings.lab_transmit_enabled,
           Begin(w, kind, req), Watch
    PROVE  IInv'
<1> DEFINE reason == StaticReason(settings, req)
           new == [id |-> calls', kind |-> kind, req |-> req, ts |-> now, reason |-> reason]
           label == IF reason = "none" THEN "prune" ELSE "audit"
<1>0. /\ ThreadTypes /\ pc[w] = "idle" /\ job' = [job EXCEPT ![w] = new]
      /\ pc' = [pc EXCEPT ![w] = label]
      /\ UNCHANGED <<settings, now, earlier, attempts, tables, transmitter, replies>>
  BY DEF IInv, TypeOK, ThreadTypes, Begin
<1>1. /\ calls \in Nat /\ calls' = calls + 1 /\ calls' \in 0..MaxCalls /\ calls' \in 1..MaxCalls
      /\ earlier \in 0..calls'
  <2>1. calls \in 0..MaxCalls /\ calls < MaxCalls /\ calls' = calls + 1 /\ earlier \in 0..calls
    BY DEF IInv, TypeOK, Begin
  <2> QED
    BY <2>1, ServiceAssumption DEF ServiceAssumption
<1>2. /\ reason \in StaticReasons \cup {"none"}
      /\ reason = "none" => GatesOpen(settings) /\ Key(req) \in Keys
  BY DEF StaticReason, StaticReasons, GatesOpen
<1>3. new \in Job /\ now \in Times
  BY <1>1, <1>2 DEF IInv, TypeOK, Job, Reasons
<1>4. /\ new.id = calls' /\ new.kind = kind /\ new.req = req /\ new.reason = reason
      /\ label \in {"prune", "audit"} /\ (label = "prune" <=> reason = "none")
  OBVIOUS
<1> HIDE DEF new, label
<1>5. /\ pc'[w] = label /\ job'[w] = new
      /\ \A v \in Workers : v # w => pc'[v] = pc[v] /\ job'[v] = job[v]
      /\ pc' \in [Workers -> PC] /\ job' \in [Workers -> Job \cup {NoJob}]
  BY <1>0, <1>3, <1>4 DEF ThreadTypes, PC, InPolicy, InLimiter
<1>6. job'[w] # NoJob
  BY <1>1, <1>4, <1>5 DEF NoJob
<1>7. ThreadTypes'
  BY <1>0, <1>4, <1>5, <1>6 DEF ThreadTypes
<1>8. TypeOK'
  BY <1>0, <1>1, <1>7, WatchType DEF IInv, TypeOK, ThreadTypes, tables, transmitter
<1>9. /\ ~Sent(calls') /\ ~Told(calls')
      /\ \A v \in Workers : pc[v] # "idle" => job[v].id <= calls /\ job[v].id \in Nat
  <2>1. \A x \in events \cup wire \cup replies : x.id \in Nat /\ x.id <= calls
    BY DEF IInv, TypeOK, Numbered, Distinct, Event, Frame, Reply
  <2>2. \A x \in events \cup wire \cup replies : x.id # calls'
    BY <1>1, <2>1
  <2>3. \A v \in Workers : pc[v] # "idle" => job[v] \in Job /\ job[v].id <= calls
    BY <1>0, BusyHasJob DEF IInv, Staged, Stage
  <2> QED
    BY <2>2, <2>3 DEF Sent, Told, Job
<1>10. ASSUME NEW v \in Workers PROVE Stage(v)'
  <2>1. /\ \A id : (Sent(id)' <=> Sent(id)) /\ (Told(id)' <=> Told(id))
        /\ \A id : (HasRow(id)' <=> HasRow(id)) /\ (Approved(id)' <=> Approved(id))
    BY <1>0 DEF Sent, Told, HasRow, Approved, tables, transmitter
  <2>2. CASE v = w
    <3>1. /\ job'[v].id = calls' /\ job'[v].kind = kind /\ job'[v].req = req
          /\ job'[v].reason = reason /\ pc'[v] = label
      BY <1>4, <1>5, <2>2
    <3>2. reason # "approved"
      BY <1>2 DEF StaticReasons
    <3>3. ~Sent(job[v].id)' /\ ~Told(job[v].id)'
      BY <1>9, <2>1, <3>1
    <3>4. calls' <= calls' /\ settings' = settings
      BY <1>0, <1>1
    <3>5. label = "prune" => GatesOpen(settings) /\ Key(req) \in Keys
      BY <1>2, <1>4
    <3>6. label = "audit" => reason # "none"
      BY <1>4
    <3> QED
      BY <1>4, <3>1, <3>2, <3>3, <3>4, <3>5, <3>6 DEF Stage, InLimiter, InTransmit
  <2>3. CASE v # w /\ pc[v] # "idle"
    <3>1. pc'[v] = pc[v] /\ job'[v] = job[v] /\ settings' = settings
      BY <1>0, <1>5, <2>3
    <3>2. job[v].id <= calls'
      BY <1>1, <1>9, <2>3
    <3> QED
      BY <2>1, <2>3, <3>1, <3>2 DEF IInv, Staged, Stage
  <2>4. CASE v # w /\ pc[v] = "idle"
    BY <1>5, <2>4 DEF Stage
  <2> QED
    BY <2>2, <2>3, <2>4
<1>11. ASSUME NEW u \in Workers, NEW v \in Workers, u # v, pc'[u] # "idle", pc'[v] # "idle"
       PROVE  job'[u].id # job'[v].id
  <2>1. \A x \in Workers : x # w /\ pc'[x] # "idle" => job'[x].id # calls'
    BY <1>1, <1>5, <1>9
  <2>2. job'[w].id = calls'
    BY <1>4, <1>5
  <2>3. CASE u # w /\ v # w
    BY <1>5, <1>11, <2>3 DEF IInv, Numbered, Distinct
  <2> QED
    BY <1>11, <2>1, <2>2, <2>3
<1>12. /\ calls <= calls' /\ UNCHANGED tables /\ wire' = wire
        /\ replies' = replies
  BY <1>0, <1>1 DEF transmitter
<1>13. Staged' /\ Distinct'
  BY <1>10, <1>11 DEF Staged, Distinct
<1> QED
  BY <1>8, <1>12, <1>13, IdleStep

LEMMA ArriveKeeps ==
    ASSUME IInv, NEW w \in Workers, Arrive(w), Watch
    PROVE  IInv'
<1>1. ASSUME NEW req \in PreviewRequests, PreviewCall(w, req) PROVE IInv'
  BY <1>1, BeginKeeps DEF PreviewCall, Kinds, Request
<1>2. ASSUME NEW kind \in LabKinds, LabCall(w, kind) PROVE IInv'
  BY <1>2, BeginKeeps DEF LabCall, Kinds, Request
<1>3. CASE LabRefused(w)
  <2>1. /\ UNCHANGED <<settings, now, earlier, attempts, tables, transmitter, pc, job>>
        /\ calls' = calls + 1 /\ calls < MaxCalls
        /\ replies' = replies \cup {[id |-> calls', outcome |-> "lab_disabled"]}
    BY <1>3 DEF LabRefused
  <2>2. /\ calls \in Nat /\ calls' \in 0..MaxCalls /\ calls' \in 1..MaxCalls
        /\ calls < calls' /\ earlier \in 0..calls'
    <3>1. calls \in 0..MaxCalls /\ earlier \in 0..calls
      BY DEF IInv, TypeOK
    <3> QED
      BY <2>1, <3>1, ServiceAssumption DEF ServiceAssumption
  <2>3. [id |-> calls', outcome |-> "lab_disabled"] \in Reply
    BY <2>2 DEF Reply, Outcomes
  <2>4. TypeOK'
    BY <2>1, <2>2, <2>3, WatchType DEF IInv, TypeOK, tables, transmitter
  <2>5. \A id : (Sent(id)' <=> Sent(id)) /\ (HasRow(id)' <=> HasRow(id))
                  /\ (Approved(id)' <=> Approved(id)) /\ (id # calls' => (Told(id)' <=> Told(id)))
    BY <2>1 DEF Sent, HasRow, Approved, Told, tables, transmitter
  <2>6. ASSUME NEW v \in Workers PROVE Stage(v)'
    <3>1. CASE pc[v] = "idle"
      BY <2>1, <3>1 DEF Stage
    <3>2. CASE pc[v] # "idle"
      <4>1. Stage(v) /\ job[v] \in Job /\ job[v].id <= calls
        BY <3>2, BusyHasJob DEF IInv, Staged, Stage, TypeOK, ThreadTypes
      <4>2. job[v].id <= calls' /\ job[v].id # calls'
        BY <2>1, <2>2, <4>1 DEF Job
      <4> QED
        BY <2>1, <2>5, <3>2, <4>1, <4>2 DEF Stage
    <3> QED
      BY <3>1, <3>2
  <2>7. Staged' /\ Distinct'
    BY <2>1, <2>6 DEF IInv, Staged, Numbered, Distinct
  <2>8. calls <= calls' /\ UNCHANGED tables /\ wire' = wire
    BY <2>1, <2>2 DEF transmitter
  <2> QED
    BY <2>1, <2>2, <2>4, <2>7, <2>8, IdleStep
<1> QED
  BY <1>1, <1>2, <1>3 DEF Arrive

LEMMA ServeKeeps ==
    ASSUME IInv, NEW w \in Workers, Serve(w)
    PROVE  IInv'
<1>1. CASE Policy(w)
  BY <1>1, PruneTestKeeps, PopKeeps, AppendAttemptKeeps, CountKeeps, LogCommandKeeps
     DEF Policy, Serve
<1>2. CASE NotePreview(w)
  BY <1>2, NotesKeep DEF Serve
<1>3. CASE Transmit(w)
  BY <1>3, BuildFrameKeeps, OpenBusKeeps, SendKeeps, NotesKeep DEF Transmit, Serve
<1> QED
  BY <1>1, <1>2, <1>3 DEF Serve

LEMMA InitHolds == Init => IInv
<1> SUFFICES ASSUME Init PROVE IInv
  OBVIOUS
<1>1. NoAttempts \in [Keys -> Seq(Times)]
  BY DEF NoAttempts
<1>2. now \in Times /\ calls \in 0..MaxCalls /\ earlier \in 0..calls /\ opened \in Nat
  BY ServiceAssumption DEF ServiceAssumption, Init, Times
<1>3. /\ pc \in [Workers -> PC] /\ job \in [Workers -> Job \cup {NoJob}]
      /\ \A w \in Workers : pc[w] = "idle" /\ job[w] = NoJob
  BY DEF Init, PC
<1>4. TypeOK
  BY <1>1, <1>2, <1>3 DEF Init, TypeOK
<1>5. Numbered /\ Staged
  BY <1>3 DEF Init, Numbered, Distinct, Staged, Stage
<1>6. WireAudited /\ UnauditedDidNothing /\ EventsTruthful /\ AnswersTruthful
  BY DEF Init, WireAudited, UnauditedDidNothing, EventsTruthful, AnswersTruthful
<1> QED
  BY <1>4, <1>5, <1>6 DEF IInv

LEMMA NextKeeps == IInv /\ [Next]_vars => IInv'
<1> SUFFICES ASSUME IInv, [Next]_vars PROVE IInv'
  OBVIOUS
<1>1. ASSUME NEW w \in Workers, Serve(w) PROVE IInv'
  BY <1>1, ServeKeeps
<1>2. ASSUME NEW w \in Workers, Arrive(w), Watch PROVE IInv'
  BY <1>2, ArriveKeeps
<1>3. CASE Tick /\ Watch
  BY <1>3, TickKeeps
<1>4. CASE Restart /\ Watch
  BY <1>4, RestartKeeps
<1>5. CASE UNCHANGED vars
  <2>1. TypeOK' /\ Numbered' /\ Staged'
    BY <1>5 DEF vars, IInv, TypeOK, Numbered, Distinct, Staged, Stage, Sent, Told, HasRow, Approved
  <2>2. WireAudited' /\ UnauditedDidNothing' /\ EventsTruthful' /\ AnswersTruthful'
    BY <1>5 DEF vars, IInv, WireAudited, UnauditedDidNothing, EventsTruthful, AnswersTruthful,
                Approved, HasRow, Logged
  <2> QED
    BY <2>1, <2>2 DEF IInv
<1> QED
  BY <1>1, <1>2, <1>3, <1>4, <1>5 DEF Next

LEMMA Invariance == Spec => []IInv
BY InitHolds, NextKeeps, PTL DEF Spec

---------------------------------------------------------------------------
(* The tables, the bus and the threads always hold values of their types.   *)
THEOREM TypeCorrect == Spec => []TypeOK
<1>1. IInv => TypeOK
  BY DEF IInv
<1> QED
  BY <1>1, Invariance, PTL

(* policy.py:51-66, platform.py:491-497: no interleaving of threads, no      *)
(* restart and no failure leaves an effect without its audit row, or a frame*)
(* without its approval.                                                    *)
THEOREM EffectsAudited == Spec => []EffectsAreAudited
<1>1. IInv => EffectsAreAudited
  BY DEF IInv, EffectsAreAudited
<1> QED
  BY <1>1, Invariance, PTL

(* platform.py:495-529: answers and events agree with the bus.              *)
THEOREM Truthful == Spec => []ToldTruly
<1>1. IInv => ToldTruly
  BY DEF IInv, ToldTruly
<1> QED
  BY <1>1, Invariance, PTL

(* policy.py:69-76, platform.py:465: frames are sent behind open gates, by  *)
(* processes whose lab switch is on.                                        *)
THEOREM SentBehindGates == Spec => SendsBehindGates
<1>1. ASSUME IInv, [Next]_vars PROVE wire' # wire => GatesOpen(settings)
                                              /\ settings.lab_transmit_enabled
  <2> SUFFICES ASSUME wire' # wire PROVE GatesOpen(settings) /\ settings.lab_transmit_enabled
    OBVIOUS
  <2>1. \A w \in Workers : ~Arrive(w)
    BY DEF Arrive, PreviewCall, LabCall, LabRefused, Begin, transmitter
  <2>2. ~Tick /\ ~Restart /\ ~UNCHANGED vars
    BY DEF Tick, Restart, vars, transmitter
  <2>3. PICK w \in Workers : Serve(w)
    BY <1>1, <2>1, <2>2 DEF Next
  <2>4. ~NotePreview(w) /\ ~Policy(w)
    BY DEF NotePreview, Policy, PruneTest, Pop, AppendAttempt, Count, LogCommand, transmitter
  <2>5. Send(w)
    BY <2>3, <2>4 DEF Serve, Transmit, BuildFrame, OpenBus, NoteSent, NoteFailed, transmitter
  <2> QED
    BY <1>1, <2>5 DEF IInv, Staged, Stage, Send, InTransmit
<1> QED
  BY <1>1, Invariance, PTL DEF Spec, SendsBehindGates

---------------------------------------------------------------------------
(* The rate on the bus.  A claim is the frame a call has put on the bus or  *)
(* may still put there; what follows counts claims against the entries of   *)
(* a queue.                                                                 *)

Since(claims, t) == { c \in claims : c.ts >= t }

\* The claims at or after t are not more than the entries behind any entry
\* older than t.
Covers(queue, claims, t) ==
    \A i \in 0..Len(queue) :
        i = 0 \/ queue[i] < t => Cardinality(Since(claims, t)) <= Len(queue) - i

MostFrames == IF MaxAttempts > 0 THEN MaxAttempts ELSE 0

Near(claims, c) == { d \in claims : d.ts \in (c.ts - Window)..c.ts }

Rated(claims) == \A c \in claims : Cardinality(Near(claims, c)) <= MostFrames

LEMMA FrameFinite == IsFiniteSet(Frame)
<1> DEFINE parts == ((1..MaxCalls) \X LabKinds) \X Times
           f == [p \in parts |-> [id |-> p[1][1], kind |-> p[1][2], ts |-> p[2]]]
<1>1. IsFiniteSet(1..MaxCalls) /\ IsFiniteSet(Times)
  BY FS_Interval, ServiceAssumption DEF ServiceAssumption, Times
<1>2. IsFiniteSet(LabKinds)
  <2>1. IsFiniteSet({"volume_up", "volume_down"} \cup {"mute_on", "mute_off"})
    <3>1. /\ IsFiniteSet({"volume_up"}) /\ IsFiniteSet({"mute_on"})
      BY FS_Singleton
    <3>2. IsFiniteSet({"volume_up"} \cup {"volume_down"})
          /\ IsFiniteSet({"mute_on"} \cup {"mute_off"})
      BY <3>1, FS_AddElement
    <3>3. /\ {"volume_up"} \cup {"volume_down"} = {"volume_up", "volume_down"}
          /\ {"mute_on"} \cup {"mute_off"} = {"mute_on", "mute_off"}
      OBVIOUS
    <3>4. IsFiniteSet({"volume_up", "volume_down"}) /\ IsFiniteSet({"mute_on", "mute_off"})
      BY <3>2, <3>3
    <3> QED
      BY <3>4, FS_Union
  <2>2. LabKinds \subseteq {"volume_up", "volume_down"} \cup {"mute_on", "mute_off"}
    BY ServiceAssumption DEF ServiceAssumption, FusionLabKind
  <2> QED
    BY <2>1, <2>2, FS_Subset
<1>3. IsFiniteSet((1..MaxCalls) \X LabKinds)
  BY <1>1, <1>2, FS_Product
<1>4. IsFiniteSet(parts)
  BY <1>1, <1>3, FS_Product
<1>5. f \in [parts -> Frame]
  BY DEF Frame
<1>6. ASSUME NEW g \in Frame PROVE \E p \in parts : f[p] = g
  <2>1. /\ g.id \in 1..MaxCalls /\ g.kind \in LabKinds /\ g.ts \in Times
        /\ g = [id |-> g.id, kind |-> g.kind, ts |-> g.ts]
    BY <1>6 DEF Frame
  <2>2. <<<<g.id, g.kind>>, g.ts>> \in parts
    BY <2>1
  <2>3. f[<<<<g.id, g.kind>>, g.ts>>] = g
    BY <2>1, <2>2
  <2> QED
    BY <2>2, <2>3
<1> HIDE DEF parts, f
<1>7. f \in Surjection(parts, Frame)
  BY <1>5, <1>6 DEF Surjection
<1> QED
  BY <1>4, <1>7, FS_Surjection

LEMMA FewerFrames ==
    ASSUME NEW old \in SUBSET Frame, NEW new \in SUBSET old
    PROVE  /\ IsFiniteSet(old) /\ IsFiniteSet(new)
           /\ Cardinality(new) \in Nat /\ Cardinality(old) \in Nat
           /\ Cardinality(new) <= Cardinality(old)
<1>1. IsFiniteSet(old)
  BY FrameFinite, FS_Subset
<1>2. IsFiniteSet(new) /\ Cardinality(new) <= Cardinality(old)
  BY <1>1, FS_Subset
<1> QED
  BY <1>1, <1>2, FS_CardinalityType

LEMMA CoversFewer ==
    ASSUME NEW old \in SUBSET Frame, NEW new \in SUBSET old, NEW queue \in Seq(Times),
           NEW t \in Int, Covers(queue, old, t)
    PROVE  Covers(queue, new, t)
<1>1. Since(old, t) \in SUBSET Frame /\ Since(new, t) \in SUBSET Since(old, t)
  BY DEF Since
<1>2. /\ Cardinality(Since(new, t)) \in Nat /\ Cardinality(Since(old, t)) \in Nat
      /\ Cardinality(Since(new, t)) <= Cardinality(Since(old, t))
  BY <1>1, FewerFrames
<1>3. Len(queue) \in Nat
  OBVIOUS
<1> QED
  BY <1>2, <1>3 DEF Covers

LEMMA CoversTail ==
    ASSUME NEW claims \in SUBSET Frame, NEW queue \in Seq(Times), queue # <<>>,
           NEW t \in Int, queue[1] < t, Covers(queue, claims, t)
    PROVE  Covers(Tail(queue), claims, t)
<1>1. Len(queue) \in Nat \ {0} /\ Len(Tail(queue)) = Len(queue) - 1
  OBVIOUS
<1>2. Cardinality(Since(claims, t)) \in Nat
  BY FewerFrames DEF Since
<1> SUFFICES ASSUME NEW i \in 0..Len(Tail(queue)), i = 0 \/ Tail(queue)[i] < t
             PROVE  Cardinality(Since(claims, t)) <= Len(Tail(queue)) - i
  BY DEF Covers
<1>3. i + 1 \in 0..Len(queue) /\ i + 1 # 0
  BY <1>1
<1>4. queue[i + 1] < t
  <2>1. CASE i = 0
    BY <2>1
  <2>2. CASE i # 0
    <3>1. i \in 1..Len(Tail(queue))
      BY <1>1, <2>2
    <3>2. Tail(queue)[i] = queue[i + 1]
      BY <3>1, <1>1
    <3> QED
      BY <3>2, <2>2
  <2> QED
    BY <2>1, <2>2
<1>5. Cardinality(Since(claims, t)) <= Len(queue) - (i + 1)
  BY <1>3, <1>4 DEF Covers
<1> QED
  BY <1>1, <1>2, <1>5

LEMMA CoversAppend ==
    ASSUME NEW old \in SUBSET Frame, NEW c, NEW new \in SUBSET Frame, new \subseteq old \cup {c},
           NEW queue \in Seq(Times), NEW ts \in Times, NEW t \in Int,
           \A d \in new : d.ts <= ts,
           Covers(queue, old, t)
    PROVE  Covers(Append(queue, ts), new, t)
<1>1. /\ Len(queue) \in Nat /\ Len(Append(queue, ts)) = Len(queue) + 1
      /\ \A i \in 1..Len(queue) : Append(queue, ts)[i] = queue[i]
      /\ Append(queue, ts)[Len(queue) + 1] = ts
  OBVIOUS
<1>2. Since(old, t) \in SUBSET Frame /\ Since(new, t) \in SUBSET Frame
      /\ Since(new, t) \subseteq Since(old, t) \cup {c}
  BY DEF Since
<1>3. /\ IsFiniteSet(Since(old, t)) /\ IsFiniteSet(Since(new, t))
      /\ Cardinality(Since(old, t)) \in Nat /\ Cardinality(Since(new, t)) \in Nat
  BY <1>2, FewerFrames
<1>4. Cardinality(Since(new, t)) <= Cardinality(Since(old, t)) + 1
  <2>1. IsFiniteSet(Since(old, t) \cup {c})
        /\ Cardinality(Since(old, t) \cup {c}) <= Cardinality(Since(old, t)) + 1
    <3>1. /\ IsFiniteSet(Since(old, t) \cup {c})
          /\ Cardinality(Since(old, t) \cup {c}) =
                IF c \in Since(old, t) THEN Cardinality(Since(old, t))
                                       ELSE Cardinality(Since(old, t)) + 1
      BY <1>3, FS_AddElement, Zenon
    <3> QED
      BY <1>3, <3>1
  <2>2. Cardinality(Since(new, t)) <= Cardinality(Since(old, t) \cup {c})
        /\ Cardinality(Since(old, t) \cup {c}) \in Nat
    BY <1>2, <2>1, FS_Subset, FS_CardinalityType
  <2> QED
    BY <1>3, <2>1, <2>2
<1> SUFFICES ASSUME NEW i \in 0..Len(Append(queue, ts)), i = 0 \/ Append(queue, ts)[i] < t
             PROVE  Cardinality(Since(new, t)) <= Len(Append(queue, ts)) - i
  BY DEF Covers
<1>5. CASE i = Len(queue) + 1
  <2>1. ts < t
    BY <1>1, <1>5
  <2>2. \A d \in new : d.ts \in Int /\ d.ts <= ts /\ ts \in Int
    BY DEF Frame, Times
  <2>3. Since(new, t) = {}
    BY <2>1, <2>2 DEF Since
  <2>4. Cardinality(Since(new, t)) = 0
    BY <2>3, FS_EmptySet
  <2> QED
    BY <1>1, <1>5, <2>4
<1>6. CASE i # Len(queue) + 1
  <2>1. i \in 0..Len(queue)
    BY <1>1, <1>6
  <2>2. i = 0 \/ queue[i] < t
    BY <1>1, <2>1
  <2>3. Cardinality(Since(old, t)) <= Len(queue) - i
    BY <2>1, <2>2 DEF Covers
  <2> QED
    BY <1>1, <1>3, <1>4, <2>1, <2>3
<1> QED
  BY <1>5, <1>6

LEMMA RatedFewer ==
    ASSUME NEW old \in SUBSET Frame, NEW new \in SUBSET old, Rated(old)
    PROVE  Rated(new)
<1> SUFFICES ASSUME NEW c \in new PROVE Cardinality(Near(new, c)) <= MostFrames
  BY DEF Rated
<1>1. Near(new, c) \in SUBSET Near(old, c) /\ Near(old, c) \in SUBSET Frame
  BY DEF Near
<1>2. /\ Cardinality(Near(new, c)) <= Cardinality(Near(old, c))
      /\ Cardinality(Near(new, c)) \in Nat /\ Cardinality(Near(old, c)) \in Nat
  BY <1>1, FewerFrames
<1>3. Cardinality(Near(old, c)) <= MostFrames /\ MostFrames \in Int
  BY ServiceAssumption DEF Rated, ServiceAssumption, MostFrames
<1> QED
  BY <1>2, <1>3

(* The last attempt in the queue is granted: the queue, that covers all     *)
(* claims of its window, is short enough.                                   *)
LEMMA RatedGrows ==
    ASSUME NEW claims \in SUBSET Frame, NEW old \in SUBSET claims, NEW new \in SUBSET claims,
           NEW c, new \subseteq old \cup {c}, Rated(old),
           NEW ts \in Times, c.ts = ts, \A d \in claims : d.ts <= ts,
           NEW queue \in Seq(Times), Len(queue) <= MaxAttempts,
           Covers(queue, claims, ts - Window)
    PROVE  Rated(new)
<1>0. /\ Window \in Int /\ MaxAttempts \in Int /\ Len(queue) \in Nat /\ MostFrames \in Nat
      /\ Len(queue) <= MostFrames
  BY ServiceAssumption DEF ServiceAssumption, MostFrames
<1>1. \A d \in claims : d.ts \in Int /\ d.ts <= ts /\ ts \in Int
  BY DEF Frame, Times
<1> SUFFICES ASSUME NEW e \in new PROVE Cardinality(Near(new, e)) <= MostFrames
  BY DEF Rated
<1>2. Near(new, e) \in SUBSET Frame /\ Since(claims, ts - Window) \in SUBSET Frame
  BY DEF Near, Since
<1>3. CASE e.ts = ts
  <2>1. Near(new, e) \in SUBSET Since(claims, ts - Window)
    BY <1>0, <1>1, <1>3 DEF Near, Since
  <2>2. /\ Cardinality(Near(new, e)) <= Cardinality(Since(claims, ts - Window))
        /\ Cardinality(Near(new, e)) \in Nat /\ Cardinality(Since(claims, ts - Window)) \in Nat
    BY <1>2, <2>1, FewerFrames
  <2>3. Cardinality(Since(claims, ts - Window)) <= Len(queue)
    <3>1. 0 \in 0..Len(queue) /\ Len(queue) - 0 = Len(queue)
      BY <1>0
    <3>2. 0 = 0 \/ queue[0] < ts - Window
      OBVIOUS
    <3> QED
      BY <3>1, <3>2 DEF Covers
  <2> QED
    BY <1>0, <2>2, <2>3
<1>4. CASE e.ts # ts
  <2>1. e \in old /\ e.ts < ts
    BY <1>1, <1>4
  <2>2. Near(new, e) \in SUBSET Near(old, e) /\ Near(old, e) \in SUBSET Frame
    BY <1>1, <2>1, <1>0 DEF Near
  <2>3. /\ Cardinality(Near(new, e)) <= Cardinality(Near(old, e))
        /\ Cardinality(Near(new, e)) \in Nat /\ Cardinality(Near(old, e)) \in Nat
    BY <2>2, FewerFrames
  <2>4. Cardinality(Near(old, e)) <= MostFrames
    BY <2>1 DEF Rated
  <2> QED
    BY <1>0, <2>3, <2>4
<1> QED
  BY <1>3, <1>4

---------------------------------------------------------------------------
(* The claims of the threads and of the bus, key by key.                    *)

Claim(w) == [id |-> job[w].id, kind |-> job[w].kind, ts |-> job[w].ts]

Limits(w, k) == pc[w] \in InLimiter /\ Key(job[w].req) = k

Asks(w, k) == pc[w] = "count" /\ job[w].kind # "preview" /\ Key(job[w].req) = k

Holds(w, k) ==
    /\ pc[w] \in InTransmit \/ (pc[w] = "audit" /\ job[w].reason = "approved")
    /\ job[w].kind # "preview"
    /\ Key(job[w].req) = k

OnBus(f, k) == f \in wire /\ f.id > earlier /\ Key(LabRequest(f.kind)) = k

Granted(k) ==
    { f \in Frame : OnBus(f, k) \/ \E w \in Workers : Holds(w, k) /\ f = Claim(w) }

Claims(k) ==
    { f \in Frame : \/ OnBus(f, k)
                    \/ \E w \in Workers : (Holds(w, k) \/ Asks(w, k)) /\ f = Claim(w) }

\* What the queue has not yet been pruned of, whoever comes next.
InReach(k, t) ==
    \/ t >= now - Window
    \/ \E w \in Workers : Limits(w, k) /\ t >= job[w].ts - Window

\* A thread in the limiter has the latest request of its key, and prunes only
\* what has expired.
Latest(w, k) ==
    Limits(w, k) => /\ \A f \in Claims(k) : f.ts <= job[w].ts
                    /\ pc[w] = "pop" => HeadExpired(w)

KeyInv(k) ==
    /\ \A w \in Workers : Latest(w, k)
    /\ \A t \in Int : InReach(k, t) => Covers(attempts[k], Claims(k), t)
    /\ Rated(Granted(k))

\* A call is of this life, not stamped ahead of the clock, and a button's call
\* makes the button's request.
Fresh(w) ==
    pc[w] # "idle" => /\ job[w].id > earlier /\ job[w].ts <= now
                      /\ job[w].kind # "preview" => job[w].req = LabRequest(job[w].kind)

Stamped ==
    /\ \A w \in Workers : Fresh(w)
    /\ \A f \in wire : f.ts <= now

Alone == "limiter" \notin overlapped =>
            \A w, v \in Workers : w # v /\ pc[w] \in InLimiter /\ pc[v] \in InLimiter
                                    => Key(job[w].req) # Key(job[v].req)

RateInv ==
    /\ Stamped
    /\ Alone
    /\ "limiter" \notin overlapped => \A k \in Keys : KeyInv(k)

LEMMA WatchAlone ==
    ASSUME Watch
    PROVE  Alone' /\ overlapped \subseteq overlapped'
<1>1. overlapped' = overlapped \cup Overlap'
  BY DEF Watch
<1>2. ASSUME NEW w \in Workers, NEW v \in Workers, w # v, pc'[w] \in InLimiter,
             pc'[v] \in InLimiter, Key(job'[w].req) = Key(job'[v].req)
      PROVE  "limiter" \in Overlap'
  <2>1. Together(w, v, InLimiter)'
    BY <1>2 DEF Together
  <2> QED
    BY <1>2, <2>1 DEF Overlap
<1> QED
  BY <1>1, <1>2 DEF Alone

---------------------------------------------------------------------------
(* What every step of a thread leaves alone.                                *)

SameCall(w) ==
    /\ job'[w].id = job[w].id /\ job'[w].kind = job[w].kind
    /\ job'[w].req = job[w].req /\ job'[w].ts = job[w].ts

Served(w) ==
    /\ pc[w] # "idle"
    /\ now' = now /\ earlier' = earlier
    /\ \A v \in Workers : v # w => pc'[v] = pc[v] /\ job'[v] = job[v]
    /\ pc'[w] # "idle" => SameCall(w)

LEMMA GotoServes ==
    ASSUME ThreadTypes, NEW w \in Workers, pc[w] # "idle",
           NEW label \in PC \ {"idle"}, Goto(w, label), UNCHANGED outside
    PROVE  Served(w) /\ pc'[w] = label /\ job' = job
<1>1. /\ pc'[w] = label /\ job' = job
      /\ \A v \in Workers : v # w => pc'[v] = pc[v] /\ job'[v] = job[v]
  BY GotoMoves
<1> QED
  BY <1>1 DEF Served, SameCall, outside

LEMMA AnswerServes ==
    ASSUME ThreadTypes, NEW w \in Workers, pc[w] # "idle",
           NEW outcome, Answer(w, outcome), UNCHANGED outside
    PROVE  Served(w) /\ pc'[w] = "idle"
<1>1. /\ pc' = [pc EXCEPT ![w] = "idle"] /\ job' = [job EXCEPT ![w] = NoJob]
      /\ pc \in [Workers -> PC] /\ job \in [Workers -> Job \cup {NoJob}]
  BY DEF Answer, ThreadTypes
<1> QED
  BY <1>1 DEF Served, outside

(* What a step of a thread may do to one key without disturbing its rate.   *)
KeepsClaims(w, k) ==
    /\ Holds(w, k)' => Holds(w, k)
    /\ Asks(w, k)' => Asks(w, k)
    /\ \A f \in wire' : f \in wire \/ (OnBus(f, k)' => Holds(w, k) /\ f = Claim(w))

Calm(w, k) ==
    /\ attempts'[k] = attempts[k]
    /\ Limits(w, k)' => /\ Limits(w, k) /\ job'[w] = job[w]
                        /\ pc'[w] = "pop" => HeadExpired(w)
    /\ KeepsClaims(w, k)

LEMMA OthersAsBefore ==
    ASSUME NEW w \in Workers, Served(w), NEW k, NEW v \in Workers, v # w
    PROVE  /\ Limits(v, k)' <=> Limits(v, k)
           /\ Holds(v, k)' <=> Holds(v, k)
           /\ Asks(v, k)' <=> Asks(v, k)
           /\ Claim(v)' = Claim(v)
           /\ job'[v] = job[v] /\ pc'[v] = pc[v]
<1>1. job'[v] = job[v] /\ pc'[v] = pc[v]
  BY DEF Served
<1> QED
  BY <1>1 DEF Limits, Holds, Asks, Claim

LEMMA SelfAsBefore ==
    ASSUME NEW w \in Workers, Served(w), NEW k, Limits(w, k)' \/ Holds(w, k)' \/ Asks(w, k)'
    PROVE  Claim(w)' = Claim(w) /\ job'[w].ts = job[w].ts /\ job'[w].req = job[w].req
<1>1. pc'[w] # "idle"
  BY DEF Limits, Holds, Asks, InLimiter, InTransmit
<1>2. SameCall(w)
  BY <1>1 DEF Served
<1> QED
  BY <1>2 DEF SameCall, Claim

LEMMA CalmClaims ==
    ASSUME NEW w \in Workers, Served(w), NEW k, KeepsClaims(w, k)
    PROVE  Claims(k)' \subseteq Claims(k) /\ Granted(k)' \subseteq Granted(k)
<1>1. ASSUME NEW f \in Frame, OnBus(f, k)'
      PROVE  OnBus(f, k) \/ (Holds(w, k) /\ f = Claim(w))
  BY <1>1 DEF OnBus, KeepsClaims, Served
<1>2. ASSUME NEW f \in Frame, NEW v \in Workers, Holds(v, k)', f = Claim(v)'
      PROVE  Holds(v, k) /\ f = Claim(v)
  <2>1. CASE v = w
    BY <1>2, <2>1, SelfAsBefore DEF KeepsClaims
  <2>2. CASE v # w
    BY <1>2, <2>2, OthersAsBefore
  <2> QED
    BY <2>1, <2>2
<1>3. ASSUME NEW f \in Frame, NEW v \in Workers, Asks(v, k)', f = Claim(v)'
      PROVE  Asks(v, k) /\ f = Claim(v)
  <2>1. CASE v = w
    BY <1>3, <2>1, SelfAsBefore DEF KeepsClaims
  <2>2. CASE v # w
    BY <1>3, <2>2, OthersAsBefore
  <2> QED
    BY <2>1, <2>2
<1> QED
  BY <1>1, <1>2, <1>3 DEF Claims, Granted

(* Where a step puts nothing on the bus, only its own claim may be new.     *)
LEMMA QuietClaims ==
    ASSUME NEW w \in Workers, Served(w), wire' = wire, NEW k
    PROVE  /\ Claims(k)' \subseteq Claims(k) \cup {Claim(w)}
           /\ Granted(k)' \subseteq Granted(k) \cup {Claim(w)}
           /\ Granted(k)' \subseteq Claims(k)'
           /\ (Holds(w, k)' => Holds(w, k)) => Granted(k)' \subseteq Granted(k)
           /\ (Holds(w, k)' => Holds(w, k) \/ Asks(w, k)) /\ (Asks(w, k)' => Asks(w, k))
                  => Claims(k)' \subseteq Claims(k)
<1>1. \A f : OnBus(f, k)' <=> OnBus(f, k)
  BY DEF OnBus, Served
<1>2. ASSUME NEW f, NEW v \in Workers, v # w
      PROVE  /\ Holds(v, k)' /\ f = Claim(v)' => Holds(v, k) /\ f = Claim(v)
             /\ Asks(v, k)' /\ f = Claim(v)' => Asks(v, k) /\ f = Claim(v)
  BY <1>2, OthersAsBefore
<1>3. ASSUME NEW f
      PROVE  (Holds(w, k)' \/ Asks(w, k)') /\ f = Claim(w)' => f = Claim(w)
  BY SelfAsBefore
<1> QED
  BY <1>1, <1>2, <1>3 DEF Claims, Granted

(* The invariant of one key survives whenever its queue stays, its claims   *)
(* do not grow, and nobody enters its limiter but with a stamp of now.      *)
LEMMA KeyStays ==
    ASSUME NEW k \in Keys, KeyInv(k), Stamped, now \in Times, now' \in Times, now <= now',
           job \in [Workers -> Job \cup {NoJob}], attempts \in [Keys -> Seq(Times)],
           attempts'[k] = attempts[k],
           Claims(k)' \subseteq Claims(k), Granted(k)' \subseteq Granted(k),
           \A w \in Workers : Limits(w, k)' =>
               \/ /\ Limits(w, k) /\ job'[w] = job[w]
                  /\ pc'[w] = "pop" => HeadExpired(w)
               \/ pc'[w] = "prune" /\ job'[w].ts = now
    PROVE  KeyInv(k)'
<1>0. Window \in Int /\ now \in Int /\ now' \in Int /\ now <= now'
  BY ServiceAssumption DEF ServiceAssumption, Times
<1>1. Claims(k) \in SUBSET Frame /\ Granted(k) \in SUBSET Frame
  BY DEF Claims, Granted
<1>2. \A f \in Claims(k) : f.ts <= now
  BY DEF Stamped, Claims, OnBus, Holds, Asks, Claim, Fresh, InTransmit
<1>3. ASSUME NEW w \in Workers PROVE Latest(w, k)'
  <2> SUFFICES ASSUME Limits(w, k)'
               PROVE  /\ \A f \in Claims(k)' : f.ts <= job'[w].ts
                      /\ pc'[w] = "pop" => HeadExpired(w)'
    BY DEF Latest
  <2>1. CASE Limits(w, k) /\ job'[w] = job[w] /\ (pc'[w] = "pop" => HeadExpired(w))
    <3>1. \A f \in Claims(k) : f.ts <= job[w].ts
      BY <2>1 DEF KeyInv, Latest
    <3>2. HeadExpired(w) => HeadExpired(w)'
      <4>1. Queue(w)' = Queue(w)
        BY <2>1 DEF Queue, Limits
      <4> QED
        BY <2>1, <4>1 DEF HeadExpired
    <3> QED
      BY <2>1, <3>1, <3>2
  <2>2. CASE pc'[w] = "prune" /\ job'[w].ts = now
    BY <1>2, <2>2
  <2> QED
    BY <2>1, <2>2
<1>4. ASSUME NEW t \in Int, InReach(k, t)'
      PROVE  Covers(attempts[k], Claims(k), t)'
  <2>1. InReach(k, t)
    <3>1. CASE t >= now' - Window
      <4>1. \A a, b \in Int : a <= b /\ t >= b - Window => t >= a - Window
        BY <1>0
      <4>2. t >= now - Window
        BY <1>0, <3>1, <4>1
      <4> QED
        BY <4>2 DEF InReach
    <3>2. CASE \E w \in Workers : Limits(w, k)' /\ t >= job'[w].ts - Window
      <4>1. PICK w \in Workers : Limits(w, k)' /\ t >= job'[w].ts - Window
        BY <3>2
      <4>2. (Limits(w, k) /\ job'[w] = job[w]) \/ job'[w].ts = now
        BY <4>1
      <4> QED
        BY <4>1, <4>2 DEF InReach
    <3> QED
      BY <1>4, <3>1, <3>2 DEF InReach
  <2>2. Covers(attempts[k], Claims(k), t)
    BY <2>1 DEF KeyInv
  <2>3. attempts[k] \in Seq(Times)
    OBVIOUS
  <2>4. Covers(attempts[k], Claims(k)', t)
    BY <1>1, <2>2, <2>3, CoversFewer
  <2> QED
    BY <2>4 DEF Covers
<1>5. Rated(Granted(k)')
  BY <1>1, RatedFewer DEF KeyInv
<1>6. Rated(Granted(k))'
  BY <1>5 DEF Rated, Near
<1> QED
  BY <1>3, <1>4, <1>6 DEF KeyInv

Clock ==
    /\ now \in Times /\ now' \in Times /\ now <= now'
    /\ job \in [Workers -> Job \cup {NoJob}]
    /\ attempts \in [Keys -> Seq(Times)]
    /\ wire' \subseteq Frame

LEMMA CalmStep ==
    ASSUME NEW w \in Workers, Served(w), NEW k \in Keys, KeyInv(k), Stamped, Clock, Calm(w, k)
    PROVE  KeyInv(k)'
<1>1. Claims(k)' \subseteq Claims(k) /\ Granted(k)' \subseteq Granted(k)
  BY CalmClaims DEF Calm
<1>2. ASSUME NEW v \in Workers, Limits(v, k)'
      PROVE  /\ Limits(v, k) /\ job'[v] = job[v]
             /\ pc'[v] = "pop" => HeadExpired(v)
  <2>1. CASE v = w
    BY <1>2, <2>1 DEF Calm
  <2>2. CASE v # w
    <3>1. Limits(v, k) /\ job'[v] = job[v] /\ pc'[v] = pc[v]
      BY <1>2, <2>2, OthersAsBefore
    <3>2. Latest(v, k)
      BY DEF KeyInv
    <3> QED
      BY <3>1, <3>2 DEF Latest
  <2> QED
    BY <2>1, <2>2
<1>3. attempts'[k] = attempts[k]
  BY DEF Calm
<1> QED
  BY <1>1, <1>2, <1>3, KeyStays DEF Clock

(* A step of a thread that is not in the limiter afterwards, or is where it *)
(* was, is calm for every key.                                              *)
LEMMA GotoCalm ==
    ASSUME ThreadTypes, NEW w \in Workers, pc[w] # "idle",
           NEW label \in PC \ {"idle"}, Goto(w, label), UNCHANGED outside,
           attempts' = attempts,
           label # "count",
           label \in InLimiter => pc[w] \in InLimiter /\ (label = "pop" => HeadExpired(w)),
           label = "audit" => pc[w] = "audit",
           label \in InTransmit => pc[w] \in InTransmit \/ (pc[w] = "audit" /\ job[w].reason = "approved"),
           wire' = wire \/ (wire' = wire \cup {Claim(w)} /\ pc[w] = "send"),
           Stage(w), Fresh(w),
           NEW k
    PROVE  Calm(w, k)
<1>1. Served(w) /\ pc'[w] = label /\ job' = job
  BY GotoServes
<1>2. Limits(w, k)' => /\ Limits(w, k) /\ job'[w] = job[w]
                       /\ pc'[w] = "pop" => HeadExpired(w)
  BY <1>1 DEF Limits
<1>3. Holds(w, k)' => Holds(w, k)
  BY <1>1 DEF Holds
<1>4. ~Asks(w, k)'
  BY <1>1 DEF Asks
<1>5. ASSUME NEW f \in wire', f \notin wire, OnBus(f, k)'
      PROVE  Holds(w, k) /\ f = Claim(w)
  <2>1. f = Claim(w) /\ pc[w] = "send"
    BY <1>5
  <2>2. job[w].kind # "preview" /\ job[w].req = LabRequest(job[w].kind)
    BY <2>1 DEF Stage, Fresh, InTransmit
  <2>3. Key(LabRequest(f.kind)) = k /\ f.kind = job[w].kind
    BY <1>5, <2>1 DEF OnBus, Claim
  <2> QED
    BY <2>1, <2>2, <2>3 DEF Holds, InTransmit
<1> QED
  BY <1>2, <1>3, <1>4, <1>5 DEF Calm, KeepsClaims

LEMMA AnswerCalm ==
    ASSUME ThreadTypes, NEW w \in Workers, pc[w] # "idle",
           NEW outcome, Answer(w, outcome), UNCHANGED outside,
           attempts' = attempts, wire' = wire, NEW k
    PROVE  Calm(w, k)
<1>1. pc'[w] = "idle"
  BY AnswerServes
<1>2. ~Limits(w, k)' /\ ~Holds(w, k)' /\ ~Asks(w, k)'
  BY <1>1 DEF Limits, Holds, Asks, InLimiter, InTransmit
<1> QED
  BY <1>2 DEF Calm, KeepsClaims

CalmServed(w) == Served(w) /\ \A k \in Keys : Calm(w, k)

CalmButOwn(w) ==
    Served(w) /\ \A k \in Keys : k # Key(job[w].req) => Calm(w, k)

(* What the steps below start from.                                         *)
Ready(w) == ThreadTypes /\ Stage(w) /\ Fresh(w)

LEMMA GotoIsCalm ==
    ASSUME NEW w \in Workers, Ready(w), pc[w] # "idle",
           NEW label \in PC \ {"idle"}, Goto(w, label), UNCHANGED outside,
           attempts' = attempts,
           label # "count",
           label \in InLimiter => pc[w] \in InLimiter /\ (label = "pop" => HeadExpired(w)),
           label = "audit" => pc[w] = "audit",
           label \in InTransmit => pc[w] \in InTransmit \/ (pc[w] = "audit" /\ job[w].reason = "approved"),
           wire' = wire \/ (wire' = wire \cup {Claim(w)} /\ pc[w] = "send")
    PROVE  CalmServed(w)
BY GotoCalm, GotoServes DEF CalmServed, Ready

LEMMA AnswerIsCalm ==
    ASSUME NEW w \in Workers, Ready(w), pc[w] # "idle",
           NEW outcome, Answer(w, outcome), UNCHANGED outside,
           attempts' = attempts, wire' = wire
    PROVE  CalmServed(w)
BY AnswerCalm, AnswerServes DEF CalmServed, Ready

(* A queue that a thread leaves alone for every key but its own.            *)
LEMMA OwnStep ==
    ASSUME ThreadTypes, NEW w \in Workers, pc[w] # "idle", Served(w), wire' = wire,
           NEW queue, SetQueue(w, queue) \/ attempts' = attempts,
           attempts \in [Keys -> Seq(Times)]
    PROVE  CalmButOwn(w)
<1> SUFFICES ASSUME NEW k \in Keys, k # Key(job[w].req) PROVE Calm(w, k)
  BY DEF CalmButOwn
<1>1. pc'[w] # "idle" => job'[w].req = job[w].req
  BY DEF Served, SameCall
<1>2. ~Limits(w, k)' /\ ~Holds(w, k)' /\ ~Asks(w, k)'
  BY <1>1 DEF Limits, Holds, Asks, InLimiter, InTransmit
<1>3. attempts'[k] = attempts[k]
  BY DEF SetQueue
<1> QED
  BY <1>2, <1>3 DEF Calm, KeepsClaims

---------------------------------------------------------------------------
LEMMA PruneTestCalm ==
    ASSUME NEW w \in Workers, Ready(w), PruneTest(w)
    PROVE  CalmServed(w)
<1>1. /\ pc[w] = "prune" /\ attempts' = attempts /\ wire' = wire /\ UNCHANGED outside
      /\ pc[w] # "idle" /\ pc[w] \in InLimiter
  BY DEF PruneTest, transmitter, InLimiter
<1>2. CASE HeadExpired(w) /\ Goto(w, "pop")
  <2>1. "pop" \in PC \ {"idle"} /\ "pop" \notin InTransmit
    BY DEF PC, InPolicy, InLimiter, InTransmit
  <2> QED
    BY <1>1, <1>2, <2>1, GotoIsCalm
<1>3. CASE Goto(w, "append")
  <2>1. "append" \in PC \ {"idle"} /\ "append" \notin InTransmit
    BY DEF PC, InPolicy, InLimiter, InTransmit
  <2> QED
    BY <1>1, <1>3, <2>1, GotoIsCalm
<1> QED
  BY <1>2, <1>3 DEF PruneTest

LEMMA LogCommandCalm ==
    ASSUME NEW w \in Workers, Ready(w), LogCommand(w)
    PROVE  CalmServed(w)
<1>1. /\ pc[w] = "audit" /\ attempts' = attempts /\ wire' = wire /\ UNCHANGED outside
      /\ pc[w] # "idle"
  BY DEF LogCommand, transmitter
<1>2. CASE Goto(w, "note")
  <2>1. "note" \in PC \ {"idle"} /\ "note" \notin InTransmit /\ "note" \notin InLimiter
    BY DEF PC, InTransmit, InLimiter
  <2> QED
    BY <1>1, <1>2, <2>1, GotoIsCalm
<1>3. CASE job[w].reason = "approved" /\ Goto(w, "transmit")
  <2>1. "transmit" \in PC \ {"idle"} /\ "transmit" \notin InLimiter
    BY DEF PC, InTransmit, InLimiter
  <2> QED
    BY <1>1, <1>3, <2>1, GotoIsCalm
<1>4. CASE \E outcome \in {"denied", "error"} : Answer(w, outcome)
  BY <1>1, <1>4, AnswerIsCalm
<1> QED
  BY <1>2, <1>3, <1>4 DEF LogCommand, AfterPolicy

LEMMA NotesCalm ==
    ASSUME NEW w \in Workers, Ready(w), NotePreview(w) \/ NoteSent(w) \/ NoteFailed(w)
    PROVE  CalmServed(w)
<1>1. /\ attempts' = attempts /\ wire' = wire /\ UNCHANGED outside /\ pc[w] # "idle"
  BY DEF NotePreview, NoteSent, NoteFailed, transmitter
<1>2. PICK outcome : Answer(w, outcome)
  BY DEF NotePreview, NoteSent, NoteFailed, LogEvent
<1> QED
  BY <1>1, <1>2, AnswerIsCalm

LEMMA TransmitCalm ==
    ASSUME NEW w \in Workers, Ready(w), BuildFrame(w) \/ OpenBus(w) \/ Send(w)
    PROVE  CalmServed(w)
<1>1. /\ attempts' = attempts /\ UNCHANGED outside /\ pc[w] # "idle" /\ pc[w] \in InTransmit
  BY DEF BuildFrame, OpenBus, Send, InTransmit
<1>2. \A label \in {"send", "open", "failed", "sent"} :
          label \in PC \ {"idle"} /\ label \notin InLimiter /\ label # "audit" /\ label # "count"
  BY DEF PC, InTransmit, InLimiter
<1>3. ASSUME NEW label \in {"send", "open", "failed", "sent"}, Goto(w, label),
             wire' = wire \/ (wire' = wire \cup {Claim(w)} /\ pc[w] = "send")
      PROVE  CalmServed(w)
  BY <1>1, <1>2, <1>3, GotoIsCalm
<1>4. CASE BuildFrame(w)
  <2>1. wire' = wire
    BY <1>4 DEF BuildFrame, transmitter
  <2>2. CASE Answer(w, "error")
    BY <1>1, <2>1, <2>2, AnswerIsCalm
  <2>3. CASE \E label \in {"send", "open"} : Goto(w, label)
    BY <1>3, <2>1, <2>3
  <2> QED
    BY <1>4, <2>2, <2>3 DEF BuildFrame
<1>5. CASE OpenBus(w)
  <2>1. wire' = wire /\ \E label \in {"send", "failed"} : Goto(w, label)
    BY <1>5 DEF OpenBus
  <2> QED
    BY <1>3, <2>1
<1>6. CASE Send(w)
  <2>1. \/ wire' = wire \cup {Claim(w)} /\ pc[w] = "send" /\ Goto(w, "sent")
        \/ wire' = wire /\ Goto(w, "failed")
    BY <1>6 DEF Send, Claim
  <2> QED
    BY <1>3, <2>1
<1> QED
  BY <1>4, <1>5, <1>6

---------------------------------------------------------------------------
(* The three steps that change a queue or decide on one.                    *)

AloneIn(w, k) ==
    Limits(w, k) /\ \A v \in Workers : v # w => ~Limits(v, k)

LEMMA PopOwn ==
    ASSUME NEW w \in Workers, Ready(w), Pop(w), NEW k \in Keys, k = Key(job[w].req),
           KeyInv(k), AloneIn(w, k), Stamped, Clock
    PROVE  KeyInv(k)'
<1>0. pc[w] = "pop" /\ wire' = wire /\ UNCHANGED outside /\ Queue(w) = attempts[k]
  BY DEF Pop, transmitter, Queue
<1>1. CASE Answer(w, "error") /\ UNCHANGED attempts
  <2>1. CalmServed(w)
    BY <1>0, <1>1, AnswerIsCalm
  <2> QED
    BY <2>1, CalmStep DEF CalmServed
<1>2. CASE Queue(w) # <<>> /\ SetQueue(w, Tail(Queue(w))) /\ Goto(w, "prune")
  <2>1. Served(w) /\ pc'[w] = "prune" /\ job' = job
    BY <1>0, <1>2, GotoServes DEF Ready, PC, InPolicy, InLimiter
  <2>2. attempts[k] \in Seq(Times) /\ attempts[k] # <<>> /\ attempts'[k] = Tail(attempts[k])
    BY <1>0, <1>2 DEF SetQueue, Clock
  <2>3. ~Holds(w, k)' /\ ~Asks(w, k)'
    BY <2>1 DEF Holds, Asks, InTransmit
  <2>4. Claims(k)' \subseteq Claims(k) /\ Granted(k)' \subseteq Granted(k)
    BY <1>0, <2>1, <2>3, QuietClaims
  <2>5. Claims(k) \in SUBSET Frame /\ Granted(k) \in SUBSET Frame
    BY DEF Claims, Granted
  <2>6. /\ \A f \in Claims(k) : f.ts <= job[w].ts
        /\ attempts[k][1] < job[w].ts - Window
    BY <1>0, <2>2 DEF KeyInv, Latest, AloneIn, HeadExpired
  <2>7. ASSUME NEW v \in Workers PROVE Latest(v, k)'
    <3>1. CASE v = w
      BY <2>1, <2>4, <2>6, <3>1 DEF Latest
    <3>2. CASE v # w
      BY <2>1, <3>2, OthersAsBefore DEF Latest, AloneIn
    <3> QED
      BY <3>1, <3>2
  <2>8. ASSUME NEW t \in Int, InReach(k, t)' PROVE Covers(attempts[k], Claims(k), t)'
    <3>1. /\ Window \in Int /\ now \in Int /\ job[w].ts \in Int /\ job[w].ts <= now
          /\ attempts[k][1] \in Int /\ now' = now
      BY <1>0, <2>1, <2>2, BusyHasJob, ServiceAssumption
         DEF ServiceAssumption, Times, Job, Ready, Fresh, Clock, Served
    <3>2. \A v \in Workers : Limits(v, k)' => v = w
      BY <2>1, OthersAsBefore DEF AloneIn
    <3>3. t >= now - Window \/ t >= job[w].ts - Window
      BY <2>1, <2>8, <3>1, <3>2 DEF InReach
    <3>4. InReach(k, t)
      BY <3>3 DEF InReach, AloneIn
    <3>5. \A a, b \in Int : a < job[w].ts - Window /\ b >= now - Window => a < b
      BY <3>1
    <3>6. attempts[k][1] < t
      BY <2>6, <3>1, <3>3, <3>5
    <3>7. Covers(attempts[k], Claims(k), t)
      BY <3>4 DEF KeyInv
    <3>8. Covers(Tail(attempts[k]), Claims(k), t)
      BY <2>2, <2>5, <3>6, <3>7, CoversTail
    <3>9. Tail(attempts[k]) \in Seq(Times)
      BY <2>2
    <3>10. Covers(attempts'[k], Claims(k)', t)
      BY <2>2, <2>4, <2>5, <3>8, <3>9, CoversFewer
    <3> QED
      BY <3>10 DEF Covers
  <2>9. Rated(Granted(k)')
    BY <2>4, <2>5, RatedFewer DEF KeyInv
  <2>10. Rated(Granted(k))'
    BY <2>9 DEF Rated, Near
  <2> QED
    BY <2>7, <2>8, <2>10 DEF KeyInv
<1> QED
  BY <1>1, <1>2 DEF Pop

LEMMA AppendOwn ==
    ASSUME NEW w \in Workers, Ready(w), AppendAttempt(w), NEW k \in Keys, k = Key(job[w].req),
           KeyInv(k), AloneIn(w, k), Stamped, Clock
    PROVE  KeyInv(k)'
<1>0. /\ pc[w] = "append" /\ wire' = wire /\ UNCHANGED outside /\ Queue(w) = attempts[k]
      /\ SetQueue(w, Append(Queue(w), job[w].ts)) /\ Goto(w, "count")
  BY DEF AppendAttempt, transmitter, Queue
<1>1. Served(w) /\ pc'[w] = "count" /\ job' = job
  BY <1>0, GotoServes DEF Ready, PC, InPolicy, InLimiter
<1>2. attempts[k] \in Seq(Times) /\ attempts'[k] = Append(attempts[k], job[w].ts)
  BY <1>0 DEF SetQueue, Clock
<1>3. ~Holds(w, k)'
  BY <1>1 DEF Holds, InTransmit
<1>4. Claims(k)' \subseteq Claims(k) \cup {Claim(w)} /\ Granted(k)' \subseteq Granted(k)
  BY <1>0, <1>1, <1>3, QuietClaims
<1>5. /\ Claims(k) \in SUBSET Frame /\ Granted(k) \in SUBSET Frame
      /\ Claims(k)' \in SUBSET Frame
  <2>1. Frame' = Frame
    BY DEF Frame
  <2> QED
    BY <2>1 DEF Claims, Granted
<1>6. /\ Window \in Int /\ now \in Int /\ job[w].ts \in Int /\ job[w].ts \in Times
      /\ job[w].ts <= now /\ now' = now
  BY <1>0, <1>1, BusyHasJob, ServiceAssumption
     DEF ServiceAssumption, Times, Job, Ready, Fresh, Clock, Served
<1>7. \A f \in Claims(k)' : f.ts <= job[w].ts
  <2>1. \A f \in Claims(k) : f.ts <= job[w].ts
    BY DEF KeyInv, Latest, AloneIn
  <2>2. Claim(w).ts <= job[w].ts
    BY <1>6 DEF Claim
  <2> QED
    BY <1>4, <2>1, <2>2
<1>8. ASSUME NEW v \in Workers PROVE Latest(v, k)'
  <2>1. CASE v = w
    BY <1>1, <1>7, <2>1 DEF Latest
  <2>2. CASE v # w
    BY <1>1, <2>2, OthersAsBefore DEF Latest, AloneIn
  <2> QED
    BY <2>1, <2>2
<1>9. ASSUME NEW t \in Int, InReach(k, t)' PROVE Covers(attempts[k], Claims(k), t)'
  <2>1. \A v \in Workers : Limits(v, k)' => v = w
    BY <1>1, OthersAsBefore DEF AloneIn
  <2>2. InReach(k, t)
    BY <1>1, <1>6, <1>9, <2>1 DEF InReach, AloneIn
  <2>3. Covers(attempts[k], Claims(k), t)
    BY <2>2 DEF KeyInv
  <2>4. Covers(Append(attempts[k], job[w].ts), Claims(k)', t)
    BY <1>2, <1>4, <1>5, <1>6, <1>7, <2>3, CoversAppend
  <2>5. Covers(attempts'[k], Claims(k)', t)
    BY <1>2, <2>4
  <2> QED
    BY <2>5 DEF Covers
<1>10. Rated(Granted(k)')
  BY <1>4, <1>5, RatedFewer DEF KeyInv
<1>11. Rated(Granted(k))'
  BY <1>10 DEF Rated, Near
<1> QED
  BY <1>8, <1>9, <1>11 DEF KeyInv

LEMMA CountServes ==
    ASSUME NEW w \in Workers, Ready(w), Count(w)
    PROVE  /\ Served(w) /\ pc[w] = "count" /\ pc'[w] = "audit" /\ wire' = wire
           /\ attempts' = attempts /\ pc[w] # "idle"
           /\ job'[w].reason = "approved" => Len(Queue(w)) <= MaxAttempts
<1>0. ThreadTypes /\ pc[w] = "count" /\ job[w] \in Job
  BY BusyHasJob DEF Count, Ready
<1>1. PICK reason \in {"approved", "rate_limited"} :
          /\ job' = [job EXCEPT ![w].reason = reason]
          /\ reason = "approved" => Len(Queue(w)) <= MaxAttempts
  BY DEF Count
<1>2. /\ pc' = [pc EXCEPT ![w] = "audit"]
      /\ UNCHANGED <<outside, attempts, tables, transmitter, replies>>
  BY DEF Count
<1>3. job' = [job EXCEPT ![w] = [job[w] EXCEPT !.reason = reason]]
  BY <1>0, <1>1
<1>4. /\ job'[w] = [job[w] EXCEPT !.reason = reason] /\ pc'[w] = "audit"
      /\ \A v \in Workers : v # w => pc'[v] = pc[v] /\ job'[v] = job[v]
  BY <1>0, <1>2, <1>3 DEF ThreadTypes
<1>5. /\ job'[w].id = job[w].id /\ job'[w].kind = job[w].kind /\ job'[w].reason = reason
      /\ job'[w].req = job[w].req /\ job'[w].ts = job[w].ts
  BY <1>0, <1>4 DEF Job
<1> QED
  BY <1>0, <1>1, <1>2, <1>4, <1>5 DEF Served, SameCall, outside, transmitter

LEMMA CountOwn ==
    ASSUME NEW w \in Workers, Ready(w), Count(w), NEW k \in Keys, k = Key(job[w].req),
           KeyInv(k), AloneIn(w, k), Stamped, Clock
    PROVE  KeyInv(k)'
<1>0. /\ Served(w) /\ pc[w] = "count" /\ pc'[w] = "audit" /\ wire' = wire
      /\ attempts' = attempts /\ pc[w] # "idle"
      /\ job'[w].reason = "approved" => Len(attempts[k]) <= MaxAttempts
  BY CountServes DEF Queue
<1>1. /\ Claims(k) \in SUBSET Frame /\ Granted(k) \in SUBSET Claims(k)
      /\ Granted(k) \in SUBSET Frame
  BY DEF Claims, Granted
<1>2. SameCall(w)
  BY <1>0 DEF Served
<1>3. /\ Holds(w, k)' => Asks(w, k) /\ job'[w].reason = "approved"
      /\ ~Asks(w, k)'
  BY <1>0, <1>2 DEF Holds, Asks, SameCall, InTransmit
<1>4. /\ Claims(k)' \subseteq Claims(k)
      /\ Granted(k)' \subseteq Granted(k) \cup {Claim(w)}
      /\ Granted(k)' \subseteq Claims(k)
      /\ job'[w].reason # "approved" => Granted(k)' \subseteq Granted(k)
  BY <1>0, <1>3, QuietClaims
<1>5. /\ Window \in Int /\ now \in Int /\ job[w].ts \in Int /\ job[w].ts \in Times
      /\ job[w].ts <= now /\ now' = now /\ attempts[k] \in Seq(Times)
  BY <1>0, BusyHasJob, ServiceAssumption
     DEF ServiceAssumption, Times, Job, Ready, Fresh, Clock, Served
<1>6. \A v \in Workers : ~Limits(v, k)'
  BY <1>0, OthersAsBefore DEF Limits, AloneIn, InLimiter
<1>7. ASSUME NEW v \in Workers PROVE Latest(v, k)'
  BY <1>6 DEF Latest
<1>8. ASSUME NEW t \in Int, InReach(k, t)' PROVE Covers(attempts[k], Claims(k), t)'
  <2>1. InReach(k, t)
    BY <1>5, <1>6, <1>8 DEF InReach
  <2>2. Covers(attempts[k], Claims(k), t)
    BY <2>1 DEF KeyInv
  <2>3. Covers(attempts'[k], Claims(k)', t)
    BY <1>0, <1>1, <1>4, <1>5, <2>2, CoversFewer
  <2> QED
    BY <2>3 DEF Covers
<1>9. Rated(Granted(k)')
  <2>1. CASE job'[w].reason # "approved"
    BY <1>1, <1>4, <2>1, RatedFewer DEF KeyInv
  <2>2. CASE job'[w].reason = "approved"
    <3>1. InReach(k, job[w].ts - Window) /\ job[w].ts - Window \in Int
      BY <1>5 DEF InReach, AloneIn
    <3>2. Covers(attempts[k], Claims(k), job[w].ts - Window)
      BY <3>1 DEF KeyInv
    <3>3. \A f \in Claims(k) : f.ts <= job[w].ts
      BY DEF KeyInv, Latest, AloneIn
    <3>4. Claim(w).ts = job[w].ts
      BY DEF Claim
    <3>5. Rated(Granted(k)) /\ Len(attempts[k]) <= MaxAttempts
      BY <1>0, <2>2 DEF KeyInv
    <3> QED
      BY <1>1, <1>4, <1>5, <3>2, <3>3, <3>4, <3>5, RatedGrows
  <2> QED
    BY <2>1, <2>2
<1>10. Rated(Granted(k))'
  BY <1>9 DEF Rated, Near
<1> QED
  BY <1>7, <1>8, <1>10 DEF KeyInv

---------------------------------------------------------------------------
LEMMA ServeRates ==
    ASSUME NEW w \in Workers, Ready(w), Serve(w), Alone, Stamped, Clock, NEW k \in Keys, KeyInv(k),
           "limiter" \notin overlapped
    PROVE  Served(w) /\ KeyInv(k)'
<1>1. ASSUME CalmServed(w) PROVE Served(w) /\ KeyInv(k)'
  BY <1>1, CalmStep DEF CalmServed
<1>2. ASSUME Served(w), k # Key(job[w].req) => Calm(w, k) PROVE k # Key(job[w].req) => KeyInv(k)'
  BY <1>2, CalmStep
<1>3. ASSUME pc[w] \in InLimiter, k = Key(job[w].req) PROVE AloneIn(w, k)
  BY <1>3 DEF Alone, AloneIn, Limits
<1>4. CASE PruneTest(w)
  BY <1>1, <1>4, PruneTestCalm
<1>5. CASE LogCommand(w)
  BY <1>1, <1>5, LogCommandCalm
<1>6. CASE NotePreview(w) \/ NoteSent(w) \/ NoteFailed(w)
  BY <1>1, <1>6, NotesCalm
<1>7. CASE BuildFrame(w) \/ OpenBus(w) \/ Send(w)
  BY <1>1, <1>7, TransmitCalm
<1>8. CASE Pop(w)
  <2>1. pc[w] = "pop" /\ wire' = wire /\ UNCHANGED outside
    BY <1>8 DEF Pop, transmitter
  <2>2. Served(w)
    BY <1>8, <2>1, GotoServes, AnswerServes DEF Pop, Ready, PC, InPolicy, InLimiter
  <2>3. k # Key(job[w].req) => Calm(w, k)
    BY <1>8, <2>1, <2>2, OwnStep DEF Pop, Ready, Clock, CalmButOwn
  <2>4. k # Key(job[w].req) => KeyInv(k)'
    BY <1>2, <2>2, <2>3
  <2>5. CASE k = Key(job[w].req)
    BY <1>3, <1>8, <2>1, <2>2, <2>5, PopOwn DEF InLimiter
  <2> QED
    BY <2>2, <2>4, <2>5
<1>9. CASE AppendAttempt(w)
  <2>1. pc[w] = "append" /\ wire' = wire /\ UNCHANGED outside
    BY <1>9 DEF AppendAttempt, transmitter
  <2>2. Served(w)
    BY <1>9, <2>1, GotoServes DEF AppendAttempt, Ready, PC, InPolicy, InLimiter
  <2>3. k # Key(job[w].req) => Calm(w, k)
    BY <1>9, <2>1, <2>2, OwnStep DEF AppendAttempt, Ready, Clock, CalmButOwn
  <2>4. k # Key(job[w].req) => KeyInv(k)'
    BY <1>2, <2>2, <2>3
  <2>5. CASE k = Key(job[w].req)
    BY <1>3, <1>9, <2>1, <2>2, <2>5, AppendOwn DEF InLimiter
  <2> QED
    BY <2>2, <2>4, <2>5
<1>10. CASE Count(w)
  <2>1. Served(w) /\ pc[w] = "count" /\ wire' = wire /\ attempts' = attempts /\ pc[w] # "idle"
    BY <1>10, CountServes
  <2>2. k # Key(job[w].req) => Calm(w, k)
    BY <2>1, OwnStep DEF Ready, Clock, CalmButOwn
  <2>3. k # Key(job[w].req) => KeyInv(k)'
    BY <1>2, <2>1, <2>2
  <2>4. CASE k = Key(job[w].req)
    BY <1>3, <1>10, <2>1, <2>4, CountOwn DEF InLimiter
  <2> QED
    BY <2>1, <2>3, <2>4
<1> QED
  BY <1>4, <1>5, <1>6, <1>7, <1>8, <1>9, <1>10 DEF Serve, Policy, Transmit

LEMMA ServeServes ==
    ASSUME NEW w \in Workers, Ready(w), Serve(w), attempts \in [Keys -> Seq(Times)]
    PROVE  Served(w) /\ wire' \subseteq wire \cup {Claim(w)}
<1>1. CASE PruneTest(w)
  BY <1>1, PruneTestCalm DEF CalmServed, PruneTest, transmitter
<1>2. CASE LogCommand(w)
  BY <1>2, LogCommandCalm DEF CalmServed, LogCommand, transmitter
<1>3. CASE NotePreview(w) \/ NoteSent(w) \/ NoteFailed(w)
  BY <1>3, NotesCalm DEF CalmServed, NotePreview, NoteSent, NoteFailed, transmitter
<1>4. CASE BuildFrame(w) \/ OpenBus(w) \/ Send(w)
  BY <1>4, TransmitCalm DEF CalmServed, BuildFrame, OpenBus, Send, Claim, transmitter
<1>5. CASE Pop(w)
  <2>1. pc[w] = "pop" /\ wire' = wire /\ UNCHANGED outside
    BY <1>5 DEF Pop, transmitter
  <2> QED
    BY <1>5, <2>1, GotoServes, AnswerServes DEF Pop, Ready, PC, InPolicy, InLimiter
<1>6. CASE AppendAttempt(w)
  <2>1. pc[w] = "append" /\ wire' = wire /\ UNCHANGED outside
    BY <1>6 DEF AppendAttempt, transmitter
  <2> QED
    BY <1>6, <2>1, GotoServes DEF AppendAttempt, Ready, PC, InPolicy, InLimiter
<1>7. CASE Count(w)
  BY <1>7, CountServes
<1> QED
  BY <1>1, <1>2, <1>3, <1>4, <1>5, <1>6, <1>7 DEF Serve, Policy, Transmit

LEMMA ServeKeepsRate ==
    ASSUME IInv, IInv', RateInv, NEW w \in Workers, Serve(w)
    PROVE  RateInv'
<1>1. Ready(w)
  BY DEF IInv, TypeOK, Staged, ThreadTypes, Ready, RateInv, Stamped
<1>2. Served(w) /\ wire' \subseteq wire \cup {Claim(w)}
  BY <1>1, ServeServes DEF IInv, TypeOK
<1>3. Clock
  <2>1. now' = now /\ now \in Int
    BY <1>2 DEF IInv, TypeOK, Served, Times
  <2> QED
    BY <2>1 DEF Clock, IInv, TypeOK
<1>4. Alone' /\ overlapped \subseteq overlapped'
  BY WatchAlone DEF Serve
<1>5. Stamped'
  <2>1. ASSUME NEW v \in Workers PROVE Fresh(v)'
    <3>1. CASE v = w
      BY <1>1, <1>2, <3>1 DEF Served, SameCall, Fresh, Ready
    <3>2. CASE v # w
      BY <1>2, <3>2 DEF Served, Fresh, RateInv, Stamped
    <3> QED
      BY <3>1, <3>2
  <2>2. ASSUME NEW f \in wire' PROVE f.ts <= now'
    <3>1. CASE f \in wire
      BY <1>2, <3>1 DEF Served, RateInv, Stamped
    <3>2. CASE f = Claim(w)
      BY <1>1, <1>2, <3>2 DEF Served, Ready, Fresh, Claim
    <3> QED
      BY <1>2, <3>1, <3>2
  <2> QED
    BY <2>1, <2>2 DEF Stamped
<1>6. ASSUME "limiter" \notin overlapped', NEW k \in Keys PROVE KeyInv(k)'
  <2>1. "limiter" \notin overlapped /\ KeyInv(k) /\ Alone /\ Stamped
    BY <1>4, <1>6 DEF RateInv
  <2> QED
    BY <1>1, <1>3, <2>1, ServeRates
<1> QED
  BY <1>4, <1>5, <1>6 DEF RateInv

---------------------------------------------------------------------------
(* Calls arrive, the clock moves, the process restarts.                     *)

LEMMA ArriveKeepsKey ==
    ASSUME NEW w \in Workers, NEW k \in Keys, KeyInv(k), Stamped, Clock,
           UNCHANGED <<now, earlier, attempts, wire>>,
           \A v \in Workers : v # w => pc'[v] = pc[v] /\ job'[v] = job[v],
           \/ pc'[w] = "idle"
           \/ pc'[w] = "prune" /\ job'[w].ts = now
           \/ pc'[w] = "audit" /\ job'[w].reason # "approved"
    PROVE  KeyInv(k)'
<1>1. ~Holds(w, k)' /\ ~Asks(w, k)' /\ (Limits(w, k)' => pc'[w] = "prune" /\ job'[w].ts = now)
  BY DEF Holds, Asks, Limits, InLimiter, InTransmit
<1>2. ASSUME NEW v \in Workers, v # w
      PROVE  /\ Limits(v, k)' <=> Limits(v, k)
             /\ Holds(v, k)' <=> Holds(v, k)
             /\ Asks(v, k)' <=> Asks(v, k)
             /\ Claim(v)' = Claim(v)
             /\ job'[v] = job[v] /\ pc'[v] = pc[v]
  <2>1. job'[v] = job[v] /\ pc'[v] = pc[v]
    BY <1>2
  <2> QED
    BY <2>1 DEF Limits, Holds, Asks, Claim
<1>3. \A f : OnBus(f, k)' <=> OnBus(f, k)
  BY DEF OnBus
<1>4. Claims(k)' \subseteq Claims(k) /\ Granted(k)' \subseteq Granted(k)
  BY <1>1, <1>2, <1>3 DEF Claims, Granted
<1>5. ASSUME NEW v \in Workers, Limits(v, k)'
      PROVE  \/ /\ Limits(v, k) /\ job'[v] = job[v]
                /\ pc'[v] = "pop" => HeadExpired(v)
             \/ pc'[v] = "prune" /\ job'[v].ts = now
  <2>1. CASE v = w
    BY <1>1, <1>5, <2>1
  <2>2. CASE v # w
    BY <1>2, <1>5, <2>2 DEF KeyInv, Latest
  <2> QED
    BY <2>1, <2>2
<1> QED
  BY <1>4, <1>5, KeyStays DEF Clock

LEMMA BeginKeepsRate ==
    ASSUME IInv, IInv', RateInv, NEW w \in Workers, NEW kind \in Kinds, NEW req \in Request,
           kind # "preview" => req = LabRequest(kind),
           Begin(w, kind, req), Watch
    PROVE  RateInv'
<1>1. /\ UNCHANGED <<now, earlier, attempts, wire>>
      /\ pc \in [Workers -> PC] /\ job \in [Workers -> Job \cup {NoJob}]
      /\ calls' = calls + 1 /\ calls \in Nat /\ earlier \in 0..calls /\ now \in Int
  BY ServiceAssumption DEF ServiceAssumption, Begin, transmitter, IInv, TypeOK, Times
<1>2. /\ job' = [job EXCEPT ![w] = [id |-> calls', kind |-> kind, req |-> req, ts |-> now,
                                     reason |-> StaticReason(settings, req)]]
      /\ pc' = [pc EXCEPT ![w] = IF StaticReason(settings, req) = "none" THEN "prune" ELSE "audit"]
  BY DEF Begin
<1>3. /\ job'[w].id = calls' /\ job'[w].kind = kind /\ job'[w].req = req /\ job'[w].ts = now
      /\ job'[w].reason = StaticReason(settings, req)
      /\ pc'[w] = IF StaticReason(settings, req) = "none" THEN "prune" ELSE "audit"
      /\ \A v \in Workers : v # w => pc'[v] = pc[v] /\ job'[v] = job[v]
  BY <1>1, <1>2
<1>4. StaticReason(settings, req) # "approved"
  BY DEF StaticReason
<1>5. Stamped'
  <2>1. ASSUME NEW v \in Workers PROVE Fresh(v)'
    <3>1. CASE v = w
      <4>1. calls' > earlier' /\ now <= now'
        BY <1>1
      <4> QED
        BY <1>3, <3>1, <4>1 DEF Fresh
    <3>2. CASE v # w
      BY <1>1, <1>3, <3>2 DEF Fresh, RateInv, Stamped
    <3> QED
      BY <3>1, <3>2
  <2> QED
    BY <1>1, <2>1 DEF Stamped, RateInv
<1>6. Alone' /\ overlapped \subseteq overlapped'
  BY WatchAlone
<1>7. Clock
  BY <1>1 DEF Clock, IInv, TypeOK
<1>8. ASSUME "limiter" \notin overlapped', NEW k \in Keys PROVE KeyInv(k)'
  <2>1. KeyInv(k) /\ Stamped
    BY <1>6, <1>8 DEF RateInv
  <2>2. \/ pc'[w] = "prune" /\ job'[w].ts = now
        \/ pc'[w] = "audit" /\ job'[w].reason # "approved"
    BY <1>3, <1>4
  <2> QED
    BY <1>1, <1>3, <1>7, <2>1, <2>2, ArriveKeepsKey
<1> QED
  BY <1>5, <1>6, <1>8 DEF RateInv

(* Steps in which no thread takes part: a refusal, the clock, a stutter.    *)
LEMMA PassingKeepsRate ==
    ASSUME IInv, IInv', RateInv, Watch \/ UNCHANGED overlapped, now <= now',
           UNCHANGED <<earlier, attempts, wire, pc, job>>
    PROVE  RateInv'
<1>1. now \in Int /\ now' \in Int /\ now <= now'
  BY DEF IInv, TypeOK, Times
<1>2. Clock
  BY DEF Clock, IInv, TypeOK
<1>3. Stamped'
  <2>1. ASSUME NEW v \in Workers PROVE Fresh(v)'
    <3>1. pc[v] # "idle" => job[v].ts \in Int /\ job[v].ts <= now
      BY BusyHasJob DEF IInv, TypeOK, ThreadTypes, Job, Times, RateInv, Stamped, Fresh
    <3>2. pc[v] # "idle" => job[v].ts <= now'
      BY <1>1, <3>1
    <3> QED
      BY <3>2 DEF Fresh, RateInv, Stamped
  <2>2. \A f \in wire : f.ts \in Int /\ f.ts <= now
    BY DEF IInv, TypeOK, Frame, Times, RateInv, Stamped
  <2>3. \A f \in wire' : f.ts <= now'
    BY <1>1, <2>2
  <2> QED
    BY <2>1, <2>3 DEF Stamped
<1>4. Alone' /\ overlapped \subseteq overlapped'
  <2>1. CASE Watch
    BY <2>1, WatchAlone
  <2>2. CASE UNCHANGED overlapped
    BY <2>2 DEF Alone, RateInv
  <2> QED
    BY <2>1, <2>2
<1>5. ASSUME "limiter" \notin overlapped', NEW k \in Keys PROVE KeyInv(k)'
  <2>1. KeyInv(k) /\ Stamped
    BY <1>4, <1>5 DEF RateInv
  <2>2. Claims(k)' \subseteq Claims(k) /\ Granted(k)' \subseteq Granted(k)
    BY DEF Claims, Granted, OnBus, Holds, Asks, Claim
  <2>3. ASSUME NEW v \in Workers, Limits(v, k)'
        PROVE  Limits(v, k) /\ job'[v] = job[v] /\ (pc'[v] = "pop" => HeadExpired(v))
    BY <2>1, <2>3 DEF Limits, KeyInv, Latest
  <2> QED
    BY <1>2, <2>1, <2>2, <2>3, KeyStays DEF Clock
<1> QED
  BY <1>3, <1>4, <1>5 DEF RateInv

(* A life of the process begins: nothing counts against anything yet.       *)
StartOfLife ==
    /\ attempts = NoAttempts
    /\ \A w \in Workers : pc[w] = "idle"
    /\ \A f \in wire : ~(f.id > earlier) /\ f.ts <= now

LEMMA StartRates == StartOfLife => RateInv
<1> SUFFICES ASSUME StartOfLife PROVE RateInv
  OBVIOUS
<1>1. ASSUME NEW k \in Keys PROVE KeyInv(k)
  <2>1. Claims(k) = {} /\ Granted(k) = {} /\ \A w \in Workers : ~Limits(w, k)
    BY DEF StartOfLife, Claims, Granted, OnBus, Holds, Asks, Limits, InLimiter, InTransmit
  <2>2. attempts[k] = <<>>
    BY DEF StartOfLife, NoAttempts
  <2>3. \A t \in Int : Covers(<<>>, {}, t)
    <3> SUFFICES ASSUME NEW t \in Int, NEW i \in 0..Len(<<>>)
                 PROVE  Cardinality(Since({}, t)) <= Len(<<>>) - i
      BY DEF Covers
    <3>1. Len(<<>>) = 0 /\ i = 0
      OBVIOUS
    <3>2. Since({}, t) = {}
      BY DEF Since
    <3>3. Cardinality(Since({}, t)) = 0
      BY <3>2, FS_EmptySet
    <3> QED
      BY <3>1, <3>3
  <2>4. Rated({})
    BY DEF Rated
  <2> QED
    BY <2>1, <2>2, <2>3, <2>4 DEF KeyInv, Latest
<1>2. Stamped /\ Alone
  BY DEF StartOfLife, Stamped, Fresh, Alone, InLimiter
<1> QED
  BY <1>1, <1>2 DEF RateInv

LEMMA StartRatesNext == StartOfLife' => RateInv'
BY StartRates, PTL

LEMMA RestartKeepsRate ==
    ASSUME IInv, RateInv, Restart
    PROVE  RateInv'
<1>1. \A f \in wire : f.id \in Int /\ f.id <= calls /\ f.ts <= now /\ calls \in Int
  BY ServiceAssumption DEF ServiceAssumption, IInv, TypeOK, Numbered, Frame, RateInv, Stamped
<1>2. /\ attempts' = NoAttempts /\ earlier' = calls /\ wire' = wire /\ now' = now
      /\ \A w \in Workers : pc'[w] = "idle"
  BY DEF Restart
<1>3. StartOfLife'
  BY <1>1, <1>2 DEF StartOfLife
<1> QED
  BY <1>3, StartRatesNext

LEMMA NextKeepsRate == IInv /\ IInv' /\ RateInv /\ [Next]_vars => RateInv'
<1> SUFFICES ASSUME IInv, IInv', RateInv, [Next]_vars PROVE RateInv'
  OBVIOUS
<1>1. now \in Int
  BY DEF IInv, TypeOK, Times
<1>2. ASSUME NEW w \in Workers, Serve(w) PROVE RateInv'
  BY <1>2, ServeKeepsRate
<1>3. ASSUME NEW w \in Workers, Arrive(w), Watch PROVE RateInv'
  <2>1. ASSUME NEW req \in PreviewRequests, PreviewCall(w, req) PROVE RateInv'
    BY <1>3, <2>1, BeginKeepsRate DEF PreviewCall, Kinds, Request
  <2>2. ASSUME NEW kind \in LabKinds, LabCall(w, kind) PROVE RateInv'
    BY <1>3, <2>2, BeginKeepsRate DEF LabCall, Kinds, Request
  <2>3. CASE LabRefused(w)
    <3>1. UNCHANGED <<now, earlier, attempts, wire, pc, job>> /\ now <= now'
      BY <1>1, <2>3 DEF LabRefused, transmitter
    <3> QED
      BY <1>3, <3>1, PassingKeepsRate
  <2> QED
    BY <1>3, <2>1, <2>2, <2>3 DEF Arrive
<1>4. CASE Tick /\ Watch
  <2>1. UNCHANGED <<earlier, attempts, wire, pc, job>> /\ now <= now'
    BY <1>1, <1>4 DEF Tick, transmitter
  <2> QED
    BY <1>4, <2>1, PassingKeepsRate
<1>5. CASE Restart /\ Watch
  BY <1>5, RestartKeepsRate
<1>6. CASE UNCHANGED vars
  <2>1. UNCHANGED <<earlier, attempts, wire, pc, job, overlapped>> /\ now <= now'
    BY <1>1, <1>6 DEF vars
  <2> QED
    BY <2>1, PassingKeepsRate
<1> QED
  BY <1>2, <1>3, <1>4, <1>5, <1>6 DEF Next

LEMMA InitRates == Init => RateInv
<1>1. Init => StartOfLife
  BY DEF Init, StartOfLife
<1> QED
  BY <1>1, StartRates

LEMMA LabKey ==
    ASSUME NEW kind \in LabKinds
    PROVE  /\ Key(LabRequest(kind)) = <<"audio", LabRequest(kind).command>>
           /\ Key(LabRequest(kind)) \in Keys
<1>1. Key(LabRequest(kind)) = <<"audio", LabRequest(kind).command>>
  BY DEF Key, LabRequest, Normalised
<1>2. LabRequest(kind).command \in {"lab_volume_step", "lab_mute"}
  BY DEF LabRequest
<1>3. ASSUME NEW command \in {"lab_volume_step", "lab_mute"} PROVE <<"audio", command>> \in Keys
  <2>1. \E e \in DEFAULT_WHITELIST : e.domain = "audio" /\ e.command = command
    BY <1>3 DEF DEFAULT_WHITELIST, WhitelistEntry
  <2> QED
    BY <2>1 DEF Keys
<1> QED
  BY <1>1, <1>2, <1>3

LEMMA RateFollows == IInv /\ RateInv => OverlapAloneBreaksRate
<1> SUFFICES ASSUME IInv, RateInv, "limiter" \notin overlapped, NEW kind \in LabKinds,
                    NEW f \in FramesOf(LabRequest(kind).command)
             PROVE  Cardinality({ g \in FramesOf(LabRequest(kind).command) :
                                    g.ts \in (f.ts - Window)..f.ts }) <= MostFrames
  BY DEF OverlapAloneBreaksRate, WireRate, MostFrames
<1> DEFINE k == Key(LabRequest(kind))
           frames == FramesOf(LabRequest(kind).command)
<1>1. k \in Keys /\ k = <<"audio", LabRequest(kind).command>>
  BY LabKey
<1>2. frames \subseteq Granted(k)
  <2> SUFFICES ASSUME NEW g \in frames PROVE g \in Granted(k)
    OBVIOUS
  <2>1. g \in wire /\ g \in Frame /\ g.id > earlier
        /\ LabRequest(g.kind).command = LabRequest(kind).command
    BY DEF FramesOf, IInv, TypeOK
  <2>2. g.kind \in LabKinds
    BY <2>1 DEF Frame
  <2>3. Key(LabRequest(g.kind)) = k
    BY <1>1, <2>1, <2>2, LabKey
  <2> QED
    BY <2>1, <2>3 DEF Granted, OnBus
<1>3. KeyInv(k)
  BY <1>1 DEF RateInv
<1> HIDE DEF k
<1>4. Cardinality(Near(Granted(k), f)) <= MostFrames
  BY <1>2, <1>3 DEF KeyInv, Rated
<1>5. Near(frames, f) \in SUBSET Near(Granted(k), f) /\ Near(Granted(k), f) \in SUBSET Frame
  BY <1>2 DEF Near, Granted
<1>6. /\ Cardinality(Near(frames, f)) <= Cardinality(Near(Granted(k), f))
      /\ Cardinality(Near(frames, f)) \in Nat /\ Cardinality(Near(Granted(k), f)) \in Nat
      /\ MostFrames \in Int
  BY <1>5, FewerFrames, ServiceAssumption DEF ServiceAssumption, MostFrames
<1>7. Cardinality(Near(frames, f)) <= MostFrames
  BY <1>4, <1>6
<1> QED
  BY <1>7 DEF Near

LEMMA RateInvariance == Spec => []RateInv
<1>1. Init => RateInv
  BY InitRates
<1>2. IInv /\ IInv' /\ RateInv /\ [Next]_vars => RateInv'
  BY NextKeepsRate
<1> QED
  BY <1>1, <1>2, Invariance, PTL DEF Spec

(* policy.py:98-108: in a process where no two calls of one command were in  *)
(* the limiter at once, the frames of a command within one window are never  *)
(* more than MaxAttempts, whatever else overlaps, fails or is restarted.     *)
THEOREM RateBrokenByOverlapAlone == Spec => []OverlapAloneBreaksRate
BY RateFollows, Invariance, RateInvariance, PTL

---------------------------------------------------------------------------
(* The bus is opened once unless two sends overlap.                         *)

OpenInv ==
    /\ "transmitter" \notin overlapped =>
           /\ opened = (IF bus THEN 1 ELSE 0)
           /\ \A w \in Workers : pc[w] = "open" => ~bus
           /\ \A w, v \in Workers : w # v => ~(pc[w] \in InTransmit /\ pc[v] \in InTransmit)

LEMMA WatchSends ==
    ASSUME Watch, "transmitter" \notin overlapped'
    PROVE  /\ "transmitter" \notin overlapped
           /\ \A w, v \in Workers : w # v => ~(pc'[w] \in InTransmit /\ pc'[v] \in InTransmit)
<1>1. overlapped' = overlapped \cup Overlap'
  BY DEF Watch
<1>2. ASSUME NEW w \in Workers, NEW v \in Workers, w # v, pc'[w] \in InTransmit,
             pc'[v] \in InTransmit
      PROVE  "transmitter" \in Overlap'
  <2>1. Together(w, v, InTransmit)'
    BY <1>2 DEF Together
  <2> QED
    BY <1>2, <2>1 DEF Overlap
<1> QED
  BY <1>1, <1>2

LEMMA NextKeepsOpen == IInv /\ OpenInv /\ [Next]_vars => OpenInv'
<1> SUFFICES ASSUME IInv, OpenInv, [Next]_vars, "transmitter" \notin overlapped'
             PROVE  /\ opened' = (IF bus' THEN 1 ELSE 0)
                    /\ \A w \in Workers : pc'[w] = "open" => ~bus'
                    /\ \A w, v \in Workers : w # v => ~(pc'[w] \in InTransmit /\ pc'[v] \in InTransmit)
  BY DEF OpenInv
<1>1. Watch \/ UNCHANGED vars
  BY DEF Next, Serve
<1>2. /\ "transmitter" \notin overlapped
      /\ \A w, v \in Workers : w # v => ~(pc'[w] \in InTransmit /\ pc'[v] \in InTransmit)
  BY <1>1, WatchSends DEF vars, OpenInv
<1>3. /\ opened = (IF bus THEN 1 ELSE 0)
      /\ \A w \in Workers : pc[w] = "open" => ~bus
      /\ \A w, v \in Workers : w # v => ~(pc[w] \in InTransmit /\ pc[v] \in InTransmit)
      /\ bus \in BOOLEAN /\ pc \in [Workers -> PC]
  BY <1>2 DEF OpenInv, IInv, TypeOK
<1>4. ASSUME UNCHANGED <<bus, opened>>,
             \A w \in Workers : pc'[w] = "open" => pc[w] = "open" \/ ~bus
      PROVE  /\ opened' = (IF bus' THEN 1 ELSE 0)
             /\ \A w \in Workers : pc'[w] = "open" => ~bus'
  BY <1>3, <1>4
<1>5. ASSUME NEW w \in Workers, Serve(w), ~(OpenBus(w) /\ bus' # bus)
      PROVE  /\ UNCHANGED <<bus, opened>>
             /\ \A v \in Workers : pc'[v] = "open" => pc[v] = "open" \/ ~bus
  <2>1. CASE Policy(w)
    <3>1. UNCHANGED <<bus, opened>>
      BY <2>1 DEF Policy, PruneTest, Pop, AppendAttempt, Count, LogCommand, transmitter
    <3>2. PICK label \in PC \ {"open"} : pc' = [pc EXCEPT ![w] = label]
      BY <2>1 DEF Policy, PruneTest, Pop, AppendAttempt, Count, LogCommand, AfterPolicy,
                  Goto, Answer, PC, InPolicy, InLimiter, InTransmit
    <3> QED
      BY <1>3, <3>1, <3>2
  <2>2. CASE NotePreview(w) \/ NoteSent(w) \/ NoteFailed(w)
    <3>1. UNCHANGED <<bus, opened>> /\ pc' = [pc EXCEPT ![w] = "idle"]
      BY <2>2 DEF NotePreview, NoteSent, NoteFailed, LogEvent, Answer, transmitter
    <3> QED
      BY <1>3, <3>1
  <2>3. CASE BuildFrame(w)
    <3>1. UNCHANGED <<bus, opened>>
      BY <2>3 DEF BuildFrame, transmitter
    <3>2. PICK label : pc' = [pc EXCEPT ![w] = label] /\ (label = "open" => ~bus)
      BY <2>3 DEF BuildFrame, Goto, Answer
    <3> QED
      BY <1>3, <3>1, <3>2
  <2>4. CASE OpenBus(w)
    <3>1. UNCHANGED <<bus, opened>>
      BY <1>3, <1>5, <2>4 DEF OpenBus
    <3>2. PICK label \in {"send", "failed"} : pc' = [pc EXCEPT ![w] = label]
      BY <2>4 DEF OpenBus, Goto
    <3> QED
      BY <1>3, <3>1, <3>2
  <2>5. CASE Send(w)
    <3>1. UNCHANGED <<bus, opened>>
      BY <2>5 DEF Send
    <3>2. PICK label \in {"sent", "failed"} : pc' = [pc EXCEPT ![w] = label]
      BY <2>5 DEF Send, Goto
    <3> QED
      BY <1>3, <3>1, <3>2
  <2> QED
    BY <1>5, <2>1, <2>2, <2>3, <2>4, <2>5 DEF Serve, Transmit
<1>6. ASSUME NEW w \in Workers, OpenBus(w), bus' # bus
      PROVE  /\ opened' = (IF bus' THEN 1 ELSE 0)
             /\ \A v \in Workers : pc'[v] = "open" => ~bus'
  <2>1. bus' = TRUE /\ opened' = opened + 1 /\ pc' = [pc EXCEPT ![w] = "send"] /\ pc[w] = "open"
    BY <1>6 DEF OpenBus, Goto
  <2>2. opened' = 1
    BY <1>3, <2>1
  <2>3. \A v \in Workers : v # w => pc'[v] = pc[v] /\ pc[v] # "open"
    BY <1>3, <2>1 DEF InTransmit
  <2>4. pc'[w] = "send"
    BY <1>3, <2>1
  <2> QED
    BY <2>1, <2>2, <2>3, <2>4
<1>7. ASSUME NEW w \in Workers, Arrive(w)
      PROVE  /\ UNCHANGED <<bus, opened>>
             /\ \A v \in Workers : pc'[v] = "open" => pc[v] = "open" \/ ~bus
  <2>1. UNCHANGED <<bus, opened>>
    BY <1>7 DEF Arrive, PreviewCall, LabCall, LabRefused, Begin, transmitter
  <2>2. \/ pc' = pc
        \/ \E label \in {"prune", "audit"} : pc' = [pc EXCEPT ![w] = label]
    BY <1>7 DEF Arrive, PreviewCall, LabCall, LabRefused, Begin
  <2> QED
    BY <1>3, <2>1, <2>2
<1>8. CASE Tick \/ UNCHANGED vars
  BY <1>2, <1>4, <1>8 DEF Tick, vars, transmitter
<1>9. CASE Restart
  BY <1>2, <1>9 DEF Restart
<1> QED
  BY <1>2, <1>4, <1>5, <1>6, <1>7, <1>8, <1>9 DEF Next

(* transmit.py:28-30: one CAN handle in a life of the process, through       *)
(* failed openings and sends, unless two sends have overlapped.              *)
THEOREM ReopenedByOverlapAlone == Spec => []OverlapAloneReopens
<1>1. Init => OpenInv
  BY DEF Init, OpenInv, InTransmit
<1>2. IInv /\ OpenInv /\ [Next]_vars => OpenInv'
  BY NextKeepsOpen
<1>3. OpenInv => OverlapAloneReopens
  BY DEF OpenInv, OverlapAloneReopens
<1> QED
  BY <1>1, <1>2, <1>3, Invariance, PTL DEF Spec
=============================================================================
