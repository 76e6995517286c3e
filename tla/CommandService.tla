--------------------------- MODULE CommandService ---------------------------
(***************************************************************************)
(* The command path end to end: the threads that serve HTTP calls run      *)
(* PlatformService.preview_command and lab_fusion_transmit                 *)
(* (services/platform.py), which share one PolicyEngine (safety/policy.py),*)
(* one SocketCanTransmitter (can/transmit.py) and one database, none of    *)
(* them behind a lock.  A step of a thread is one access to what they      *)
(* share; Python may switch threads between any two.                       *)
(***************************************************************************)
EXTENDS PolicyRules, FiniteSets

CONSTANTS Workers,          \* the threads of the server's pool
          PreviewRequests,  \* what clients post to /commands/preview
          LabKinds,         \* the lab buttons clients press
          Configs,          \* the settings a process may be started with
          Window,           \* command_rate_limit_window_sec
          MaxAttempts,      \* command_rate_limit_max_attempts
          StoreMayFail,     \* can an insert into the database raise?
          BusMayFail,       \* can opening the CAN bus or sending raise?
          MaxTime,          \* bound on the clock
          MaxCalls          \* bound on the calls clients make

FusionLabKind == {"volume_up", "volume_down", "mute_on", "mute_off"}

\* frame_valid: the lab addresses and priority are ones that
\* build_nmea2000_can_id accepts.
Config == [emergency_disable : BOOLEAN, read_only_mode : BOOLEAN, write_enable : BOOLEAN,
           lab_transmit_enabled : BOOLEAN, frame_valid : BOOLEAN]

ASSUME ServiceAssumption ==
    /\ PreviewRequests \subseteq CommandRequest
    /\ LabKinds \subseteq FusionLabKind
    /\ Configs \subseteq Config
    /\ Window \in Int /\ MaxAttempts \in Int
    /\ StoreMayFail \in BOOLEAN /\ BusMayFail \in BOOLEAN
    /\ MaxTime \in Nat /\ MaxCalls \in Nat

VARIABLES settings,  \* the settings of the running process
          now,       \* datetime.now
          attempts,  \* PolicyEngine._attempts
          bus,       \* SocketCanTransmitter._bus is not None
          opened,    \* CAN handles the transmitter opened in this life
          pc,        \* where each thread is
          job,       \* the call each thread serves
          calls,     \* how many calls have been made; a call's id is its number
          audit,     \* the table command_audit
          events,    \* the table system_events
          wire,      \* the frames put on the CAN bus
          replies,   \* the answers clients got
          earlier,   \* auxiliary: how many calls were made in earlier lives
          overlapped \* auxiliary: what two threads have been in at once

tables == <<audit, events>>
transmitter == <<bus, opened, wire>>
outside == <<settings, now, calls, earlier>>
vars == <<settings, now, attempts, bus, opened, pc, job, calls, audit, events,
          wire, replies, earlier, overlapped>>

Times == 0..MaxTime
Kinds == {"preview"} \cup LabKinds

\* The domain and command of a lab button, with the parameters it fills in.
LabRequest(kind) ==
    [domain |-> [word |-> "audio", dressed |-> FALSE],
     command |-> IF kind \in {"volume_up", "volume_down"} THEN "lab_volume_step"
                                                          ELSE "lab_mute",
     params |-> {"zone", IF kind \in {"volume_up", "volume_down"} THEN "direction"
                                                                   ELSE "muted"}]

Request == PreviewRequests \cup { LabRequest(kind) : kind \in LabKinds }

\* What a thread holds in local variables; an idle one holds nothing.
Job == [id : 1..MaxCalls, kind : Kinds, req : Request, ts : Times,
        reason : Reasons \cup {"none"}]
NoJob == [id |-> 0]

InLimiter == {"prune", "pop", "append", "count"}
InPolicy == InLimiter \cup {"audit"}
InTransmit == {"transmit", "open", "send", "sent", "failed"}
PC == {"idle", "note"} \cup InPolicy \cup InTransmit

Outcomes == {"evaluated", "lab_disabled", "denied", "transmitted", "transmit_failed", "error"}
EventKinds == {"command_preview_evaluated", "lab_fusion_transmitted", "lab_fusion_transmit_failed"}

Row == [id : 1..MaxCalls, req : Request, ts : Times, reason : Reasons]
Event == [id : 1..MaxCalls, kind : EventKinds]
Frame == [id : 1..MaxCalls, kind : LabKinds, ts : Times]
Reply == [id : 1..MaxCalls, outcome : Outcomes]

TypeOK ==
    /\ settings \in Configs
    /\ now \in Times
    /\ attempts \in [Keys -> Seq(Times)]
    /\ bus \in BOOLEAN
    /\ opened \in Nat
    /\ pc \in [Workers -> PC]
    /\ job \in [Workers -> Job \cup {NoJob}]
    /\ \A w \in Workers : job[w] = NoJob <=> pc[w] = "idle"
    /\ calls \in 0..MaxCalls
    /\ audit \subseteq Row
    /\ events \subseteq Event
    /\ wire \subseteq Frame
    /\ replies \subseteq Reply
    /\ earlier \in 0..calls
    /\ overlapped \subseteq {"limiter", "transmitter"}

Init ==
    /\ settings \in Configs
    /\ now = 0
    /\ attempts = NoAttempts
    /\ bus = FALSE
    /\ opened = 0
    /\ pc = [w \in Workers |-> "idle"]
    /\ job = [w \in Workers |-> NoJob]
    /\ calls = 0
    /\ audit = {}
    /\ events = {}
    /\ wire = {}
    /\ replies = {}
    /\ earlier = 0
    /\ overlapped = {}

---------------------------------------------------------------------------
(* Helpers of the steps.                                                   *)

Goto(w, label) == pc' = [pc EXCEPT ![w] = label] /\ UNCHANGED <<job, replies>>

\* Mutant of Answer: the thread keeps the call it has answered.
AnswerKeepsJob(w, outcome) ==
    /\ replies' = replies \cup {[id |-> job[w].id, outcome |-> outcome]}
    /\ pc' = [pc EXCEPT ![w] = "idle"]
    /\ UNCHANGED job

\* The call returns, or raises and the server answers 500.
Answer(w, outcome) ==
    /\ replies' = replies \cup {[id |-> job[w].id, outcome |-> outcome]}
    /\ pc' = [pc EXCEPT ![w] = "idle"]
    /\ job' = [job EXCEPT ![w] = NoJob]

\* system_event_repository.log_event and what follows it; a failing insert
\* raises out of the call.
LogEvent(w, kind, outcome) ==
    \/ /\ events' = events \cup {[id |-> job[w].id, kind |-> kind]}
       /\ Answer(w, outcome)
    \/ /\ StoreMayFail
       /\ Answer(w, "error")
       /\ UNCHANGED events

---------------------------------------------------------------------------
(* A call arrives: its request is stamped and the checks that depend on     *)
(* the frozen settings are made, up to the limiter.                         *)

Begin(w, kind, req) ==
    LET reason == StaticReason(settings, req)
    IN  /\ pc[w] = "idle"
        /\ calls < MaxCalls
        /\ calls' = calls + 1
        /\ job' = [job EXCEPT ![w] = [id |-> calls', kind |-> kind, req |-> req,
                                       ts |-> now, reason |-> reason]]
        /\ pc' = [pc EXCEPT ![w] = IF reason = "none" THEN "prune" ELSE "audit"]
        /\ UNCHANGED <<settings, now, earlier, attempts, tables, transmitter, replies>>

PreviewCall(w, req) == Begin(w, "preview", req)

LabCall(w, kind) == settings.lab_transmit_enabled /\ Begin(w, kind, LabRequest(kind))

\* The early return of lab_fusion_transmit, before any policy.
LabRefused(w) ==
    /\ ~settings.lab_transmit_enabled
    /\ pc[w] = "idle"
    /\ calls < MaxCalls
    /\ calls' = calls + 1
    /\ replies' = replies \cup {[id |-> calls', outcome |-> "lab_disabled"]}
    /\ UNCHANGED <<settings, now, earlier, attempts, tables, transmitter, pc, job>>

---------------------------------------------------------------------------
(* PolicyEngine._is_rate_limited, one access to the shared queue at a time. *)

Queue(w) == attempts[Key(job[w].req)]

SetQueue(w, queue) == attempts' = [attempts EXCEPT ![Key(job[w].req)] = queue]

\* Mutant of HeadExpired: an entry exactly as old as the window has expired.
HeadExpiredAtBoundary(w) == Queue(w) # <<>> /\ Head(Queue(w)) <= job[w].ts - Window

\* while queue and queue[0] < threshold
HeadExpired(w) == Queue(w) # <<>> /\ Head(Queue(w)) < job[w].ts - Window

PruneTest(w) ==
    /\ pc[w] = "prune"
    /\ Goto(w, IF HeadExpired(w) THEN "pop" ELSE "append")
    /\ UNCHANGED <<outside, attempts, tables, transmitter>>

\* popleft raises IndexError when another thread has emptied the queue.
Pop(w) ==
    /\ pc[w] = "pop"
    /\ \/ /\ Queue(w) # <<>>
          /\ SetQueue(w, Tail(Queue(w)))
          /\ Goto(w, "prune")
       \/ /\ Queue(w) = <<>>
          /\ Answer(w, "error")
          /\ UNCHANGED attempts
    /\ UNCHANGED <<outside, tables, transmitter>>

AppendAttempt(w) ==
    /\ pc[w] = "append"
    /\ SetQueue(w, Append(Queue(w), job[w].ts))
    /\ Goto(w, "count")
    /\ UNCHANGED <<outside, tables, transmitter>>

Count(w) ==
    /\ pc[w] = "count"
    /\ LET approved == Len(Queue(w)) <= MaxAttempts
       IN  job' = [job EXCEPT ![w].reason = IF approved THEN "approved" ELSE "rate_limited"]
    /\ pc' = [pc EXCEPT ![w] = "audit"]
    /\ UNCHANGED <<outside, attempts, tables, transmitter, replies>>

---------------------------------------------------------------------------
(* evaluate writes its audit row and returns to the service.                *)

AfterPolicy(w) ==
    IF job[w].kind = "preview" THEN Goto(w, "note")
    ELSE IF job[w].reason = "approved" THEN Goto(w, "transmit")
    ELSE Answer(w, "denied")

\* Mutant of LogCommand: a failing insert is swallowed.
LogCommandSwallows(w) ==
    /\ pc[w] = "audit"
    /\ \/ audit' = audit \cup {[id |-> job[w].id, req |-> job[w].req,
                                 ts |-> job[w].ts, reason |-> job[w].reason]}
       \/ StoreMayFail /\ UNCHANGED audit
    /\ AfterPolicy(w)
    /\ UNCHANGED <<outside, attempts, events, transmitter>>

LogCommand(w) ==
    /\ pc[w] = "audit"
    /\ \/ /\ audit' = audit \cup {[id |-> job[w].id, req |-> job[w].req,
                                   ts |-> job[w].ts, reason |-> job[w].reason]}
          /\ AfterPolicy(w)
       \/ /\ StoreMayFail
          /\ Answer(w, "error")
          /\ UNCHANGED audit
    /\ UNCHANGED <<outside, attempts, events, transmitter>>

NotePreview(w) ==
    /\ pc[w] = "note"
    /\ LogEvent(w, "command_preview_evaluated", "evaluated")
    /\ UNCHANGED <<outside, attempts, audit, transmitter>>

---------------------------------------------------------------------------
(* fusion_lab_command_frame and SocketCanTransmitter.send_extended.         *)

\* Mutant of BuildFrame: every send opens the bus.
BuildFrameAlwaysOpens(w) ==
    /\ pc[w] = "transmit"
    /\ Goto(w, "open")
    /\ UNCHANGED <<outside, attempts, tables, transmitter>>

BuildFrame(w) ==
    /\ pc[w] = "transmit"
    /\ IF settings.frame_valid THEN Goto(w, IF bus THEN "send" ELSE "open")
                               ELSE Answer(w, "error")
    /\ UNCHANGED <<outside, attempts, tables, transmitter>>

OpenBus(w) ==
    /\ pc[w] = "open"
    /\ \/ bus' = TRUE /\ opened' = opened + 1 /\ Goto(w, "send")
       \/ BusMayFail /\ UNCHANGED <<bus, opened>> /\ Goto(w, "failed")
    /\ UNCHANGED <<outside, attempts, tables, wire>>

Send(w) ==
    /\ pc[w] = "send"
    /\ \/ /\ wire' = wire \cup {[id |-> job[w].id, kind |-> job[w].kind, ts |-> job[w].ts]}
          /\ Goto(w, "sent")
       \/ BusMayFail /\ UNCHANGED wire /\ Goto(w, "failed")
    /\ UNCHANGED <<outside, attempts, tables, bus, opened>>

\* Mutant of NoteSent: a failing event insert is swallowed.
NoteSentSwallows(w) ==
    /\ pc[w] = "sent"
    /\ Answer(w, "transmitted")
    /\ \/ events' = events \cup {[id |-> job[w].id, kind |-> "lab_fusion_transmitted"]}
       \/ StoreMayFail /\ UNCHANGED events
    /\ UNCHANGED <<outside, attempts, audit, transmitter>>

NoteSent(w) ==
    /\ pc[w] = "sent"
    /\ LogEvent(w, "lab_fusion_transmitted", "transmitted")
    /\ UNCHANGED <<outside, attempts, audit, transmitter>>

NoteFailed(w) ==
    /\ pc[w] = "failed"
    /\ LogEvent(w, "lab_fusion_transmit_failed", "transmit_failed")
    /\ UNCHANGED <<outside, attempts, audit, transmitter>>

---------------------------------------------------------------------------
Tick ==
    /\ now < MaxTime
    /\ now' = now + 1
    /\ UNCHANGED <<settings, calls, earlier, attempts, tables, transmitter, pc, job, replies>>

\* The process is killed and started again, perhaps with other settings.
Restart ==
    /\ settings' \in Configs
    /\ attempts' = NoAttempts
    /\ earlier' = calls
    /\ bus' = FALSE
    /\ opened' = 0
    /\ pc' = [w \in Workers |-> "idle"]
    /\ job' = [w \in Workers |-> NoJob]
    /\ UNCHANGED <<now, calls, tables, wire, replies>>

Policy(w) == PruneTest(w) \/ Pop(w) \/ AppendAttempt(w) \/ Count(w) \/ LogCommand(w)
Transmit(w) == BuildFrame(w) \/ OpenBus(w) \/ Send(w) \/ NoteSent(w) \/ NoteFailed(w)

\* Bookkeeping of the threads that are in the limiter for one command, or in
\* the transmitter, at once.
Together(w, v, labels) == w # v /\ {pc[w], pc[v]} \subseteq labels

Overlap ==
    { part \in {"limiter"} : \E w, v \in Workers :
        Together(w, v, InLimiter) /\ Key(job[w].req) = Key(job[v].req) }
    \cup { part \in {"transmitter"} : \E w, v \in Workers : Together(w, v, InTransmit) }

Watch == overlapped' = overlapped \cup Overlap'

Serve(w) == (Policy(w) \/ NotePreview(w) \/ Transmit(w)) /\ Watch

Arrive(w) ==
    \/ \E req \in PreviewRequests : PreviewCall(w, req)
    \/ \E kind \in LabKinds : LabCall(w, kind)
    \/ LabRefused(w)

Next == \/ \E w \in Workers : Serve(w) \/ (Arrive(w) /\ Watch)
        \/ Tick /\ Watch
        \/ Restart /\ Watch

Spec == Init /\ [][Next]_vars

---------------------------------------------------------------------------
Approved(id) == \E row \in audit : row.id = id /\ row.reason = "approved"
Logged(id, kind) == [id |-> id, kind |-> kind] \in events

\* A frame is on the bus only if its own call was approved and that approval
\* is already in command_audit.
WireAudited == \A f \in wire : Approved(f.id)

HasRow(id) == \E row \in audit : row.id = id

UnauditedDidNothing ==
    /\ \A e \in events : HasRow(e.id)
    /\ \A r \in replies : r.outcome \in {"lab_disabled", "error"} \/ HasRow(r.id)

(* policy.py:51-66, platform.py:491-497: the class promises an audit row for*)
(* every attempt.  A call that has none, because an insert, a pop or a      *)
(* process failed under it, has left nothing else behind: no event, no      *)
(* answer but an error, and a frame only with a row that approves it.       *)
EffectsAreAudited == WireAudited /\ UnauditedDidNothing

\* An answer "ok" has the frame sent and recorded in both tables, and any other
\* answer than a server error has no frame.
AnswersTruthful ==
    \A r \in replies :
        LET sent == \E f \in wire : f.id = r.id
        IN  /\ r.outcome = "transmitted" =>
                  sent /\ Approved(r.id) /\ Logged(r.id, "lab_fusion_transmitted")
            /\ r.outcome \notin {"transmitted", "error"} => ~sent

\* No event claims a frame that was not sent, or a failure of one that was.
EventsTruthful ==
    \A e \in events :
        LET sent == \E f \in wire : f.id = e.id
        IN  /\ e.kind = "lab_fusion_transmitted" => sent
            /\ e.kind = "lab_fusion_transmit_failed" => ~sent

(* platform.py:495-529: what clients and the event log are told of a call   *)
(* is what happened on the bus, whichever step of it failed.                *)
ToldTruly == AnswersTruthful /\ EventsTruthful

(* policy.py:69-76, platform.py:465: a step that puts a frame on the bus is *)
(* taken by a process whose gates are open and whose lab switch is on.      *)
SendsBehindGates ==
    [][wire' # wire => GatesOpen(settings) /\ settings.lab_transmit_enabled]_vars

\* The frames of one command that this life of the process sent.
FramesOf(command) ==
    { f \in wire : f.id > earlier /\ LabRequest(f.kind).command = command }

(* policy.py:98-108: the frames of one command that one life of the process *)
(* sends, and whose requests are stamped within one window, are at most     *)
(* MaxAttempts.                                                             *)
WireRate ==
    \A kind \in LabKinds : \A f \in FramesOf(LabRequest(kind).command) :
        Cardinality({ g \in FramesOf(LabRequest(kind).command) :
                        g.ts \in (f.ts - Window)..f.ts })
            <= IF MaxAttempts > 0 THEN MaxAttempts ELSE 0

(* safety-model.md:50: a command does not flood the bus: of the frames of   *)
(* one command that are out, at most MaxAttempts were asked for within the  *)
(* window that ends now.                                                    *)
NoFlood ==
    \A kind \in LabKinds :
        Cardinality({ f \in FramesOf(LabRequest(kind).command) : f.ts >= now - Window })
            <= IF MaxAttempts > 0 THEN MaxAttempts ELSE 0

(* policy.py:102-107: only two calls of one command that are in the limiter *)
(* at once can break the rate; no restart, failing insert or failing send   *)
(* can, and no call of another command or preview of this one.              *)
OverlapAloneBreaksRate == "limiter" \notin overlapped => WireRate

(* transmit.py:28-30: the bus is opened once in a life, through failed      *)
(* openings and sends, unless two sends have overlapped.                    *)
OverlapAloneReopens == "transmitter" \notin overlapped => opened <= 1
=============================================================================
