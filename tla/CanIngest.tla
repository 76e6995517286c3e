----------------------------- MODULE CanIngest -----------------------------
(***************************************************************************)
(* How frames come in: SocketCanListener (can/socketcan.py) with its start *)
(* and stop, the capture file (can/capture.py), on_can_event, start, stop, *)
(* start_capture and stop_capture (services/platform.py), the catalog table*)
(* and the telemetry store.  The decoder is CanboatDecoder's business; here*)
(* it raises, or gives no fields, or those of any frame it was handed and  *)
(* has not answered yet, and it need not return.                           *)
(*                                                                         *)
(* Frames are numbered in the order the bus delivers them; a frame is "rpm"*)
(* (a PGN telemetry reads), "other" (any other PGN) or "foreign" (not an   *)
(* NMEA 2000 identifier, so without PGN).                                  *)
(***************************************************************************)
EXTENDS Integers, Sequences, FiniteSets

CONSTANTS FrameKinds,     \* per frame, the kinds it may be of
          DecoderMayFail, \* may decode raise, and is_ready say no?
          StoreMayFail,   \* may a statement on the database raise?
          CaptureMayFail, \* may the capture file's disk be full?
          BusMayFail,     \* may the bus not open, or recv raise?
          JoinMayExpire,  \* may the listener outlast the two seconds stop waits?
          MaxFrames,      \* bound on frames
          MaxStarts,      \* bound on listener threads
          MaxSessions     \* bound on capture sessions

ASSUME IngestAssumption ==
    /\ FrameKinds \in [1..MaxFrames -> SUBSET {"rpm", "other", "foreign"}]
    /\ {DecoderMayFail, StoreMayFail, CaptureMayFail, BusMayFail, JoinMayExpire} \subseteq BOOLEAN
    /\ MaxFrames \in Nat /\ MaxStarts \in Nat /\ MaxSessions \in Nat

None == 0
Threads == 1..MaxStarts
Pgns == {"rpm", "other"}
Frame == [id : 1..MaxFrames, kind : Pgns \cup {"foreign"}]
NoFrame == [id |-> 0]

\* kept: no failing write or statement took the frame away.
Outcome == [id : 1..MaxFrames, kind : Pgns \cup {"foreign"}, kept : BOOLEAN]

VARIABLES service,    \* how far PlatformService.start or stop has come
          faulted,    \* PlatformService._decoder_faulted
          thread,     \* SocketCanListener._thread
          stopEvent,  \* SocketCanListener._stop_event
          running,    \* SocketCanListener._running
          pc,         \* per listener thread, where it is
          event,      \* per listener thread, the frame it handles
          session,    \* CaptureManager._session
          handle,     \* CaptureManager._file_handle
          sessions,   \* how many capture sessions were started
          files,      \* per session, the frames in its file
          catalog,    \* the table message_catalog: count and sample of a PGN
          errors,     \* frames with a decoder_error in system_events
          rpm,        \* the frame whose value BoatTelemetryStore shows
          owed,       \* the "rpm" frames whose answer decode may still give
          answer,     \* per listener thread, the frame its decoded value is of
          sent,       \* how many frames the bus has delivered
          done        \* auxiliary: the frames the listener is done with

listener == <<thread, stopEvent, running>>
capture == <<session, handle, sessions, files>>
stores == <<catalog, errors, rpm>>
inHand == <<event, answer>>
answers == <<owed, answer>>
vars == <<service, faulted, listener, pc, event, capture, stores, answers, sent, done>>

ServiceStages == {"down", "logging", "up", "joining", "closing"}
InLoop == {"loop", "capture", "decode", "record", "publish"}

TypeOK ==
    /\ service \in ServiceStages
    /\ faulted \in BOOLEAN
    /\ thread \in 0..MaxStarts
    /\ stopEvent \in BOOLEAN
    /\ running \in BOOLEAN
    /\ pc \in [Threads -> {"unborn", "opening", "leaving", "dead"} \cup InLoop]
    /\ event \in [Threads -> Frame \cup {NoFrame}]
    /\ session \in 0..MaxSessions
    /\ handle \in {"none", "open", "closed"}
    /\ sessions \in 0..MaxSessions
    /\ files \in [1..MaxSessions -> Seq(1..MaxFrames)]
    /\ catalog \in [Pgns -> [count : 0..MaxFrames, sample : 0..MaxFrames]]
    /\ errors \subseteq 1..MaxFrames
    /\ rpm \in 0..MaxFrames
    /\ owed \subseteq 1..MaxFrames
    /\ answer \in [Threads -> 0..MaxFrames]
    /\ sent \in 0..MaxFrames
    /\ done \subseteq Outcome

Init ==
    /\ service = "down"
    /\ faulted = FALSE
    /\ thread = None
    /\ stopEvent = FALSE
    /\ running = FALSE
    /\ pc = [t \in Threads |-> "unborn"]
    /\ event = [t \in Threads |-> NoFrame]
    /\ session = None
    /\ handle = "none"
    /\ sessions = 0
    /\ files = [s \in 1..MaxSessions |-> <<>>]
    /\ catalog = [p \in Pgns |-> [count |-> 0, sample |-> 0]]
    /\ errors = {}
    /\ rpm = 0
    /\ owed = {}
    /\ answer = [t \in Threads |-> None]
    /\ sent = 0
    /\ done = {}

---------------------------------------------------------------------------
(* PlatformService.start: the latch is cleared, the decoder asked, the      *)
(* listener started, the event logged.                                      *)

IsAlive(t) == t # None /\ pc[t] \in {"opening", "leaving"} \cup InLoop

\* Mutant of StartThread: the running flag is asked in place of the thread.
StartThreadUnlessRunning ==
    IF running THEN UNCHANGED <<listener, pc>>
    ELSE /\ thread < MaxStarts
         /\ stopEvent' = FALSE
         /\ thread' = thread + 1
         /\ pc' = [pc EXCEPT ![thread'] = "opening"]
         /\ UNCHANGED running

\* SocketCanListener.start.
StartThread ==
    IF IsAlive(thread) THEN UNCHANGED <<listener, pc>>
    ELSE /\ thread < MaxStarts
         /\ stopEvent' = FALSE
         /\ thread' = thread + 1
         /\ pc' = [pc EXCEPT ![thread'] = "opening"]
         /\ UNCHANGED running

Start ==
    /\ service = "down"
    /\ StartThread
    /\ faulted' = FALSE
    /\ service' = "logging"
    /\ UNCHANGED <<event, capture, stores, answers, sent, done>>

\* A required decoder is not ready, or the database raises before it is asked.
StartRefused ==
    /\ service = "down"
    /\ DecoderMayFail \/ StoreMayFail
    /\ faulted' = FALSE
    /\ UNCHANGED <<service, listener, pc, event, capture, stores, answers, sent, done>>

\* log_event("platform_started"); a failing insert raises out of start and
\* leaves the listener behind.
LogStarted ==
    /\ service = "logging"
    /\ service' = "up" \/ (StoreMayFail /\ service' = "down")
    /\ UNCHANGED <<faulted, listener, pc, event, capture, stores, answers, sent, done>>

---------------------------------------------------------------------------
(* PlatformService.stop: the listener is stopped and joined, the decoder    *)
(* and the transmitter closed, the capture stopped, the event logged.       *)

\* Mutant of Stop: the event is not set.
StopWithoutEvent ==
    /\ service = "up"
    /\ service' = "joining"
    /\ UNCHANGED <<faulted, listener, pc, event, capture, stores, answers, sent, done>>

Stop ==
    /\ service = "up"
    /\ service' = "joining"
    /\ stopEvent' = TRUE
    /\ UNCHANGED <<faulted, thread, running, pc, event, capture, stores, answers, sent, done>>

Joined ==
    /\ service = "joining"
    /\ ~IsAlive(thread) \/ JoinMayExpire
    /\ service' = "closing"
    /\ UNCHANGED <<faulted, listener, pc, event, capture, stores, answers, sent, done>>

\* CaptureManager.stop; close may raise and leaves the session as it was,
\* with a handle that is closed.
CloseCapture ==
    \/ /\ session' = None
       /\ handle' = "none"
       /\ UNCHANGED <<sessions, files>>
    \/ /\ CaptureMayFail
       /\ handle = "open"
       /\ handle' = "closed"
       /\ UNCHANGED <<session, sessions, files>>

Stopped ==
    /\ service = "closing"
    /\ service' = "down"
    /\ CloseCapture
    /\ UNCHANGED <<faulted, listener, pc, event, stores, answers, sent, done>>

---------------------------------------------------------------------------
(* start_capture and stop_capture, called by other threads.                 *)

StartCapture ==
    /\ service = "up"
    /\ session = None
    /\ sessions < MaxSessions
    /\ sessions' = sessions + 1
    /\ session' = sessions'
    /\ handle' = "open"
    /\ UNCHANGED <<service, faulted, listener, pc, event, files, stores, answers, sent, done>>

StopCapture ==
    /\ service = "up"
    /\ session # None
    /\ CloseCapture
    /\ UNCHANGED <<service, faulted, listener, pc, event, stores, answers, sent, done>>

---------------------------------------------------------------------------
(* SocketCanListener._run.                                                  *)

Goto(t, label) == pc' = [pc EXCEPT ![t] = label]

OpenBus(t) ==
    /\ pc[t] = "opening"
    /\ \/ running' = TRUE /\ Goto(t, "loop")
       \/ BusMayFail /\ UNCHANGED running /\ Goto(t, "dead")
    /\ UNCHANGED <<service, faulted, thread, stopEvent, event, capture, stores, answers, sent, done>>

\* while not self._stop_event.is_set()
Leave(t) ==
    /\ pc[t] = "loop"
    /\ stopEvent
    /\ Goto(t, "leaving")
    /\ UNCHANGED <<service, faulted, listener, event, capture, stores, answers, sent, done>>

\* recv raises in place of giving a frame.
RecvFails(t) ==
    /\ pc[t] = "loop"
    /\ ~stopEvent
    /\ BusMayFail
    /\ Goto(t, "leaving")
    /\ UNCHANGED <<service, faulted, listener, event, capture, stores, answers, sent, done>>

Recv(t) ==
    /\ pc[t] = "loop"
    /\ ~stopEvent
    /\ sent < MaxFrames
    /\ sent' = sent + 1
    /\ \E kind \in FrameKinds[sent'] : event' = [event EXCEPT ![t] = [id |-> sent', kind |-> kind]]
    /\ Goto(t, "capture")
    /\ UNCHANGED <<service, faulted, listener, capture, stores, answers, done>>

\* The handler is done with the frame; the loop drops it.
DoneWith(t, kept) == [id |-> event[t].id, kind |-> event[t].kind, kept |-> kept]

Finish(t, label, kept) ==
    /\ done' = done \cup {DoneWith(t, kept)}
    /\ event' = [event EXCEPT ![t] = NoFrame]
    /\ answer' = [answer EXCEPT ![t] = None]
    /\ Goto(t, label)

\* Mutant of WriteFrame: a write that fails is swallowed.
WriteFrameSwallows(t) ==
    /\ pc[t] = "capture"
    /\ \/ /\ handle = "open"
          /\ files' = [files EXCEPT ![session] = Append(@, event[t].id)]
       \/ /\ handle # "open" \/ CaptureMayFail
          /\ UNCHANGED files
    /\ Goto(t, "decode")
    /\ UNCHANGED <<service, faulted, listener, event, session, handle, sessions, stores, answers, sent, done>>

\* write_frame is outside the try of the loop: when it raises, on a closed
\* handle or a full disk, the thread ends.
WriteFrame(t) ==
    /\ pc[t] = "capture"
    /\ \/ /\ handle = "open"
          /\ files' = [files EXCEPT ![session] = Append(@, event[t].id)]
          /\ Goto(t, "decode")
          /\ UNCHANGED <<inHand, done>>
       \/ /\ handle = "none"
          /\ Goto(t, "decode")
          /\ UNCHANGED <<inHand, files, done>>
       \/ /\ handle = "closed" \/ (handle = "open" /\ CaptureMayFail)
          /\ Finish(t, "leaving", FALSE)
          /\ UNCHANGED files
    /\ UNCHANGED <<service, faulted, listener, session, handle, sessions, stores, owed, sent>>

\* The frames whose answer may come once t's own is with the decoder.
OwedWith(t) == owed \cup (IF event[t].kind = "rpm" THEN {event[t].id} ELSE {})

\* Mutant of DecodeRaises: the frame is dropped without an event.
DecodeRaisesSilently(t) ==
    /\ pc[t] = "decode"
    /\ DecoderMayFail
    /\ faulted' = TRUE
    /\ owed' \in {owed, OwedWith(t)}
    /\ Finish(t, "loop", TRUE)
    /\ UNCHANGED <<service, listener, capture, stores, sent>>

\* Mutant of DecodeRaises: the frame is dropped before it is logged.
DecodeRaisesForgets(t) ==
    /\ pc[t] = "decode"
    /\ DecoderMayFail
    /\ faulted' = TRUE
    /\ owed' \in {owed, OwedWith(t)}
    /\ errors' = errors \cup {NoFrame.id}
    /\ Finish(t, "loop", TRUE)
    /\ UNCHANGED <<service, listener, capture, catalog, rpm, sent>>

\* on_can_event: decode raises, before or after the frame was written, and
\* the event is logged, or that raises too.
DecodeRaises(t) ==
    /\ pc[t] = "decode"
    /\ DecoderMayFail
    /\ faulted' = TRUE
    /\ owed' \in {owed, OwedWith(t)}
    /\ \/ errors' = errors \cup {event[t].id} /\ Finish(t, "loop", TRUE)
       \/ StoreMayFail /\ UNCHANGED errors /\ Finish(t, "loop", FALSE)
    /\ UNCHANGED <<service, listener, capture, catalog, rpm, sent>>

\* decode returns without fields that telemetry reads, or with those of a
\* frame that is owed: this one, or an earlier one after a timeout.
Decode(t) ==
    /\ pc[t] = "decode"
    /\ \E a \in OwedWith(t) \cup {None} :
          /\ answer' = [answer EXCEPT ![t] = a]
          /\ owed' = OwedWith(t) \ {a}
    /\ Goto(t, "record")
    /\ UNCHANGED <<service, faulted, listener, event, capture, stores, sent, done>>

\* Mutant of Record: a failing upsert is swallowed and the frame published.
RecordSwallows(t) ==
    /\ pc[t] = "record"
    /\ \/ event[t].kind \in Pgns /\ StoreMayFail /\ UNCHANGED catalog
       \/ catalog' = IF event[t].kind = "foreign" THEN catalog
                     ELSE [catalog EXCEPT ![event[t].kind] =
                              [count |-> @.count + 1, sample |-> event[t].id]]
    /\ Goto(t, "publish")
    /\ UNCHANGED <<service, faulted, listener, event, capture, errors, rpm, answers, sent, done>>

\* record_event: the upsert counts the frame under its PGN.
Record(t) ==
    /\ pc[t] = "record"
    /\ \/ /\ catalog' = IF event[t].kind = "foreign" THEN catalog
                        ELSE [catalog EXCEPT ![event[t].kind] =
                                 [count |-> @.count + 1, sample |-> event[t].id]]
          /\ Goto(t, "publish")
          /\ UNCHANGED <<inHand, done>>
       \/ /\ StoreMayFail
          /\ Finish(t, "loop", FALSE)
          /\ UNCHANGED catalog
    /\ UNCHANGED <<service, faulted, listener, capture, errors, rpm, owed, sent>>

\* can.message_decoded reaches the telemetry store before publish returns:
\* what is recorded is the answer, under its own PGN.
Publish(t) ==
    /\ pc[t] = "publish"
    /\ rpm' = IF answer[t] # None THEN answer[t] ELSE rpm
    /\ Finish(t, "loop", TRUE)
    /\ UNCHANGED <<service, faulted, listener, capture, catalog, errors, owed, sent>>

\* Mutant of Shutdown: the flag is left as it was.
ShutdownKeepsFlag(t) ==
    /\ pc[t] = "leaving"
    /\ Goto(t, "dead")
    /\ UNCHANGED <<service, faulted, listener, event, capture, stores, answers, sent, done>>

Shutdown(t) ==
    /\ pc[t] = "leaving"
    /\ running' = FALSE
    /\ Goto(t, "dead")
    /\ UNCHANGED <<service, faulted, thread, stopEvent, event, capture, stores, answers, sent, done>>

---------------------------------------------------------------------------
\* The process is killed; the tables and the captured lines, each flushed,
\* stay.  A frame that was recorded and not yet published is done with.
Crash ==
    /\ service' = "down"
    /\ faulted' = FALSE
    /\ thread' = None
    /\ stopEvent' = FALSE
    /\ running' = FALSE
    /\ done' = done \cup { DoneWith(t, TRUE) : t \in { x \in Threads : pc[x] = "publish" } }
    /\ pc' = [t \in Threads |-> "unborn"]
    /\ event' = [t \in Threads |-> NoFrame]
    /\ owed' = {}
    /\ answer' = [t \in Threads |-> None]
    /\ session' = None
    /\ handle' = "none"
    /\ rpm' = 0
    /\ UNCHANGED <<sessions, files, catalog, errors, sent>>

---------------------------------------------------------------------------
Handle(t) == WriteFrame(t) \/ DecodeRaises(t) \/ Decode(t) \/ Record(t) \/ Publish(t)
Run(t) == OpenBus(t) \/ Leave(t) \/ Recv(t) \/ Handle(t) \/ Shutdown(t)

Lifecycle == Start \/ StartRefused \/ LogStarted \/ Stop \/ Joined \/ Stopped

Next == Lifecycle \/ StartCapture \/ StopCapture \/ Crash
        \/ \E t \in Threads : Run(t) \/ RecvFails(t)

Spec == Init /\ [][Next]_vars

\* A listener thread keeps being scheduled, its waits for the bus end, and so
\* do its statements and its writes to the capture file.  Nothing says that
\* decode ends, and the bus owes nothing, not even an error.
Proceed(t) == OpenBus(t) \/ Leave(t) \/ WriteFrame(t) \/ Record(t) \/ Publish(t) \/ Shutdown(t)

FairSpec == Spec /\ \A t \in Threads : WF_vars(Proceed(t))

---------------------------------------------------------------------------
Live == { t \in Threads : IsAlive(t) }

(* socketcan.py:38-45: at most one listener thread runs, through any        *)
(* sequence of starts and of stops whose join expired.                      *)
OneListener == Cardinality(Live) <= 1

(* socketcan.py:67-103: what health reads says that a thread is in its loop *)
(* (or on its way out of it), so a listener that has died is seen dead.     *)
RunningMeansAlive == running <=> \E t \in Threads : pc[t] \in {"leaving"} \cup InLoop

(* capture.py:62-79: the file of a session holds a gapless run of what the  *)
(* bus delivered, in order: no frame is lost between two captured ones.     *)
CaptureIsGapless ==
    \A s \in 1..MaxSessions :
        \A i \in 1..(Len(files[s]) - 1) : files[s][i + 1] = files[s][i] + 1

(* platform.py:105-118: every frame with a PGN that the listener is done    *)
(* with is either in the catalog, once, or has a decoder_error, unless a    *)
(* failing write or statement took it away: none disappears unexplained.    *)
FramesAccounted ==
    LET counted == catalog["rpm"].count + catalog["other"].count
        waiting == { t \in Threads : pc[t] = "publish" /\ event[t].kind \in Pgns }
        kept == { f \in done : f.kind \in Pgns /\ f.kept }
        failed == { f \in kept : f.id \in errors }
    IN  counted - Cardinality(waiting) + Cardinality(failed) = Cardinality(kept)

(* platform.py:106-118: telemetry shows a frame that is newer than all the  *)
(* catalog has only when that frame's own decode raised or a statement took *)
(* it away, and its answer came out of a later decode.                      *)
TelemetryExplained ==
    rpm > catalog["rpm"].sample => rpm \in errors \/ \E f \in done : f.id = rpm /\ ~f.kept

(* socketcan.py:47-70: a listener that stop has told to end does end, also  *)
(* one that outlasts the join, whatever its handlers raise and though the   *)
(* bus is silent, unless the service is started again first or decode never *)
(* returns.                                                                 *)
StopEndsListener ==
    \/ \E t \in Threads : <>[](pc[t] = "decode")
    \/ service = "joining" ~> (Live = {} \/ service \in {"logging", "up"})
=============================================================================
