----------------------------- MODULE Correlation -----------------------------
(***************************************************************************)
(* fusion_correlation_report (services/platform.py) of one capture session *)
(* while the listener still writes the session's file, operators annotate  *)
(* it and the process may die in the middle of a line.  A report reads the *)
(* annotations, then the file; for each annotation it looks for a command, *)
(* its acknowledgement and a state update, in this order, among the frames *)
(* stamped within a window of the action.                                  *)
(***************************************************************************)
EXTENDS Integers, Sequences, FiniteSets

CONSTANTS Readers,        \* threads that serve reports
          Pgns,           \* the PGNs on the bus
          Labels,         \* what annotations are about
          Times,          \* timestamps of frames and actions
          Windows,        \* the window_sec that clients ask for
          MaxLines,       \* bound on the lines of the file
          MaxAnnotations, \* bound on annotations
          MaxReports      \* bound on reports

\* What a status update of the action is carried by.
TargetPgns ==
    [source |-> {130567, 130573, 130569}, volume |-> {130582, 130567}, other |-> {130582}]

ASSUME CorrelationAssumption ==
    /\ Pgns \subseteq Int
    /\ Labels \subseteq DOMAIN TargetPgns
    /\ Times \subseteq Int
    /\ Windows \subseteq Int
    /\ MaxLines \in Nat /\ MaxAnnotations \in Nat /\ MaxReports \in Nat

VARIABLES capture,     \* the session: not begun, open or over
          file,        \* the lines of its file; one that is not whole is torn
          annotations, \* the session's rows of capture_annotations
          job,         \* per reader, the report it works on
          reports      \* the reports given

vars == <<capture, file, annotations, job, reports>>

COMMAND == 126208
ACKNOWLEDGEMENT == 59392

Line == [timestamp : Times, pgn : Pgns, whole : BOOLEAN]
Annotation == [action_at : Times, action_label : Labels]

\* asked: how many annotations were read; after: auxiliary, how many reports
\* had been given by then.
Job == [window : 1..30, asked : 0..MaxAnnotations, after : 0..MaxReports]
NoJob == [window |-> 0, asked |-> 0, after |-> 0]

\* lines: auxiliary, the lines that could be read.
Report == [window : 1..30, asked : 0..MaxAnnotations, after : 0..MaxReports,
           lines : SUBSET (1..MaxLines), matched : SUBSET (1..MaxAnnotations),
           confidence : {"none", "low", "medium", "high"}]

TypeOK ==
    /\ capture \in {"none", "open", "over"}
    /\ file \in Seq(Line) /\ Len(file) <= MaxLines
    /\ annotations \in Seq(Annotation) /\ Len(annotations) <= MaxAnnotations
    /\ job \in [Readers -> Job \cup {NoJob}]
    /\ reports \in Seq(Report) /\ Len(reports) <= MaxReports

Init ==
    /\ capture = "none"
    /\ file = <<>>
    /\ annotations = <<>>
    /\ job = [r \in Readers |-> NoJob]
    /\ reports = <<>>

---------------------------------------------------------------------------
(* The session: write_frame writes a line and flushes it; a reader, or the  *)
(* next process, may find the part of it that is in the file.               *)

StartCapture ==
    /\ capture = "none"
    /\ capture' = "open"
    /\ UNCHANGED <<file, annotations, job, reports>>

Torn == Len(file) > 0 /\ ~file[Len(file)].whole

WriteBegins(timestamp, pgn) ==
    /\ capture = "open"
    /\ ~Torn
    /\ Len(file) < MaxLines
    /\ file' = Append(file, [timestamp |-> timestamp, pgn |-> pgn, whole |-> FALSE])
    /\ UNCHANGED <<capture, annotations, job, reports>>

WriteEnds ==
    /\ capture = "open"
    /\ Torn
    /\ file' = [file EXCEPT ![Len(file)].whole = TRUE]
    /\ UNCHANGED <<capture, annotations, job, reports>>

\* stop waits for the lock that write_frame holds.
StopCapture ==
    /\ capture = "open"
    /\ ~Torn
    /\ capture' = "over"
    /\ UNCHANGED <<file, annotations, job, reports>>

\* The next process gives its captures files of their own.
Crash ==
    /\ capture' = IF capture = "open" THEN "over" ELSE capture
    /\ job' = [r \in Readers |-> NoJob]
    /\ UNCHANGED <<file, annotations, reports>>

Annotate(action_at, label) ==
    /\ Len(annotations) < MaxAnnotations
    /\ annotations' = Append(annotations, [action_at |-> action_at, action_label |-> label])
    /\ UNCHANGED <<capture, file, job, reports>>

---------------------------------------------------------------------------
(* The report.                                                              *)

\* Mutant of Clamped: only the upper limit is kept.
ClampedAbove(window) == IF window > 30 THEN 30 ELSE window

Clamped(window) == IF window < 1 THEN 1 ELSE IF window > 30 THEN 30 ELSE window

\* The annotations are listed first.
BeginReport(r, window) ==
    /\ job[r] = NoJob
    /\ job' = [job EXCEPT ![r] = [window |-> Clamped(window), asked |-> Len(annotations),
                                  after |-> Len(reports)]]
    /\ UNCHANGED <<capture, file, annotations, reports>>

\* Mutant of Readable: only the last lines of the file are looked at.
ReadableTail == { n \in 1..Len(file) : file[n].whole /\ n + 3 > Len(file) }

\* A line that is not JSON is skipped.
Readable == { n \in 1..Len(file) : file[n].whole }

Observed(lines, a, window) ==
    { n \in lines : /\ annotations[a].action_at <= file[n].timestamp
                    /\ file[n].timestamp <= annotations[a].action_at + window }

First(S) == CHOOSE n \in S : \A m \in S : n <= m

\* Mutant of ContainsOrderedChain: the acknowledgement is looked for from the
\* start of the sequence.
ContainsChainFromStart(lines, targets) ==
    LET commands == { n \in lines : file[n].pgn = COMMAND }
        acknowledgements == { n \in lines : file[n].pgn = ACKNOWLEDGEMENT }
        updates == { n \in lines : file[n].pgn \in targets /\ n > First(acknowledgements) }
    IN  commands # {} /\ acknowledgements # {} /\ updates # {}

\* The first command, the first acknowledgement after it, then any update.
ContainsOrderedChain(lines, targets) ==
    LET commands == { n \in lines : file[n].pgn = COMMAND }
        acknowledgements == { n \in lines : file[n].pgn = ACKNOWLEDGEMENT /\ n > First(commands) }
        updates == { n \in lines : file[n].pgn \in targets /\ n > First(acknowledgements) }
    IN  commands # {} /\ acknowledgements # {} /\ updates # {}

Matched(lines, asked, window) ==
    { a \in 1..asked : ContainsOrderedChain(Observed(lines, a, window),
                                            TargetPgns[annotations[a].action_label]) }

Confidence(matches) ==
    IF matches = 0 THEN "none"
    ELSE IF matches = 1 THEN "low"
    ELSE IF matches = 2 THEN "medium"
    ELSE "high"

\* Without a file nothing matches, as with an empty one.
GiveReport(r) ==
    LET matched == Matched(Readable, job[r].asked, job[r].window)
    IN  /\ job[r] # NoJob
        /\ Len(reports) < MaxReports
        /\ reports' = Append(reports,
               [window |-> job[r].window, asked |-> job[r].asked, after |-> job[r].after,
                lines |-> Readable, matched |-> matched,
                confidence |-> Confidence(Cardinality(matched))])
        /\ job' = [job EXCEPT ![r] = NoJob]
        /\ UNCHANGED <<capture, file, annotations>>

Next ==
    \/ StartCapture \/ WriteEnds \/ StopCapture \/ Crash
    \/ \E timestamp \in Times, pgn \in Pgns : WriteBegins(timestamp, pgn)
    \/ \E action_at \in Times, label \in Labels : Annotate(action_at, label)
    \/ \E r \in Readers : GiveReport(r) \/ \E window \in Windows : BeginReport(r, window)

Spec == Init /\ [][Next]_vars

---------------------------------------------------------------------------
\* Three frames of the lines are a chain of the a-th annotation.
IsChain(lines, a, window) ==
    \E i, j, k \in Observed(lines, a, window) :
        /\ i < j /\ j < k
        /\ file[i].pgn = COMMAND
        /\ file[j].pgn = ACKNOWLEDGEMENT
        /\ file[k].pgn \in TargetPgns[annotations[a].action_label]

(* platform.py:402-415: the search takes the first command and the first    *)
(* acknowledgement and never goes back, and yet a report matches an         *)
(* annotation exactly when the lines it could read hold a chain for it.     *)
ReportsAreExact ==
    \A n \in 1..Len(reports) : \A a \in 1..reports[n].asked :
        a \in reports[n].matched <=> IsChain(reports[n].lines, a, reports[n].window)

(* platform.py:312-379: a report never takes back what one given before it  *)
(* was asked for has matched, though lines were torn when they were read,   *)
(* written on, or left torn by a crash.                                     *)
ReportsOnlyGrow ==
    \A n \in 1..Len(reports) : \A m \in 1..reports[n].after :
        reports[m].window <= reports[n].window => reports[m].matched \subseteq reports[n].matched

(* fusion-ms-ra600-nmea-guide.md:157: "high" takes three clean trials, so   *)
(* three commands.                                                          *)
HighMeansThreeTrials ==
    \A n \in 1..Len(reports) : reports[n].confidence = "high" =>
        Cardinality({ i \in reports[n].lines : file[i].pgn = COMMAND }) >= 3
=============================================================================
