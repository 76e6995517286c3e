-------------------------- MODULE CorrelationProofs --------------------------
(***************************************************************************)
(* Proofs about Correlation for every file, every set of annotations and   *)
(* any number of readers: the greedy search is exact, and reports never    *)
(* take back a match.                                                      *)
(***************************************************************************)
EXTENDS Correlation, TLAPS, SequenceTheorems, WellFoundedInduction

(* What list.index finds: a set of positions has a first one.               *)
LEMMA FirstExists ==
    ASSUME NEW S, S \subseteq Nat, S # {}
    PROVE  First(S) \in S /\ \A m \in S : First(S) <= m
<1> DEFINE less == OpToRel(<, Nat)
<1>1. \E x \in S : \A y \in S : ~ (<<y, x>> \in less)
  <2>1. IsWellFoundedOn(less, Nat)
    BY NatLessThanWellFounded
  <2> HIDE DEF less
  <2> QED
    BY <2>1, WFMin
<1>2. PICK x \in S : \A y \in S : ~ (<<y, x>> \in less)
  BY <1>1
<1>3. \A y \in S : x <= y
  <2> SUFFICES ASSUME NEW y \in S PROVE x <= y
    OBVIOUS
  <2>1. x \in Nat /\ y \in Nat
    OBVIOUS
  <2>2. y < x => <<y, x>> \in less
    BY <2>1 DEF OpToRel
  <2>3. ~ (<<y, x>> \in less)
    BY <1>2
  <2> HIDE DEF less
  <2> QED
    BY <2>1, <2>2, <2>3
<1>4. \E n \in S : \A m \in S : n <= m
  BY <1>3
<1> QED
  BY <1>4 DEF First

(* The search that never goes back finds a chain whenever there is one      *)
(* (platform.py:402-415).                                                   *)
LEMMA GreedyIsExact ==
    ASSUME NEW S, S \subseteq Nat, NEW T
    PROVE  ContainsOrderedChain(S, T) <=>
               \E i, j, k \in S : /\ i < j /\ j < k
                                  /\ file[i].pgn = COMMAND
                                  /\ file[j].pgn = ACKNOWLEDGEMENT
                                  /\ file[k].pgn \in T
<1> DEFINE cs == { n \in S : file[n].pgn = COMMAND }
           as == { n \in S : file[n].pgn = ACKNOWLEDGEMENT /\ n > First(cs) }
           us == { n \in S : file[n].pgn \in T /\ n > First(as) }
<1>1. ContainsOrderedChain(S, T) <=> cs # {} /\ as # {} /\ us # {}
  BY DEF ContainsOrderedChain
<1>2. cs # {} => First(cs) \in cs /\ \A m \in cs : First(cs) <= m
  BY FirstExists
<1>3. as # {} => First(as) \in as /\ \A m \in as : First(as) <= m
  BY FirstExists
<1>4. ASSUME cs # {}, as # {}, us # {}
      PROVE  \E i, j, k \in S : /\ i < j /\ j < k
                                /\ file[i].pgn = COMMAND
                                /\ file[j].pgn = ACKNOWLEDGEMENT
                                /\ file[k].pgn \in T
  <2>1. PICK k \in us : TRUE
    BY <1>4
  <2>2. First(cs) \in S /\ file[First(cs)].pgn = COMMAND
    BY <1>2, <1>4
  <2>3. First(as) \in S /\ file[First(as)].pgn = ACKNOWLEDGEMENT /\ First(as) > First(cs)
    BY <1>3, <1>4
  <2>4. k \in S /\ file[k].pgn \in T /\ k > First(as)
    BY <2>1
  <2>5. First(cs) < First(as) /\ First(as) < k
    BY <2>2, <2>3, <2>4
  <2> QED
    BY <2>2, <2>3, <2>4, <2>5
<1>5. ASSUME NEW i \in S, NEW j \in S, NEW k \in S, i < j, j < k,
             file[i].pgn = COMMAND, file[j].pgn = ACKNOWLEDGEMENT, file[k].pgn \in T
      PROVE  cs # {} /\ as # {} /\ us # {}
  <2>1. i \in cs
    BY <1>5
  <2>2. First(cs) \in Nat /\ First(cs) <= i
    BY <1>2, <2>1
  <2>3. j \in as
    BY <1>5, <2>2
  <2>4. First(as) \in Nat /\ First(as) <= j
    BY <1>3, <2>3
  <2>5. k \in us
    BY <1>5, <2>4
  <2> QED
    BY <2>1, <2>3, <2>5
<1> HIDE DEF cs, as, us
<1> QED
  BY <1>1, <1>4, <1>5
---------------------------------------------------------------------------
\* IsChain of a given file and given annotations.
ChainIn(f, an, lines, a, window) ==
    \E i, j, k \in lines :
        /\ an[a].action_at <= f[i].timestamp /\ f[i].timestamp <= an[a].action_at + window
        /\ an[a].action_at <= f[j].timestamp /\ f[j].timestamp <= an[a].action_at + window
        /\ an[a].action_at <= f[k].timestamp /\ f[k].timestamp <= an[a].action_at + window
        /\ i < j /\ j < k
        /\ f[i].pgn = COMMAND
        /\ f[j].pgn = ACKNOWLEDGEMENT
        /\ f[k].pgn \in TargetPgns[an[a].action_label]

\* What no step takes away.
LinesKept ==
    /\ Len(file) <= Len(file')
    /\ \A n \in 1..Len(file) : /\ file'[n].timestamp = file[n].timestamp
                               /\ file'[n].pgn = file[n].pgn
                               /\ file[n].whole => file'[n].whole

AnnotationsKept ==
    /\ Len(annotations) <= Len(annotations')
    /\ \A a \in 1..Len(annotations) : annotations'[a] = annotations[a]

ReportsKept ==
    /\ Len(reports) <= Len(reports')
    /\ \A n \in 1..Len(reports) : reports'[n] = reports[n]

\* A report has read what is there.
ReportsRead ==
    \A n \in 1..Len(reports) :
        /\ reports[n].asked <= Len(annotations)
        /\ reports[n].lines \subseteq Readable
        /\ reports[n].matched \subseteq 1..reports[n].asked
        /\ reports[n].after < n

\* A report has read all that a report given before it was asked for has.
ReportsInherit ==
    \A n \in 1..Len(reports) : \A m \in 1..reports[n].after :
        /\ reports[m].asked <= reports[n].asked
        /\ reports[m].lines \subseteq reports[n].lines

JobsRead ==
    \A r \in Readers :
        /\ job[r].asked <= Len(annotations)
        /\ job[r].after <= Len(reports)
        /\ \A m \in 1..job[r].after : reports[m].asked <= job[r].asked

IInv == TypeOK /\ ReportsRead /\ ReportsInherit /\ JobsRead /\ ReportsAreExact

(* What a report's job holds, and what it makes of it.                      *)
LEMMA ClampedInRange ==
    ASSUME NEW w \in Int
    PROVE  Clamped(w) \in 1..30
BY DEF Clamped

(* Every state of the specification has its type.                           *)
LEMMA TypeInit ==
    ASSUME CorrelationAssumption, Init
    PROVE  TypeOK
BY CorrelationAssumption DEF Init, TypeOK, NoJob, CorrelationAssumption

(* Every step keeps the types.                                              *)
LEMMA TypeNext ==
    ASSUME TypeOK, [Next]_vars
    PROVE  TypeOK'
<1> USE CorrelationAssumption DEF CorrelationAssumption
<1>1. CASE StartCapture
  BY <1>1 DEF TypeOK, StartCapture
<1>2. CASE WriteEnds
  <2>1. file \in Seq(Line) /\ Len(file) \in 1..Len(file)
    BY <1>2 DEF TypeOK, WriteEnds, Torn
  <2>2. [file[Len(file)] EXCEPT !.whole = TRUE] \in Line
    <3>1. file[Len(file)] \in Line
      BY <2>1, ElementOfSeq
    <3> QED
      BY <3>1 DEF Line
  <2>3. file' = [file EXCEPT ![Len(file)] = [file[Len(file)] EXCEPT !.whole = TRUE]]
    BY <1>2 DEF WriteEnds
  <2>4. file' \in Seq(Line) /\ Len(file') = Len(file)
    BY <2>1, <2>2, <2>3, ExceptSeq
  <2> QED
    BY <1>2, <2>4 DEF TypeOK, WriteEnds
<1>3. CASE StopCapture
  BY <1>3 DEF TypeOK, StopCapture
<1>4. CASE Crash
  BY <1>4 DEF TypeOK, Crash
<1>5. ASSUME NEW timestamp \in Times, NEW pgn \in Pgns, WriteBegins(timestamp, pgn)
      PROVE  TypeOK'
  BY <1>5 DEF TypeOK, WriteBegins, Line
<1>6. ASSUME NEW action_at \in Times, NEW label \in Labels, Annotate(action_at, label)
      PROVE  TypeOK'
  BY <1>6 DEF TypeOK, Annotate, Annotation
<1>7. ASSUME NEW r \in Readers, GiveReport(r)
      PROVE  TypeOK'
  <2> DEFINE matched == Matched(Readable, job[r].asked, job[r].window)
             report == [window |-> job[r].window, asked |-> job[r].asked,
                        after |-> job[r].after, lines |-> Readable, matched |-> matched,
                        confidence |-> Confidence(Cardinality(matched))]
  <2>1. job[r] \in Job
    BY <1>7 DEF TypeOK, GiveReport
  <2>2. Readable \subseteq 1..MaxLines
    BY DEF TypeOK, Readable
  <2>3. matched \subseteq 1..MaxAnnotations
    BY <2>1 DEF Matched, Job
  <2>4. Confidence(Cardinality(matched)) \in {"none", "low", "medium", "high"}
    BY DEF Confidence
  <2>5. report \in Report
    <3> HIDE DEF matched
    <3> QED
      BY <2>1, <2>2, <2>3, <2>4 DEF Report, Job
  <2>6. reports' = Append(reports, report)
    BY <1>7 DEF GiveReport
  <2> HIDE DEF report
  <2>7. reports' \in Seq(Report) /\ Len(reports') <= MaxReports
    BY <1>7, <2>5, <2>6 DEF TypeOK, GiveReport
  <2> QED
    BY <1>7, <2>7 DEF TypeOK, GiveReport
<1>8. ASSUME NEW r \in Readers, NEW window \in Windows, BeginReport(r, window)
      PROVE  TypeOK'
  <2>1. Clamped(window) \in 1..30
    BY ClampedInRange
  <2>2. [window |-> Clamped(window), asked |-> Len(annotations), after |-> Len(reports)] \in Job
    BY <2>1 DEF TypeOK, Job
  <2> QED
    BY <1>8, <2>2 DEF TypeOK, BeginReport
<1>9. CASE UNCHANGED vars
  BY <1>9 DEF TypeOK, vars
<1> QED
  BY <1>1, <1>2, <1>3, <1>4, <1>5, <1>6, <1>7, <1>8, <1>9 DEF Next

(* The types of the reports, the jobs and the lines hold in every reachable *)
(* state, whatever the bounds.                                              *)
THEOREM TypeCorrect == Spec => []TypeOK
<1>1. Init => TypeOK
  BY TypeInit, CorrelationAssumption
<1>2. TypeOK /\ [Next]_vars => TypeOK'
  BY TypeNext
<1> QED
  BY <1>1, <1>2, PTL DEF Spec

---------------------------------------------------------------------------
(* No step changes a line but to complete it (capture.py:62-79), drops an   *)
(* annotation or takes back a report.                                       *)
LEMMA StepKeeps ==
    ASSUME TypeOK, [Next]_vars
    PROVE  LinesKept /\ AnnotationsKept /\ ReportsKept
<1>1. Len(file) \in Nat /\ Len(annotations) \in Nat /\ Len(reports) \in Nat
  BY DEF TypeOK
<1>2. LinesKept
  <2>1. CASE UNCHANGED file
    BY <1>1, <2>1 DEF LinesKept
  <2>2. ASSUME NEW timestamp \in Times, NEW pgn \in Pgns, WriteBegins(timestamp, pgn)
        PROVE  LinesKept
    BY <2>2 DEF TypeOK, WriteBegins, LinesKept
  <2>3. CASE WriteEnds
    <3>1. file \in Seq(Line) /\ Len(file) \in 1..Len(file)
      BY <2>3 DEF TypeOK, WriteEnds, Torn
    <3>2. \A n \in 1..Len(file) : file[n] \in Line
      BY <3>1, ElementOfSeq
    <3>3. [file[Len(file)] EXCEPT !.whole = TRUE] \in Line
      BY <3>1, <3>2 DEF Line
    <3>4. file' = [file EXCEPT ![Len(file)] = [file[Len(file)] EXCEPT !.whole = TRUE]]
      BY <2>3 DEF WriteEnds
    <3>5. /\ Len(file') = Len(file)
          /\ \A n \in 1..Len(file) :
                file'[n] = IF n = Len(file) THEN [file[Len(file)] EXCEPT !.whole = TRUE]
                                            ELSE file[n]
      <4> DEFINE line == [file[Len(file)] EXCEPT !.whole = TRUE]
      <4>1. line \in Line /\ file' = [file EXCEPT ![Len(file)] = line]
        BY <3>3, <3>4
      <4> HIDE DEF line
      <4>2. /\ Len(file') = Len(file)
            /\ \A n \in 1..Len(file) : file'[n] = IF n = Len(file) THEN line ELSE file[n]
        BY <3>1, <4>1, ExceptSeq
      <4> QED
        BY <4>2 DEF line
    <3>6. \A n \in 1..Len(file) : /\ file'[n].timestamp = file[n].timestamp
                                  /\ file'[n].pgn = file[n].pgn
                                  /\ file[n].whole => file'[n].whole
      <4> SUFFICES ASSUME NEW n \in 1..Len(file)
                   PROVE  /\ file'[n].timestamp = file[n].timestamp
                          /\ file'[n].pgn = file[n].pgn
                          /\ file[n].whole => file'[n].whole
        OBVIOUS
      <4>1. CASE n = Len(file)
        BY <3>2, <3>5, <4>1 DEF Line
      <4>2. CASE n # Len(file)
        BY <3>5, <4>2
      <4> QED
        BY <4>1, <4>2
    <3> QED
      BY <1>1, <3>5, <3>6 DEF LinesKept
  <2> QED
    BY <2>1, <2>2, <2>3
       DEF Next, vars, StartCapture, StopCapture, Crash, Annotate, GiveReport, BeginReport
<1>3. AnnotationsKept
  <2>1. CASE UNCHANGED annotations
    BY <1>1, <2>1 DEF AnnotationsKept
  <2>2. ASSUME NEW action_at \in Times, NEW label \in Labels, Annotate(action_at, label)
        PROVE  AnnotationsKept
    BY <2>2 DEF TypeOK, Annotate, AnnotationsKept
  <2> QED
    BY <2>1, <2>2
       DEF Next, vars, StartCapture, StopCapture, Crash, WriteBegins, WriteEnds, GiveReport,
           BeginReport
<1>4. ReportsKept
  <2>1. CASE UNCHANGED reports
    BY <1>1, <2>1 DEF ReportsKept
  <2>2. ASSUME NEW r \in Readers, GiveReport(r)
        PROVE  ReportsKept
    <3>1. PICK report : reports' = Append(reports, report)
      BY <2>2 DEF GiveReport
    <3> QED
      BY <3>1 DEF TypeOK, ReportsKept
  <2> QED
    BY <2>1, <2>2
       DEF Next, vars, StartCapture, StopCapture, Crash, WriteBegins, WriteEnds, Annotate,
           BeginReport
<1> QED
  BY <1>2, <1>3, <1>4

(* Lines that could be read still can be.                                   *)
LEMMA ReadableGrows ==
    ASSUME Len(file) \in Nat, Len(file') \in Nat, LinesKept
    PROVE  Readable \subseteq Readable'
BY DEF LinesKept, Readable

(* A chain stays one, and no chain appears in lines that were read before.  *)
LEMMA ChainKept ==
    ASSUME LinesKept, AnnotationsKept
    PROVE  \A lines \in SUBSET (1..Len(file)), a \in 1..Len(annotations), w \in Int :
              ChainIn(file', annotations', lines, a, w) <=> ChainIn(file, annotations, lines, a, w)
<1> SUFFICES ASSUME NEW lines \in SUBSET (1..Len(file)), NEW a \in 1..Len(annotations),
                    NEW w \in Int
             PROVE  ChainIn(file', annotations', lines, a, w)
                        <=> ChainIn(file, annotations, lines, a, w)
  OBVIOUS
<1>1. annotations'[a] = annotations[a]
  BY DEF AnnotationsKept
<1>2. \A n \in lines : file'[n].timestamp = file[n].timestamp /\ file'[n].pgn = file[n].pgn
  BY DEF LinesKept
<1> QED
  BY <1>1, <1>2 DEF ChainIn

(* What a report matches is what has a chain in the lines it can read       *)
(* (platform.py:331-362).                                                   *)
LEMMA MatchedIsChain ==
    ASSUME TypeOK, NEW lines \in SUBSET (1..Len(file)), NEW asked \in Nat, NEW window
    PROVE  \A a \in 1..asked :
              a \in Matched(lines, asked, window) <=> ChainIn(file, annotations, lines, a, window)
<1> SUFFICES ASSUME NEW a \in 1..asked
             PROVE  a \in Matched(lines, asked, window)
                        <=> ChainIn(file, annotations, lines, a, window)
  OBVIOUS
<1> DEFINE seen == Observed(lines, a, window)
           targets == TargetPgns[annotations[a].action_label]
<1>1. seen \subseteq Nat
  <2>1. seen \subseteq lines
    BY DEF Observed
  <2>2. lines \subseteq Nat
    BY DEF TypeOK
  <2> HIDE DEF seen
  <2> QED
    BY <2>1, <2>2
<1>2. ContainsOrderedChain(seen, targets) <=>
          \E i, j, k \in seen : /\ i < j /\ j < k
                                /\ file[i].pgn = COMMAND
                                /\ file[j].pgn = ACKNOWLEDGEMENT
                                /\ file[k].pgn \in targets
  <2> HIDE DEF seen, targets
  <2> QED
    BY <1>1, GreedyIsExact
<1>3. a \in Matched(lines, asked, window) <=> ContainsOrderedChain(seen, targets)
  BY DEF Matched
<1>4. ChainIn(file, annotations, lines, a, window) <=>
          \E i, j, k \in seen : /\ i < j /\ j < k
                                /\ file[i].pgn = COMMAND
                                /\ file[j].pgn = ACKNOWLEDGEMENT
                                /\ file[k].pgn \in targets
  BY DEF Observed, ChainIn
<1> QED
  BY <1>2, <1>3, <1>4

---------------------------------------------------------------------------
\* ReportsAreExact of a given file and given annotations.
Exact(f, an, given) ==
    \A n \in 1..Len(given) : \A a \in 1..given[n].asked :
        a \in given[n].matched <=> ChainIn(f, an, given[n].lines, a, given[n].window)

(* The property only looks at the file, the annotations and the reports.    *)
LEMMA ExactIsReportsAreExact ==
    ReportsAreExact <=> Exact(file, annotations, reports)
BY DEF ReportsAreExact, Exact, IsChain, Observed, ChainIn

\* The report that r gives.
ReportOf(r) ==
    [window |-> job[r].window, asked |-> job[r].asked, after |-> job[r].after,
     lines |-> Readable, matched |-> Matched(Readable, job[r].asked, job[r].window),
     confidence |-> Confidence(Cardinality(Matched(Readable, job[r].asked, job[r].window)))]

(* What is given last is the report of the reader that gives it.            *)
LEMMA GivenLast ==
    ASSUME TypeOK, NEW r \in Readers, GiveReport(r)
    PROVE  /\ job[r] \in Job
           /\ Len(reports') = Len(reports) + 1
           /\ \A n \in 1..Len(reports) : reports'[n] = reports[n]
           /\ reports'[Len(reports) + 1] = ReportOf(r)
           /\ UNCHANGED <<file, annotations>>
<1>1. job[r] \in Job
  BY DEF TypeOK, GiveReport
<1>2. reports' = Append(reports, ReportOf(r)) /\ UNCHANGED <<file, annotations>>
  BY DEF GiveReport, ReportOf
<1>3. reports \in Seq(Report)
  BY DEF TypeOK
<1> QED
  BY <1>1, <1>2, <1>3

(* The reports of the next state have the types that the proofs use.        *)
LEMMA ReportFields ==
    ASSUME TypeOK
    PROVE  \A n \in 1..Len(reports) : /\ reports[n] \in Report
                                      /\ reports[n].window \in Int
                                      /\ reports[n].asked \in Nat
                                      /\ reports[n].after \in Nat
<1>1. \A n \in 1..Len(reports) : reports[n] \in Report
  BY ElementOfSeq DEF TypeOK
<1>2. ASSUME NEW report \in Report
      PROVE  report.window \in Int /\ report.asked \in Nat /\ report.after \in Nat
  <2>1. /\ report.window \in 1..30
        /\ report.asked \in 0..MaxAnnotations
        /\ report.after \in 0..MaxReports
    BY DEF Report
  <2> QED
    BY <2>1, CorrelationAssumption DEF CorrelationAssumption
<1> QED
  BY <1>1, <1>2

(* The strengthening holds at first.                                        *)
LEMMA InvInit ==
    ASSUME Init
    PROVE  IInv
<1>1. TypeOK
  BY TypeInit, CorrelationAssumption
<1> QED
  BY <1>1 DEF Init, IInv, ReportsRead, ReportsInherit, JobsRead, ReportsAreExact, NoJob

(* Every step keeps what reports have read.                                 *)
LEMMA ReportsReadNext ==
    ASSUME IInv, [Next]_vars
    PROVE  ReportsRead'
<1>1. TypeOK /\ TypeOK' /\ LinesKept /\ AnnotationsKept /\ ReportsKept
  BY TypeNext, StepKeeps DEF IInv
<1>2. /\ Len(file) \in Nat /\ Len(file') \in Nat
      /\ Len(annotations) \in Nat /\ Len(annotations') \in Nat
      /\ Len(reports) \in Nat /\ Len(reports') \in Nat
  BY <1>1 DEF TypeOK
<1>3. Readable \subseteq Readable'
  BY <1>1, <1>2, ReadableGrows
<1>4. Len(annotations) <= Len(annotations')
  BY <1>1 DEF AnnotationsKept
<1>5. \A n \in 1..Len(reports) : reports[n].asked \in Nat
  BY <1>1, ReportFields
<1>6. \A n \in 1..Len(reports) :
        /\ reports'[n].asked <= Len(annotations')
        /\ reports'[n].lines \subseteq Readable'
        /\ reports'[n].matched \subseteq 1..reports'[n].asked
        /\ reports'[n].after < n
  <2> SUFFICES ASSUME NEW n \in 1..Len(reports)
               PROVE  /\ reports'[n].asked <= Len(annotations')
                      /\ reports'[n].lines \subseteq Readable'
                      /\ reports'[n].matched \subseteq 1..reports'[n].asked
                      /\ reports'[n].after < n
    OBVIOUS
  <2>1. reports'[n] = reports[n]
    BY <1>1 DEF ReportsKept
  <2>2. /\ reports[n].asked <= Len(annotations)
        /\ reports[n].lines \subseteq Readable
        /\ reports[n].matched \subseteq 1..reports[n].asked
        /\ reports[n].after < n
    BY DEF IInv, ReportsRead
  <2>3. reports[n].asked <= Len(annotations')
    BY <1>2, <1>4, <1>5, <2>2
  <2> QED
    BY <1>3, <2>1, <2>2, <2>3
<1>7. CASE Len(reports') = Len(reports)
  BY <1>6, <1>7 DEF ReportsRead
<1>8. ASSUME NEW r \in Readers, GiveReport(r)
      PROVE  ReportsRead'
  <2>1. /\ job[r] \in Job
        /\ Len(reports') = Len(reports) + 1
        /\ reports'[Len(reports) + 1] = ReportOf(r)
        /\ UNCHANGED <<file, annotations>>
    BY <1>1, <1>8, GivenLast
  <2>2. job[r].asked <= Len(annotations) /\ job[r].after <= Len(reports)
    BY DEF IInv, JobsRead
  <2>3. /\ ReportOf(r).asked = job[r].asked
        /\ ReportOf(r).after = job[r].after
        /\ ReportOf(r).lines = Readable
        /\ ReportOf(r).matched = Matched(Readable, job[r].asked, job[r].window)
    BY DEF ReportOf
  <2>4. ReportOf(r).matched \subseteq 1..job[r].asked
    BY <2>3 DEF Matched
  <2>5. ReportOf(r).after < Len(reports) + 1
    BY <1>2, <2>1, <2>2, <2>3 DEF Job
  <2>6. ReportOf(r).asked <= Len(annotations')
    BY <2>1, <2>2, <2>3
  <2>7. ReportOf(r).lines \subseteq Readable'
    BY <1>3, <2>3
  <2>8. \A n \in 1..Len(reports') : n \in 1..Len(reports) \/ n = Len(reports) + 1
    BY <1>2, <2>1
  <2> QED
    BY <1>6, <2>1, <2>3, <2>4, <2>5, <2>6, <2>7, <2>8 DEF ReportsRead
<1>9. Len(reports') = Len(reports) \/ \E r \in Readers : GiveReport(r)
  BY DEF Next, vars, StartCapture, StopCapture, Crash, WriteBegins, WriteEnds, Annotate,
         BeginReport
<1> QED
  BY <1>7, <1>8, <1>9

(* Every step keeps that later reports have read what earlier ones had.     *)
LEMMA ReportsInheritNext ==
    ASSUME IInv, [Next]_vars
    PROVE  ReportsInherit'
<1>1. TypeOK /\ TypeOK' /\ LinesKept /\ AnnotationsKept /\ ReportsKept
  BY TypeNext, StepKeeps DEF IInv
<1>2. Len(reports) \in Nat /\ Len(reports') \in Nat
  BY <1>1 DEF TypeOK
<1>3. \A n \in 1..Len(reports) : \A m \in 1..reports'[n].after :
        /\ reports'[m].asked <= reports'[n].asked
        /\ reports'[m].lines \subseteq reports'[n].lines
  <2> SUFFICES ASSUME NEW n \in 1..Len(reports), NEW m \in 1..reports'[n].after
               PROVE  /\ reports'[m].asked <= reports'[n].asked
                      /\ reports'[m].lines \subseteq reports'[n].lines
    OBVIOUS
  <2>1. reports'[n] = reports[n] /\ m \in 1..reports[n].after
    BY <1>1 DEF ReportsKept
  <2>2. reports[n].after \in Nat /\ reports[n].after < n
    BY <1>1, ReportFields DEF IInv, ReportsRead
  <2>3. m \in 1..Len(reports)
    BY <1>2, <2>1, <2>2
  <2>4. reports'[m] = reports[m]
    BY <1>1, <2>3 DEF ReportsKept
  <2> QED
    BY <2>1, <2>4 DEF IInv, ReportsInherit
<1>4. CASE Len(reports') = Len(reports)
  BY <1>3, <1>4 DEF ReportsInherit
<1>5. ASSUME NEW r \in Readers, GiveReport(r)
      PROVE  ReportsInherit'
  <2>1. /\ job[r] \in Job
        /\ Len(reports') = Len(reports) + 1
        /\ \A n \in 1..Len(reports) : reports'[n] = reports[n]
        /\ reports'[Len(reports) + 1] = ReportOf(r)
    BY <1>1, <1>5, GivenLast
  <2>2. /\ ReportOf(r).asked = job[r].asked
        /\ ReportOf(r).after = job[r].after
        /\ ReportOf(r).lines = Readable
    BY DEF ReportOf
  <2>3. \A m \in 1..ReportOf(r).after :
          /\ reports'[m].asked <= ReportOf(r).asked
          /\ reports'[m].lines \subseteq ReportOf(r).lines
    <3> SUFFICES ASSUME NEW m \in 1..job[r].after
                 PROVE  /\ reports'[m].asked <= job[r].asked
                        /\ reports'[m].lines \subseteq Readable
      BY <2>2
    <3>1. job[r].after <= Len(reports) /\ reports[m].asked <= job[r].asked
      BY DEF IInv, JobsRead
    <3>2. job[r].after \in Int
      BY <2>1 DEF Job
    <3>3. m \in 1..Len(reports)
      BY <1>2, <3>1, <3>2
    <3> QED
      BY <2>1, <3>1, <3>3 DEF IInv, ReportsRead
  <2>4. \A n \in 1..Len(reports') : n \in 1..Len(reports) \/ n = Len(reports) + 1
    BY <1>2, <2>1
  <2> QED
    BY <1>3, <2>1, <2>3, <2>4 DEF ReportsInherit
<1>6. Len(reports') = Len(reports) \/ \E r \in Readers : GiveReport(r)
  BY DEF Next, vars, StartCapture, StopCapture, Crash, WriteBegins, WriteEnds, Annotate,
         BeginReport
<1> QED
  BY <1>4, <1>5, <1>6

(* Every step keeps what jobs have read.                                    *)
LEMMA JobsReadNext ==
    ASSUME IInv, [Next]_vars
    PROVE  JobsRead'
<1>1. TypeOK /\ TypeOK' /\ AnnotationsKept /\ ReportsKept
  BY TypeNext, StepKeeps DEF IInv
<1>2. /\ Len(annotations) \in Nat /\ Len(annotations') \in Nat
      /\ Len(reports) \in Nat /\ Len(reports') \in Nat
      /\ Len(annotations) <= Len(annotations') /\ Len(reports) <= Len(reports')
  BY <1>1 DEF TypeOK, AnnotationsKept, ReportsKept
<1> SUFFICES ASSUME NEW r \in Readers
             PROVE  /\ job'[r].asked <= Len(annotations')
                    /\ job'[r].after <= Len(reports')
                    /\ \A m \in 1..job'[r].after : reports'[m].asked <= job'[r].asked
  BY DEF JobsRead
<1>3. CASE job'[r] = job[r]
  <2>1. job[r].asked \in Int /\ job[r].after \in Int
    BY <1>1 DEF TypeOK, Job, NoJob
  <2>2. /\ job[r].asked <= Len(annotations)
        /\ job[r].after <= Len(reports)
        /\ \A m \in 1..job[r].after : reports[m].asked <= job[r].asked
    BY DEF IInv, JobsRead
  <2>3. job[r].asked <= Len(annotations') /\ job[r].after <= Len(reports')
    BY <1>2, <2>1, <2>2
  <2>4. \A m \in 1..job[r].after : reports'[m] = reports[m]
    BY <1>1, <1>2, <2>1, <2>2 DEF ReportsKept
  <2> QED
    BY <1>3, <2>2, <2>3, <2>4
<1>4. CASE job'[r] = NoJob
  BY <1>2, <1>4 DEF NoJob
<1>5. ASSUME NEW window \in Windows, BeginReport(r, window)
      PROVE  /\ job'[r].asked <= Len(annotations')
             /\ job'[r].after <= Len(reports')
             /\ \A m \in 1..job'[r].after : reports'[m].asked <= job'[r].asked
  <2>1. /\ job'[r].asked = Len(annotations) /\ job'[r].after = Len(reports)
        /\ UNCHANGED <<annotations, reports>>
    BY <1>1, <1>5 DEF TypeOK, BeginReport
  <2>2. \A m \in 1..Len(reports) : reports[m].asked <= Len(annotations)
    BY DEF IInv, ReportsRead
  <2> QED
    BY <1>2, <2>1, <2>2
<1>6. \/ job'[r] = job[r] \/ job'[r] = NoJob
      \/ \E window \in Windows : BeginReport(r, window)
  <2>1. ASSUME NEW q \in Readers, NEW window \in Windows, BeginReport(q, window), q # r
        PROVE  job'[r] = job[r]
    BY <1>1, <2>1 DEF TypeOK, BeginReport
  <2>2. ASSUME NEW q \in Readers, GiveReport(q)
        PROVE  job'[r] = job[r] \/ job'[r] = NoJob
    BY <1>1, <2>2 DEF TypeOK, GiveReport
  <2>3. CASE Crash
    BY <2>3 DEF Crash
  <2>4. CASE UNCHANGED job
    BY <2>4
  <2> QED
    BY <2>1, <2>2, <2>3, <2>4
       DEF Next, vars, StartCapture, StopCapture, WriteBegins, WriteEnds, Annotate
<1> QED
  BY <1>3, <1>4, <1>5, <1>6

(* Every step keeps the reports exact, those given before and the one it    *)
(* gives.                                                                   *)
LEMMA ExactNext ==
    ASSUME IInv, [Next]_vars
    PROVE  ReportsAreExact'
<1>1. TypeOK /\ TypeOK' /\ LinesKept /\ AnnotationsKept /\ ReportsKept
  BY TypeNext, StepKeeps DEF IInv
<1>2. Len(reports) \in Nat /\ Len(reports') \in Nat /\ Len(annotations) \in Nat
  BY <1>1 DEF TypeOK
<1>3. Exact(file, annotations, reports)
  BY ExactIsReportsAreExact DEF IInv
<1>4. \A n \in 1..Len(reports) : \A a \in 1..reports'[n].asked :
        a \in reports'[n].matched
            <=> ChainIn(file', annotations', reports'[n].lines, a, reports'[n].window)
  <2> SUFFICES ASSUME NEW n \in 1..Len(reports), NEW a \in 1..reports'[n].asked
               PROVE  a \in reports'[n].matched
                          <=> ChainIn(file', annotations', reports'[n].lines, a,
                                      reports'[n].window)
    OBVIOUS
  <2>1. reports'[n] = reports[n]
    BY <1>1 DEF ReportsKept
  <2>2. reports[n].lines \in SUBSET (1..Len(file))
    BY DEF IInv, ReportsRead, Readable
  <2>3. reports[n].asked \in Nat /\ reports[n].window \in Int
    BY <1>1, ReportFields
  <2>4. reports[n].asked <= Len(annotations)
    BY DEF IInv, ReportsRead
  <2>5. a \in 1..reports[n].asked /\ a \in 1..Len(annotations)
    BY <1>2, <2>1, <2>3, <2>4
  <2>6. a \in reports[n].matched
            <=> ChainIn(file, annotations, reports[n].lines, a, reports[n].window)
    BY <1>3, <2>5 DEF Exact
  <2>7. ChainIn(file', annotations', reports[n].lines, a, reports[n].window)
            <=> ChainIn(file, annotations, reports[n].lines, a, reports[n].window)
    BY <1>1, <2>2, <2>3, <2>5, ChainKept
  <2> QED
    BY <2>1, <2>6, <2>7
<1>5. CASE Len(reports') = Len(reports)
  BY <1>4, <1>5 DEF ReportsAreExact, IsChain, Observed, ChainIn
<1>6. ASSUME NEW r \in Readers, GiveReport(r)
      PROVE  Exact(file', annotations', reports')
  <2>1. /\ job[r] \in Job
        /\ Len(reports') = Len(reports) + 1
        /\ reports'[Len(reports) + 1] = ReportOf(r)
        /\ UNCHANGED <<file, annotations>>
    BY <1>1, <1>6, GivenLast
  <2>2. /\ ReportOf(r).asked = job[r].asked
        /\ ReportOf(r).window = job[r].window
        /\ ReportOf(r).lines = Readable
        /\ ReportOf(r).matched = Matched(Readable, job[r].asked, job[r].window)
    BY DEF ReportOf
  <2>3. job[r].asked \in Nat /\ Readable \in SUBSET (1..Len(file))
    BY <2>1, CorrelationAssumption DEF Job, Readable, CorrelationAssumption
  <2>4. \A a \in 1..ReportOf(r).asked :
          a \in ReportOf(r).matched
              <=> ChainIn(file, annotations, ReportOf(r).lines, a, ReportOf(r).window)
    BY <1>1, <2>2, <2>3, MatchedIsChain
  <2>5. \A n \in 1..Len(reports') : n \in 1..Len(reports) \/ n = Len(reports) + 1
    BY <1>2, <2>1
  <2> QED
    BY <1>4, <2>1, <2>4, <2>5 DEF Exact
<1>7. Len(reports') = Len(reports) \/ \E r \in Readers : GiveReport(r)
  BY DEF Next, vars, StartCapture, StopCapture, Crash, WriteBegins, WriteEnds, Annotate,
         BeginReport
<1>8. Exact(file', annotations', reports') => ReportsAreExact'
  BY DEF ReportsAreExact, Exact, IsChain, Observed, ChainIn
<1> QED
  BY <1>5, <1>6, <1>7, <1>8

(* IInv is an invariant.                                                    *)
LEMMA IInvHolds == Spec => []IInv
<1>1. Init => IInv
  BY InvInit
<1>2. IInv /\ [Next]_vars => IInv'
  BY TypeNext, ReportsReadNext, ReportsInheritNext, JobsReadNext, ExactNext DEF IInv
<1> QED
  BY <1>1, <1>2, PTL DEF Spec

---------------------------------------------------------------------------
(* A report matches an annotation exactly when the lines it could read hold *)
(* a chain for it, for every file, torn lines included (platform.py:402).   *)
THEOREM SearchIsExact == Spec => []ReportsAreExact
<1>1. IInv => ReportsAreExact
  BY DEF IInv
<1> QED
  BY <1>1, IInvHolds, PTL

(* A longer window and more lines keep a chain.                             *)
LEMMA ChainGrows ==
    ASSUME TypeOK, NEW a \in 1..Len(annotations), NEW lines, NEW more, lines \subseteq more,
           more \subseteq Readable, NEW w \in Int, NEW v \in Int, w <= v,
           ChainIn(file, annotations, lines, a, w)
    PROVE  ChainIn(file, annotations, more, a, v)
<1>1. annotations[a].action_at \in Int
  <2>1. annotations[a] \in Annotation
    BY ElementOfSeq DEF TypeOK
  <2> QED
    BY <2>1, CorrelationAssumption DEF Annotation, CorrelationAssumption
<1>2. \A n \in more : file[n].timestamp \in Int
  <2>1. \A n \in 1..Len(file) : file[n] \in Line
    BY ElementOfSeq DEF TypeOK
  <2> QED
    BY <2>1, CorrelationAssumption DEF Line, Readable, CorrelationAssumption
<1>3. \A n \in lines : n \in more /\
        (file[n].timestamp <= annotations[a].action_at + w
            => file[n].timestamp <= annotations[a].action_at + v)
  BY <1>1, <1>2
<1> QED
  BY <1>3 DEF ChainIn

(* A report that was asked for after another was given, with a window as    *)
(* long, has all its matches (platform.py:312-379), whatever the listener,  *)
(* the operators and a crash did meanwhile.                                 *)
THEOREM MatchesAreNeverTakenBack == Spec => []ReportsOnlyGrow
<1>1. IInv => ReportsOnlyGrow
  <2> SUFFICES ASSUME IInv, NEW n \in 1..Len(reports), NEW m \in 1..reports[n].after,
                      reports[m].window <= reports[n].window, NEW a \in reports[m].matched
               PROVE  a \in reports[n].matched
    BY DEF ReportsOnlyGrow
  <2>1. Len(reports) \in Nat /\ Len(annotations) \in Nat /\ TypeOK
    BY DEF IInv, TypeOK
  <2>2. reports[n].after < n /\ reports[n].after \in Nat
    BY <2>1, ReportFields DEF IInv, ReportsRead
  <2>3. m \in 1..Len(reports)
    BY <2>1, <2>2
  <2>4. /\ reports[m].window \in Int /\ reports[n].window \in Int
        /\ reports[m].asked \in Nat /\ reports[n].asked \in Nat
    BY <2>1, <2>3, ReportFields
  <2>5. reports[m].asked <= reports[n].asked /\ reports[m].lines \subseteq reports[n].lines
    BY DEF IInv, ReportsInherit
  <2>6. a \in 1..reports[m].asked /\ reports[n].asked <= Len(annotations)
    BY <2>3 DEF IInv, ReportsRead
  <2>7. a \in 1..reports[n].asked /\ a \in 1..Len(annotations)
    BY <2>1, <2>4, <2>5, <2>6
  <2>8. Exact(file, annotations, reports)
    BY ExactIsReportsAreExact DEF IInv
  <2>9. ChainIn(file, annotations, reports[m].lines, a, reports[m].window)
    BY <2>3, <2>6, <2>8 DEF Exact
  <2>10. reports[n].lines \subseteq Readable
    BY DEF IInv, ReportsRead
  <2>11. ChainIn(file, annotations, reports[n].lines, a, reports[n].window)
    BY <2>1, <2>4, <2>5, <2>7, <2>9, <2>10, ChainGrows
  <2> QED
    BY <2>7, <2>8, <2>11 DEF Exact
<1> QED
  BY <1>1, IInvHolds, PTL
=============================================================================
