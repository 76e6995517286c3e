------------------------- MODULE OperatorStoreProofs -------------------------
(***************************************************************************)
(* Proofs about OperatorStore for any set of threads, templates and PGNs:  *)
(* events tell of committed writes, listings lose nothing, an answer that  *)
(* differs from what was done has a later write to explain it.             *)
(***************************************************************************)
EXTENDS OperatorStore, TLAPS

\* The write of call id is committed.
Wrote(id) == \E i \in 1..Len(written) : written[i].id = id

Undoing(op) == IF op = "upsert" THEN "remove" ELSE "upsert"

\* The write of a watchlist call is committed, and what it did holds or was
\* undone by a later write.
Explained(id, op, pgn) ==
    \E i \in 1..Len(written) :
        /\ written[i].id = id
        /\ \/ (pgn \in watchlist) = (op = "upsert")
           \/ \E j \in 1..Len(written) :
                 i < j /\ written[j].operation = [op |-> Undoing(op), pgn |-> pgn]

Noted(id, op) == \E e \in events : e.id = id /\ e.kind = op

\* What is true of the call a thread serves, by how far it has come.
Stage(w) ==
    pc[w] # "idle" =>
        LET id == job[w].id
            op == job[w].operation.op
        IN  /\ pc[w] = "write" => op \in Writing
            /\ pc[w] = "note" => op \in {"update", "profile"}
            /\ pc[w] = "log" => op \in Writing /\ Wrote(id)
            /\ pc[w] \in {"read", "note"} /\ op \in Writing => Noted(id, op)
            /\ pc[w] \in {"log", "read"} /\ op \in {"upsert", "remove"} =>
                   Explained(id, op, job[w].operation.pgn)
            /\ pc[w] \in {"log", "read"} /\ op = "annotate" => id \in annotations

Staged == \A w \in Workers : Stage(w)

\* Whoever answers with rows of annotations has seen them in the table.
RowsAreListed == \A r \in Replies("annotate", "ok") : r.rows \subseteq annotations

ShownUnderGates == \A r \in replies : r.shown # Nothing => r.shown.gate_reason = GateReason(r.settings)

AnswersHold ==
    EventsMatchWrites /\ RowsAreListed /\ AnnotationsOnlyGrow /\ WatchAnswersExplained
        /\ ShownUnderGates

IInv ==
    /\ TypeOK
    /\ Staged
    /\ AnswersHold

---------------------------------------------------------------------------
(* Under whatever gates, the gate shown is the one that a whitelisted       *)
(* command with its parameters would be refused with.                       *)
LEMMA GateIsPolicys ==
    ASSUME NEW s, NEW e \in DEFAULT_WHITELIST
    PROVE  LET req == [domain |-> [word |-> e.domain, dressed |-> FALSE],
                       command |-> e.command, params |-> e.required]
               reason == StaticReason(s, req)
           IN  IF reason = "none" THEN GateReason(s) = "eligible_if_policy_approved"
                                  ELSE GateReason(s) = reason
<1> DEFINE req == [domain |-> [word |-> e.domain, dressed |-> FALSE],
                   command |-> e.command, params |-> e.required]
<1>1. Normalised(req.domain) = e.domain /\ req.command = e.command /\ req.params = e.required
  BY DEF Normalised
<1>2. e.domain \in ALLOWED_DOMAINS /\ e.domain \notin DENIED_DOMAINS
  BY DEF DEFAULT_WHITELIST, WhitelistEntry, ALLOWED_DOMAINS, DENIED_DOMAINS
<1>3. Key(req) = <<e.domain, e.command>>
  BY <1>1 DEF Key
<1>4. Key(req) \in Keys
  BY <1>3 DEF Keys
<1>5. \A x \in DEFAULT_WHITELIST : <<x.domain, x.command>> = <<e.domain, e.command>>
                                     => x.required = e.required
  BY DEF DEFAULT_WHITELIST, WhitelistEntry
<1>6. Missing(req) = {}
  <2> DEFINE Same == {x \in DEFAULT_WHITELIST : <<x.domain, x.command>> = Key(req)}
  <2>1. \A x \in Same : x.required = req.params
    BY <1>1, <1>3, <1>5
  <2>2. \A n \in UNION { x.required : x \in Same } : n \in req.params
    BY <2>1
  <2>3. ASSUME NEW n \in Missing(req) PROVE FALSE
    BY <2>2, <2>3 DEF Missing
  <2> QED
    BY <2>3
<1> HIDE DEF req
<1> QED
  BY <1>1, <1>2, <1>4, <1>6 DEF StaticReason, GateReason, req

LEMMA AppendedCommit ==
    ASSUME NEW x \in Commit, written \in Seq(Commit), written' = Append(written, x)
    PROVE  /\ written' \in Seq(Commit)
           /\ Len(written) \in Nat /\ Len(written') = Len(written) + 1
           /\ \A i \in 1..Len(written) : i \in 1..Len(written') /\ written'[i] = written[i]
           /\ Len(written') \in 1..Len(written') /\ written'[Len(written')] = x
OBVIOUS

---------------------------------------------------------------------------
(* What a step may do to the tables of the database.                        *)

\* Nothing that was written is forgotten, and a PGN comes to the watchlist or
\* leaves it by the write that was committed last.
TablesGrow ==
    /\ written \in Seq(Commit) /\ Len(written) \in Nat
    /\ Len(written') \in Nat /\ Len(written) <= Len(written')
    /\ \A i \in 1..Len(written) : written'[i] = written[i]
    /\ \A pgn \in Pgns : \A op \in {"upsert", "remove"} :
           (pgn \in watchlist) # (pgn \in watchlist') /\ (pgn \in watchlist) = (op = "upsert") =>
               /\ Len(written) < Len(written')
               /\ written'[Len(written')].operation = [op |-> Undoing(op), pgn |-> pgn]
    /\ events \subseteq events'
    /\ annotations \subseteq annotations'

LEMMA ExplainedStays ==
    ASSUME TablesGrow, NEW id, NEW op \in {"upsert", "remove"}, NEW pgn \in Pgns,
           Explained(id, op, pgn)
    PROVE  Explained(id, op, pgn)'
<1>1. PICK i \in 1..Len(written) :
          /\ written[i].id = id
          /\ \/ (pgn \in watchlist) = (op = "upsert")
             \/ \E j \in 1..Len(written) :
                   i < j /\ written[j].operation = [op |-> Undoing(op), pgn |-> pgn]
  BY DEF Explained
<1>2. i \in 1..Len(written') /\ written'[i].id = id
  BY <1>1 DEF TablesGrow
<1>3. CASE \E j \in 1..Len(written) :
              i < j /\ written[j].operation = [op |-> Undoing(op), pgn |-> pgn]
  <2>1. PICK j \in 1..Len(written) :
            i < j /\ written[j].operation = [op |-> Undoing(op), pgn |-> pgn]
    BY <1>3
  <2>2. j \in 1..Len(written') /\ written'[j] = written[j]
    BY DEF TablesGrow
  <2> QED
    BY <1>2, <2>1, <2>2 DEF Explained
<1>4. CASE (pgn \in watchlist) = (op = "upsert") /\ (pgn \in watchlist) # (pgn \in watchlist')
  <2>1. /\ Len(written) < Len(written')
        /\ written'[Len(written')].operation = [op |-> Undoing(op), pgn |-> pgn]
    BY <1>4 DEF TablesGrow
  <2>2. Len(written') \in 1..Len(written') /\ i < Len(written')
    BY <1>1, <2>1 DEF TablesGrow
  <2> QED
    BY <1>2, <2>1, <2>2 DEF Explained
<1>5. CASE (pgn \in watchlist) = (op = "upsert") /\ (pgn \in watchlist) = (pgn \in watchlist')
  BY <1>2, <1>5 DEF Explained
<1> QED
  BY <1>1, <1>3, <1>4, <1>5

LEMMA WroteStays ==
    ASSUME TablesGrow, NEW id
    PROVE  /\ Wrote(id) => Wrote(id)'
           /\ \A op : Noted(id, op) => Noted(id, op)'
<1>1. ASSUME Wrote(id) PROVE Wrote(id)'
  <2>1. PICK i \in 1..Len(written) : written[i].id = id
    BY <1>1 DEF Wrote
  <2>2. i \in 1..Len(written') /\ written'[i].id = id
    BY <2>1 DEF TablesGrow
  <2> QED
    BY <2>2 DEF Wrote
<1> QED
  BY <1>1 DEF TablesGrow, Noted

(* The calls of the other threads are where they were.                      *)
LEMMA OthersStayStaged ==
    ASSUME TypeOK, Staged, TablesGrow, NEW w \in Workers, NEW v \in Workers,
           pc'[v] = pc[v], job'[v] = job[v]
    PROVE  Stage(v)'
<1> SUFFICES ASSUME pc[v] # "idle" PROVE Stage(v)'
  BY DEF Stage
<1>1. job[v] \in Job /\ job[v].operation \in Operation
  BY DEF TypeOK, Job
<1>2. PICK id, op, pgn : id = job[v].id /\ op = job[v].operation.op /\ pgn = job[v].operation.pgn
  OBVIOUS
<1>3. op \in {"upsert", "remove"} => pgn \in Pgns
  BY <1>1, <1>2 DEF Operation
<1>4. /\ Wrote(id) => Wrote(id)'
      /\ Noted(id, op) => Noted(id, op)'
  BY WroteStays
<1>5. op \in {"upsert", "remove"} /\ Explained(id, op, pgn) => Explained(id, op, pgn)'
  BY <1>3, ExplainedStays
<1>6. annotations \subseteq annotations'
  BY DEF TablesGrow
<1>7. Stage(v)
  BY DEF Staged
<1> QED
  BY <1>2, <1>4, <1>5, <1>6, <1>7 DEF Stage, Wrote, Noted, Explained

---------------------------------------------------------------------------
(* What is known of answers when new ones are given.                        *)

\* An answer that agrees with the tables at the moment it is given.
Fits(r) ==
    LET op == r.operation.op
    IN  /\ r.outcome = "ok" =>
              /\ op \in Writing => Noted(r.id, op)
              /\ op = "annotate" => r.rows = annotations /\ r.id \in annotations
              /\ op \in {"upsert", "remove"} =>
                     /\ r.rows = watchlist
                     /\ r.operation.pgn \in Pgns
                     /\ Explained(r.id, op, r.operation.pgn)
        /\ r.shown # Nothing => r.shown.gate_reason = GateReason(r.settings)

LEMMA EventsStep ==
    ASSUME EventsMatchWrites, TablesGrow, NEW R, replies' = replies \cup R,
           \A r \in R : Fits(r),
           \A e \in events' : e \in events \/ (e.kind \in Writing => Wrote(e.id))
    PROVE  EventsMatchWrites'
<1>1. ASSUME NEW id, Wrote(id) PROVE \E x \in Committed' : x.id = id
  BY <1>1 DEF Wrote, TablesGrow, Committed
<1>2. \A e \in events' : e.kind \in Writing => \E x \in Committed' : x.id = e.id
  <2> SUFFICES ASSUME NEW e \in events', e.kind \in Writing
               PROVE  \E x \in Committed' : x.id = e.id
    OBVIOUS
  <2>1. CASE e \in events
    <3>1. \E x \in Committed : x.id = e.id
      BY <2>1 DEF EventsMatchWrites
    <3>2. Wrote(e.id)
      BY <3>1 DEF Wrote, Committed
    <3> QED
      BY <1>1, <3>2
  <2>2. CASE Wrote(e.id)
    BY <1>1, <2>2
  <2> QED
    BY <2>1, <2>2
<1>3. ASSUME NEW op \in Writing, NEW r \in Replies(op, "ok")'
      PROVE  \E e \in events' : e.id = r.id /\ e.kind = op
  <2>1. r \in replies' /\ r.operation.op = op /\ r.outcome = "ok"
    BY <1>3 DEF Replies
  <2>2. \E e \in events : e.id = r.id /\ e.kind = op
    <3>1. CASE r \in replies
      <4>1. r \in Replies(op, "ok")
        BY <2>1, <3>1 DEF Replies
      <4> QED
        BY <4>1 DEF EventsMatchWrites
    <3>2. CASE r \in R
      BY <2>1, <3>2 DEF Fits, Noted
    <3> QED
      BY <2>1, <3>1, <3>2
  <2> QED
    BY <2>2 DEF TablesGrow
<1> QED
  BY <1>2, <1>3 DEF EventsMatchWrites

LEMMA RowsStep ==
    ASSUME RowsAreListed, AnnotationsOnlyGrow, TablesGrow, NEW R, replies' = replies \cup R,
           \A r \in R : Fits(r),
           \A r, s \in R : r = s
    PROVE  RowsAreListed' /\ AnnotationsOnlyGrow'
<1>1. \A r \in Replies("annotate", "ok")' :
          \/ r \in Replies("annotate", "ok")
          \/ r \in R /\ r.rows = annotations /\ r.id \in annotations
  BY DEF Replies, Fits
<1>2. \A r \in Replies("annotate", "ok") : r.rows \subseteq annotations /\ r.id \in r.rows
  BY DEF RowsAreListed, AnnotationsOnlyGrow
<1>3. \A r \in Replies("annotate", "ok")' : r.rows \subseteq annotations /\ r.id \in r.rows
  BY <1>1, <1>2
<1>4. RowsAreListed'
  BY <1>3 DEF RowsAreListed, TablesGrow
<1>5. ASSUME NEW r \in Replies("annotate", "ok")', NEW s \in Replies("annotate", "ok")'
      PROVE  r.rows \subseteq s.rows \/ s.rows \subseteq r.rows
  <2>1. CASE r \in Replies("annotate", "ok") /\ s \in Replies("annotate", "ok")
    BY <2>1 DEF AnnotationsOnlyGrow
  <2>2. CASE r.rows = annotations \/ s.rows = annotations
    BY <1>3, <2>2
  <2> QED
    BY <1>1, <2>1, <2>2
<1> QED
  BY <1>3, <1>4, <1>5 DEF AnnotationsOnlyGrow

LEMMA WatchStep ==
    ASSUME WatchAnswersExplained, TablesGrow, NEW R, replies' = replies \cup R,
           \A r \in R : Fits(r)
    PROVE  WatchAnswersExplained'
<1> SUFFICES ASSUME NEW op \in {"upsert", "remove"}, NEW r \in Replies(op, "ok")',
                    (r.operation.pgn \in r.rows) # (op = "upsert")
             PROVE  \E i, j \in 1..Len(written') :
                       /\ i < j
                       /\ written'[i].id = r.id
                       /\ written'[j].operation = [op |-> Undoing(op), pgn |-> r.operation.pgn]
  BY DEF WatchAnswersExplained, Undoing
<1>1. r \in replies' /\ r.operation.op = op /\ r.outcome = "ok"
  BY DEF Replies
<1>2. \E i, j \in 1..Len(written) :
         /\ i < j
         /\ written[i].id = r.id
         /\ written[j].operation = [op |-> Undoing(op), pgn |-> r.operation.pgn]
  <2>1. CASE r \in replies
    <3>1. r \in Replies(op, "ok")
      BY <1>1, <2>1 DEF Replies
    <3> QED
      BY <3>1 DEF WatchAnswersExplained, Undoing
  <2>2. CASE r \in R
    BY <1>1, <2>2 DEF Fits, Explained
  <2> QED
    BY <1>1, <2>1, <2>2
<1>3. PICK i, j \in 1..Len(written) :
         /\ i < j
         /\ written[i].id = r.id
         /\ written[j].operation = [op |-> Undoing(op), pgn |-> r.operation.pgn]
  BY <1>2
<1>4. /\ i \in 1..Len(written') /\ j \in 1..Len(written')
      /\ written'[i] = written[i] /\ written'[j] = written[j]
  BY DEF TablesGrow
<1> QED
  BY <1>3, <1>4

LEMMA AnswersStep ==
    ASSUME AnswersHold, TablesGrow, NEW R, replies' = replies \cup R,
           \A r \in R : Fits(r),
           \A r, s \in R : r = s,
           \A e \in events' : e \in events \/ (e.kind \in Writing => Wrote(e.id))
    PROVE  AnswersHold'
<1>1. ShownUnderGates'
  BY DEF AnswersHold, ShownUnderGates, Fits
<1> QED
  BY <1>1, EventsStep, RowsStep, WatchStep DEF AnswersHold

---------------------------------------------------------------------------
(* Types of what the threads hold.                                          *)

ThreadTypes ==
    /\ pc \in [Workers -> {"idle", "write", "log", "read", "note"}]
    /\ job \in [Workers -> Job \cup {NoJob}]
    /\ \A w \in Workers : job[w] = NoJob <=> pc[w] = "idle"

\* What a reply of w is made of.
Given0(w, outcome, shown, rows) ==
    [id |-> job[w].id, operation |-> job[w].operation, outcome |-> outcome, shown |-> shown,
     rows |-> rows, settings |-> settings]

OthersStay(w) == \A v \in Workers : v # w => pc'[v] = pc[v] /\ job'[v] = job[v]

LEMMA BusyHasJob ==
    ASSUME ThreadTypes, NEW w \in Workers, pc[w] # "idle"
    PROVE  job[w] \in Job /\ job[w].operation \in Operation /\ job[w].id \in 1..MaxCalls
BY DEF ThreadTypes, Job

LEMMA GotoMoves ==
    ASSUME ThreadTypes, NEW w \in Workers, pc[w] # "idle",
           NEW label \in {"log", "read", "note"}, Goto(w, label), job' = job
    PROVE  ThreadTypes' /\ pc'[w] = label /\ OthersStay(w)
<1>1. /\ pc' = [pc EXCEPT ![w] = label]
      /\ pc \in [Workers -> {"idle", "write", "log", "read", "note"}]
  BY DEF Goto, ThreadTypes
<1>2. /\ pc' \in [Workers -> {"idle", "write", "log", "read", "note"}]
      /\ pc'[w] = label /\ \A v \in Workers : v # w => pc'[v] = pc[v]
  BY <1>1
<1> QED
  BY <1>1, <1>2 DEF ThreadTypes, OthersStay

LEMMA ReplyEnds ==
    ASSUME ThreadTypes, NEW w \in Workers, pc[w] # "idle", settings \in GateChoices,
           NEW outcome \in {"ok", "error"}, NEW shown \in Answer \cup {Nothing},
           NEW rows \in SUBSET ((1..MaxCalls) \cup Pgns),
           Reply(w, outcome, shown, rows)
    PROVE  /\ ThreadTypes' /\ pc'[w] = "idle" /\ OthersStay(w)
           /\ replies' = replies \cup {Given0(w, outcome, shown, rows)}
           /\ Given0(w, outcome, shown, rows) \in Given
<1>1. /\ pc' = [pc EXCEPT ![w] = "idle"] /\ job' = [job EXCEPT ![w] = NoJob]
      /\ replies' = replies \cup {Given0(w, outcome, shown, rows)}
      /\ pc \in [Workers -> {"idle", "write", "log", "read", "note"}]
      /\ job \in [Workers -> Job \cup {NoJob}]
  BY DEF Reply, Goto, ThreadTypes, Given0
<1>2. /\ pc' \in [Workers -> {"idle", "write", "log", "read", "note"}] /\ pc'[w] = "idle"
      /\ job' \in [Workers -> Job \cup {NoJob}] /\ job'[w] = NoJob
      /\ OthersStay(w)
  BY <1>1 DEF OthersStay
<1>3. Given0(w, outcome, shown, rows) \in Given
  BY BusyHasJob DEF Given, Given0
<1> QED
  BY <1>1, <1>2, <1>3 DEF ThreadTypes, OthersStay

(* A step of one thread keeps the invariant if its own call's part holds.   *)
LEMMA ThreadStep ==
    ASSUME IInv, TypeOK', TablesGrow, NEW w \in Workers, OthersStay(w), Stage(w)',
           NEW R, replies' = replies \cup R,
           \A r \in R : Fits(r),
           \A r, s \in R : r = s,
           \A e \in events' : e \in events \/ (e.kind \in Writing => Wrote(e.id))
    PROVE  IInv'
<1>1. \A v \in Workers : Stage(v)'
  BY OthersStayStaged DEF IInv, OthersStay
<1>2. AnswersHold'
  BY AnswersStep DEF IInv
<1> QED
  BY <1>1, <1>2 DEF IInv, Staged

LEMMA NoChange ==
    ASSUME written \in Seq(Commit), UNCHANGED <<tables, written>>, events \subseteq events'
    PROVE  TablesGrow
<1>1. Len(written) \in Nat
  OBVIOUS
<1> QED
  BY <1>1 DEF TablesGrow, tables

(* A step of a call that goes on.                                           *)
LEMMA GoingOnStep ==
    ASSUME IInv, TypeOK', TablesGrow, NEW w \in Workers, OthersStay(w), Stage(w)',
           replies' = replies,
           \A e \in events' : e \in events \/ (e.kind \in Writing => Wrote(e.id))
    PROVE  IInv'
<1>1. PICK R : R = {}
  OBVIOUS
<1>2. replies' = replies \cup R /\ (\A r \in R : Fits(r)) /\ (\A r, s \in R : r = s)
  BY <1>1
<1> QED
  BY <1>2, ThreadStep

(* A call that ends over unchanged tables.                                  *)
LEMMA EndingStep ==
    ASSUME IInv, NEW w \in Workers, pc[w] # "idle",
           NEW outcome \in {"ok", "error"}, NEW shown \in Answer \cup {Nothing},
           NEW rows \in SUBSET ((1..MaxCalls) \cup Pgns),
           Reply(w, outcome, shown, rows),
           UNCHANGED <<settings, tables, calls, written>>,
           events \subseteq events', events' \subseteq Event,
           \A e \in events' : e \in events \/ (e.kind \in Writing => Wrote(e.id)),
           Fits(Given0(w, outcome, shown, rows))
    PROVE  IInv'
<1>0. ThreadTypes /\ settings \in GateChoices /\ written \in Seq(Commit)
  BY DEF IInv, TypeOK, ThreadTypes
<1>1. /\ ThreadTypes' /\ pc'[w] = "idle" /\ OthersStay(w)
      /\ replies' = replies \cup {Given0(w, outcome, shown, rows)}
      /\ Given0(w, outcome, shown, rows) \in Given
  BY <1>0, ReplyEnds
<1>2. TypeOK'
  BY <1>1 DEF IInv, TypeOK, ThreadTypes, tables
<1>3. Stage(w)'
  BY <1>1 DEF Stage
<1>4. TablesGrow
  BY <1>0, NoChange
<1>5. PICK R : R = {Given0(w, outcome, shown, rows)}
  OBVIOUS
<1>6. /\ replies' = replies \cup R
      /\ \A r \in R : Fits(r)
      /\ \A r, s \in R : r = s
  BY <1>1, <1>5
<1> QED
  BY <1>1, <1>2, <1>3, <1>4, <1>6, ThreadStep

LEMMA RaisesKeeps ==
    ASSUME IInv, NEW w \in Workers, pc[w] # "idle", Raises(w),
           UNCHANGED <<settings, tables, events, calls, written>>
    PROVE  IInv'
<1>1. /\ "error" \in {"ok", "error"} /\ Nothing \in Answer \cup {Nothing}
      /\ {} \in SUBSET ((1..MaxCalls) \cup Pgns)
      /\ Reply(w, "error", Nothing, {})
  BY DEF Raises
<1>2. events \subseteq events' /\ events' \subseteq Event
  BY DEF IInv, TypeOK
<1>3. Fits(Given0(w, "error", Nothing, {}))
  BY DEF Fits, Given0
<1> QED
  BY <1>1, <1>2, <1>3, EndingStep

---------------------------------------------------------------------------
(* The steps of a thread, one by one.                                       *)

(* Where a write is committed.                                              *)
LEMMA CommittedKeeps ==
    ASSUME IInv, NEW w \in Workers, pc[w] = "write", Written(w), Goto(w, "log"),
           UNCHANGED <<job, replies, settings, events, calls>>,
           WriteProfile(w) \/ UpsertWatch(w) \/ RemoveWatch(w) \/ Annotate(w)
    PROVE  IInv'
<1> DEFINE commit == [id |-> job[w].id, operation |-> job[w].operation, before |-> profile]
<1>0. /\ ThreadTypes /\ Stage(w) /\ written \in Seq(Commit)
      /\ profile \in Stored \cup {Absent} /\ watchlist \subseteq Pgns
      /\ annotations \subseteq 1..MaxCalls
  BY DEF IInv, Staged, TypeOK, ThreadTypes
<1>1. job[w] \in Job /\ job[w].operation \in Operation /\ job[w].id \in 1..MaxCalls
  BY <1>0, BusyHasJob
<1>2. ThreadTypes' /\ pc'[w] = "log" /\ OthersStay(w)
  BY <1>0, GotoMoves
<1>3. /\ commit \in Commit /\ commit.id = job[w].id /\ commit.operation = job[w].operation
      /\ written' = Append(written, commit)
  BY <1>0, <1>1 DEF Commit, Written
<1> HIDE DEF commit
<1>4. /\ written' \in Seq(Commit)
      /\ Len(written) \in Nat /\ Len(written') = Len(written) + 1
      /\ \A i \in 1..Len(written) : i \in 1..Len(written') /\ written'[i] = written[i]
      /\ Len(written') \in 1..Len(written') /\ written'[Len(written')] = commit
  BY <1>0, <1>3, AppendedCommit
<1>5. /\ profile' \in Stored \cup {Absent} /\ watchlist' \subseteq Pgns
      /\ annotations' \subseteq 1..MaxCalls /\ annotations \subseteq annotations'
  BY <1>0, <1>1 DEF WriteProfile, UpsertWatch, RemoveWatch, Annotate, Operation, Stored
<1>6. TypeOK'
  BY <1>2, <1>4, <1>5 DEF IInv, TypeOK, ThreadTypes
<1>7. ASSUME NEW pgn \in Pgns, NEW op \in {"upsert", "remove"},
             (pgn \in watchlist) # (pgn \in watchlist'),
             (pgn \in watchlist) = (op = "upsert")
      PROVE  written'[Len(written')].operation = [op |-> Undoing(op), pgn |-> pgn]
  <2>1. \/ op = "remove" /\ UpsertWatch(w) /\ pgn = job[w].operation.pgn
        \/ op = "upsert" /\ RemoveWatch(w) /\ pgn = job[w].operation.pgn
    BY <1>7 DEF WriteProfile, UpsertWatch, RemoveWatch, Annotate
  <2>2. job[w].operation = [op |-> Undoing(op), pgn |-> pgn]
    BY <1>1, <2>1 DEF UpsertWatch, RemoveWatch, Undoing, Operation
  <2> QED
    BY <1>3, <1>4, <2>2
<1>8. TablesGrow
  BY <1>0, <1>4, <1>5, <1>7 DEF TablesGrow
<1>9. Stage(w)'
  <2>1. PICK id, op, pgn : id = job[w].id /\ op = job[w].operation.op
                              /\ pgn = job[w].operation.pgn
    OBVIOUS
  <2>2. Len(written') \in 1..Len(written') /\ written'[Len(written')].id = id
    BY <1>3, <1>4, <2>1
  <2>3. Wrote(id)'
    BY <2>2 DEF Wrote
  <2>4. op \in {"upsert", "remove"} => (pgn \in watchlist') = (op = "upsert")
    BY <1>1, <2>1 DEF WriteProfile, UpsertWatch, RemoveWatch, Annotate
  <2>5. op \in {"upsert", "remove"} => Explained(id, op, pgn)'
    BY <2>2, <2>4 DEF Explained
  <2>6. op = "annotate" => id \in annotations'
    BY <2>1 DEF WriteProfile, UpsertWatch, RemoveWatch, Annotate
  <2>7. op \in Writing
    BY <1>0, <2>1 DEF Stage
  <2>8. job' = job
    OBVIOUS
  <2> QED
    BY <1>2, <2>1, <2>3, <2>5, <2>6, <2>7, <2>8 DEF Stage, Wrote, Explained
<1>10. replies' = replies /\ \A e \in events' : e \in events
  OBVIOUS
<1> QED
  BY <1>2, <1>6, <1>8, <1>9, <1>10, GoingOnStep

LEMMA WriteKeeps ==
    ASSUME IInv, NEW w \in Workers, Write(w)
    PROVE  IInv'
<1>1. pc[w] = "write" /\ UNCHANGED <<settings, events, calls>>
  BY DEF Write
<1>2. CASE Raises(w) /\ UNCHANGED <<tables, written>>
  BY <1>1, <1>2, RaisesKeeps
<1>3. CASE ~(Raises(w) /\ UNCHANGED <<tables, written>>)
  BY <1>1, <1>3, CommittedKeeps DEF Write
<1> QED
  BY <1>2, <1>3

LEMMA LogKeeps ==
    ASSUME IInv, NEW w \in Workers, Log(w)
    PROVE  IInv'
<1>0. /\ pc[w] = "log" /\ UNCHANGED <<settings, tables, calls, written>>
      /\ ThreadTypes /\ Stage(w) /\ written \in Seq(Commit) /\ events \subseteq Event
  BY DEF Log, IInv, Staged, TypeOK, ThreadTypes
<1>1. CASE Raises(w) /\ UNCHANGED events
  BY <1>0, <1>1, RaisesKeeps
<1>2. ASSUME events' = events \cup {[id |-> job[w].id, kind |-> job[w].operation.op,
                                     previous |-> job[w].previous]},
             Goto(w, "read"), job' = job, replies' = replies
      PROVE  IInv'
  <2> DEFINE event == [id |-> job[w].id, kind |-> job[w].operation.op,
                       previous |-> job[w].previous]
  <2>1. PICK id, op, pgn : id = job[w].id /\ op = job[w].operation.op
                              /\ pgn = job[w].operation.pgn
    OBVIOUS
  <2>2. ThreadTypes' /\ pc'[w] = "read" /\ OthersStay(w)
    BY <1>0, <1>2, GotoMoves
  <2>3. op \in Writing /\ Wrote(id) /\ op \in {"upsert", "remove"} => Explained(id, op, pgn)
    BY <1>0, <2>1 DEF Stage
  <2>4. op \in Writing /\ Wrote(id) /\ (op = "annotate" => id \in annotations)
    BY <1>0, <2>1 DEF Stage
  <2>5. event \in Event /\ event.id = id /\ event.kind = op /\ event \in events'
    BY <1>0, <1>2, <2>1, <2>4, BusyHasJob DEF Event, Job
  <2>6. events' \subseteq Event /\ events \subseteq events'
    BY <1>0, <1>2, <2>5
  <2>7. \A e \in events' : e \in events \/ (e.kind \in Writing => Wrote(e.id))
    <3>1. \A e \in events' : e \in events \/ e = event
      BY <1>2
    <3> HIDE DEF event
    <3> QED
      BY <2>4, <2>5, <3>1
  <2>8. Noted(id, op)'
    BY <2>5 DEF Noted
  <2>9. TypeOK'
    BY <1>0, <1>2, <2>2, <2>6 DEF IInv, TypeOK, ThreadTypes, tables
  <2>10. TablesGrow
    BY <1>0, <2>6, NoChange
  <2>11. Stage(w)'
    BY <1>0, <1>2, <2>1, <2>2, <2>3, <2>4, <2>8 DEF Stage, Noted, Explained, tables
  <2> QED
    BY <1>2, <2>2, <2>7, <2>9, <2>10, <2>11, GoingOnStep
<1> QED
  BY <1>1, <1>2 DEF Log

LEMMA EffectiveShown ==
    ASSUME NEW stored \in Stored \cup {Absent}, stored # Unreadable
    PROVE  /\ Effective(stored) \in Answer
           /\ Effective(stored).gate_reason = GateReason(settings)
BY DEF Effective, Answer, Stored, GateReason, GateReasons

\* An answer with a profile fits if the call has noted what it wrote.
LEMMA ProfileFits ==
    ASSUME NEW w, NEW stored \in Stored \cup {Absent}, stored # Unreadable,
           job[w].operation.op \in {"update", "profile"},
           job[w].operation.op \in Writing => Noted(job[w].id, job[w].operation.op)
    PROVE  Fits(Given0(w, "ok", Effective(stored), {}))
BY EffectiveShown DEF Fits, Given0

LEMMA ReadKeeps ==
    ASSUME IInv, NEW w \in Workers, Read(w)
    PROVE  IInv'
<1>0. /\ pc[w] = "read" /\ UNCHANGED <<settings, tables, events, calls, written>>
      /\ ThreadTypes /\ Stage(w) /\ written \in Seq(Commit) /\ events \subseteq Event
      /\ profile \in Stored \cup {Absent} /\ watchlist \subseteq Pgns
      /\ annotations \subseteq 1..MaxCalls
  BY DEF Read, IInv, Staged, TypeOK, ThreadTypes
<1>1. job[w] \in Job /\ job[w].operation \in Operation /\ job[w].id \in 1..MaxCalls
  BY <1>0, BusyHasJob
<1>2. CASE Raises(w)
  BY <1>0, <1>2, RaisesKeeps
<1>3. CASE ReadProfile(w) /\ profile # Unreadable
  <2>1. /\ job[w].operation.op \in {"update", "profile"}
        /\ Reply(w, "ok", Effective(profile), {})
    BY <1>3 DEF ReadProfile
  <2>2. Fits(Given0(w, "ok", Effective(profile), {}))
    BY <1>0, <1>3, <2>1, ProfileFits DEF Stage
  <2>3. /\ Effective(profile) \in Answer \cup {Nothing} /\ "ok" \in {"ok", "error"}
        /\ {} \in SUBSET ((1..MaxCalls) \cup Pgns)
        /\ \A e \in events' : e \in events
    BY <1>0, <1>3, EffectiveShown
  <2> QED
    BY <1>0, <2>1, <2>2, <2>3, EndingStep
<1>4. CASE ReadProfile(w) /\ profile = Unreadable
  <2>1. /\ job[w].operation.op \in {"update", "profile"}
        /\ Goto(w, "note") /\ UNCHANGED <<job, replies>>
    BY <1>4 DEF ReadProfile
  <2>2. ThreadTypes' /\ pc'[w] = "note" /\ OthersStay(w)
    BY <1>0, <2>1, GotoMoves
  <2>3. TypeOK'
    BY <1>0, <2>1, <2>2 DEF IInv, TypeOK, ThreadTypes, tables
  <2>4. TablesGrow
    BY <1>0, NoChange
  <2>5. Stage(w)'
    BY <1>0, <2>1, <2>2 DEF Stage, Noted
  <2> QED
    BY <1>0, <2>1, <2>2, <2>3, <2>4, <2>5, GoingOnStep
<1>5. CASE ReadRows(w)
  <2>1. /\ job[w].operation.op \in {"upsert", "remove", "annotate"}
        /\ Reply(w, "ok", Nothing, ListedRows(w))
    BY <1>5 DEF ReadRows
  <2>2. /\ ListedRows(w) \in SUBSET ((1..MaxCalls) \cup Pgns)
        /\ ListedRows(w) = IF job[w].operation.op = "annotate" THEN annotations ELSE watchlist
    BY <1>0 DEF ListedRows
  <2>3. /\ job[w].operation.op \in Writing
        /\ Noted(job[w].id, job[w].operation.op)
        /\ job[w].operation.op \in {"upsert", "remove"} =>
              /\ job[w].operation.pgn \in Pgns
              /\ Explained(job[w].id, job[w].operation.op, job[w].operation.pgn)
        /\ job[w].operation.op = "annotate" => job[w].id \in annotations
    BY <1>0, <1>1, <2>1 DEF Stage, Writing, Operation
  <2>4. PICK r : r = Given0(w, "ok", Nothing, ListedRows(w))
    OBVIOUS
  <2>5. /\ r.id = job[w].id /\ r.operation = job[w].operation /\ r.rows = ListedRows(w)
        /\ r.shown = Nothing
    BY <2>4 DEF Given0
  <2>6. Fits(r)
    BY <2>1, <2>2, <2>3, <2>5 DEF Fits
  <2>7. Fits(Given0(w, "ok", Nothing, ListedRows(w)))
    BY <2>4, <2>6
  <2>8. /\ Nothing \in Answer \cup {Nothing} /\ "ok" \in {"ok", "error"}
        /\ \A e \in events' : e \in events
    BY <1>0
  <2> QED
    BY <1>0, <2>1, <2>2, <2>7, <2>8, EndingStep
<1> QED
  BY <1>2, <1>3, <1>4, <1>5 DEF Read

LEMMA NoteInvalidKeeps ==
    ASSUME IInv, NEW w \in Workers, NoteInvalid(w)
    PROVE  IInv'
<1>0. /\ pc[w] = "note" /\ UNCHANGED <<settings, tables, calls, written>>
      /\ ThreadTypes /\ Stage(w) /\ events \subseteq Event
  BY DEF NoteInvalid, IInv, Staged, TypeOK, ThreadTypes
<1>1. CASE Raises(w) /\ UNCHANGED events
  BY <1>0, <1>1, RaisesKeeps
<1>2. ASSUME events' = events \cup {[id |-> job[w].id, kind |-> "profile_invalid",
                                     previous |-> Absent]},
             Reply(w, "ok", Effective(Absent), {})
      PROVE  IInv'
  <2> DEFINE event == [id |-> job[w].id, kind |-> "profile_invalid", previous |-> Absent]
  <2>1. event \in Event /\ event.kind \notin Writing
    BY <1>0, BusyHasJob DEF Event, Writing
  <2>2. /\ \A e \in events' : e \in events \/ e = event
        /\ events \subseteq events' /\ events' \subseteq Event
    BY <1>0, <1>2, <2>1
  <2>3. \A e \in events' : e \in events \/ (e.kind \in Writing => Wrote(e.id))
    BY <2>1, <2>2
  <2>4. Absent \in Stored \cup {Absent} /\ Absent # Unreadable
    BY DEF Absent, Unreadable
  <2>5. Fits(Given0(w, "ok", Effective(Absent), {}))
    BY <1>0, <2>4, ProfileFits DEF Stage
  <2>6. /\ Effective(Absent) \in Answer \cup {Nothing} /\ "ok" \in {"ok", "error"}
        /\ {} \in SUBSET ((1..MaxCalls) \cup Pgns)
    BY <2>4, EffectiveShown
  <2> QED
    BY <1>0, <1>2, <2>2, <2>3, <2>5, <2>6, EndingStep
<1> QED
  BY <1>1, <1>2 DEF NoteInvalid

LEMMA ArriveKeeps ==
    ASSUME IInv, NEW w \in Workers, NEW operation \in Operation, Arrive(w, operation)
    PROVE  IInv'
<1> DEFINE label == IF operation.op = "profile" THEN "read" ELSE "write"
           new == [id |-> calls', operation |-> operation,
                   previous |-> IF operation.op = "update" THEN profile ELSE Absent]
<1>0. /\ ThreadTypes /\ written \in Seq(Commit) /\ pc[w] = "idle"
      /\ UNCHANGED <<settings, tables, events, replies, written>>
      /\ pc' = [pc EXCEPT ![w] = label] /\ job' = [job EXCEPT ![w] = new]
  BY DEF Arrive, Goto, IInv, TypeOK, ThreadTypes
<1>1. calls' \in 0..MaxCalls /\ calls' \in 1..MaxCalls
  <2>1. calls \in 0..MaxCalls /\ calls < MaxCalls /\ calls' = calls + 1
    BY DEF IInv, TypeOK, Arrive
  <2> QED
    BY <2>1, StoreAssumption DEF StoreAssumption
<1>2. new \in Job /\ new # NoJob
  BY <1>1 DEF IInv, TypeOK, Job, NoJob
<1>3. new.operation = operation /\ label \in {"read", "write"}
  OBVIOUS
<1>4. operation.op \in {"update", "upsert", "remove", "annotate", "profile"}
        /\ (label = "read" <=> operation.op = "profile")
  BY DEF Operation
<1> HIDE DEF new, label
<1>5. /\ pc' \in [Workers -> {"idle", "write", "log", "read", "note"}] /\ pc'[w] = label
      /\ job' \in [Workers -> Job \cup {NoJob}] /\ job'[w] = new
      /\ \A v \in Workers : v # w => pc'[v] = pc[v] /\ job'[v] = job[v]
  BY <1>0, <1>2, <1>3 DEF ThreadTypes
<1>6. ThreadTypes' /\ OthersStay(w)
  BY <1>0, <1>2, <1>3, <1>5 DEF ThreadTypes, OthersStay
<1>7. TypeOK'
  BY <1>0, <1>1, <1>6 DEF IInv, TypeOK, ThreadTypes, tables
<1>8. TablesGrow
  BY <1>0, NoChange
<1>9. Stage(w)'
  BY <1>3, <1>4, <1>5 DEF Stage, Writing
<1>10. \A e \in events' : e \in events
  BY <1>0
<1> QED
  BY <1>0, <1>6, <1>7, <1>8, <1>9, <1>10, GoingOnStep

LEMMA RestartKeeps ==
    ASSUME IInv, Restart
    PROVE  IInv'
<1>1. /\ pc' \in [Workers -> {"idle", "write", "log", "read", "note"}]
      /\ job' \in [Workers -> Job \cup {NoJob}]
      /\ \A w \in Workers : pc'[w] = "idle" /\ job'[w] = NoJob
  BY DEF Restart
<1>2. settings' \in GateChoices /\ UNCHANGED <<tables, events, calls, replies, written>>
  BY DEF Restart
<1>3. TypeOK'
  BY <1>1, <1>2 DEF IInv, TypeOK, tables
<1>4. Staged'
  BY <1>1 DEF Staged, Stage
<1>5. AnswersHold'
  BY <1>2 DEF IInv, AnswersHold, EventsMatchWrites, RowsAreListed, AnnotationsOnlyGrow,
              WatchAnswersExplained, ShownUnderGates, Replies, Committed, tables
<1> QED
  BY <1>3, <1>4, <1>5 DEF IInv

LEMMA InitHolds == Init => IInv
<1> SUFFICES ASSUME Init PROVE IInv
  OBVIOUS
<1>1. /\ pc \in [Workers -> {"idle", "write", "log", "read", "note"}]
      /\ job \in [Workers -> Job \cup {NoJob}]
      /\ \A w \in Workers : pc[w] = "idle" /\ job[w] = NoJob
  BY DEF Init
<1>2. calls \in 0..MaxCalls /\ written \in Seq(Commit) /\ profile \in Stored \cup {Absent}
  BY StoreAssumption DEF StoreAssumption, Init, Stored
<1>3. TypeOK
  BY <1>1, <1>2 DEF Init, TypeOK
<1>4. Staged
  BY <1>1 DEF Staged, Stage
<1>5. events = {} /\ \A op, outcome : Replies(op, outcome) = {}
  BY DEF Init, Replies
<1>6. AnswersHold
  BY <1>5 DEF Init, AnswersHold, EventsMatchWrites, RowsAreListed, AnnotationsOnlyGrow,
              WatchAnswersExplained, ShownUnderGates
<1> QED
  BY <1>3, <1>4, <1>6 DEF IInv

LEMMA NextKeeps == IInv /\ [Next]_vars => IInv'
<1> SUFFICES ASSUME IInv, [Next]_vars PROVE IInv'
  OBVIOUS
<1>1. ASSUME NEW w \in Workers, Serve(w) PROVE IInv'
  BY <1>1, WriteKeeps, LogKeeps, ReadKeeps, NoteInvalidKeeps DEF Serve
<1>2. ASSUME NEW w \in Workers, NEW operation \in Operation, Arrive(w, operation) PROVE IInv'
  BY <1>2, ArriveKeeps
<1>3. CASE Restart
  BY <1>3, RestartKeeps
<1>4. CASE UNCHANGED vars
  <2>1. TypeOK'
    BY <1>4 DEF vars, tables, IInv, TypeOK
  <2>2. Staged'
    BY <1>4 DEF vars, tables, IInv, Staged, Stage, Wrote, Noted, Explained
  <2>3. AnswersHold'
    BY <1>4 DEF vars, tables, IInv, AnswersHold, EventsMatchWrites, RowsAreListed,
                AnnotationsOnlyGrow, WatchAnswersExplained, ShownUnderGates, Replies, Committed
  <2> QED
    BY <2>1, <2>2, <2>3 DEF IInv
<1> QED
  BY <1>1, <1>2, <1>3, <1>4 DEF Next

LEMMA Invariance == Spec => []IInv
BY InitHolds, NextKeeps, PTL DEF Spec

---------------------------------------------------------------------------
(* The tables and the threads always hold values of their types.            *)
THEOREM TypeCorrect == Spec => []TypeOK
<1>1. IInv => TypeOK
  BY DEF IInv
<1> QED
  BY <1>1, Invariance, PTL

(* platform.py:192-300: with any threads and any failing transaction, a     *)
(* write is answered only with its event, and an event tells of a write.    *)
THEOREM EventsTellOfWrites == Spec => []EventsMatchWrites
<1>1. IInv => EventsMatchWrites
  BY DEF IInv, AnswersHold
<1> QED
  BY <1>1, Invariance, PTL

(* platform.py:275-305: a listing holds the annotation of its own call and   *)
(* all that any earlier listing has shown.                                  *)
THEOREM AnnotationsGrow == Spec => []AnnotationsOnlyGrow
<1>1. IInv => AnnotationsOnlyGrow
  BY DEF IInv, AnswersHold
<1> QED
  BY <1>1, Invariance, PTL

(* platform.py:261-280: the list a watchlist call is answered with differs  *)
(* from what the call did only because of a write committed after it.       *)
THEOREM ListingsAreExplained == Spec => []WatchAnswersExplained
<1>1. IInv => WatchAnswersExplained
  BY DEF IInv, AnswersHold
<1> QED
  BY <1>1, Invariance, PTL

(* garmin_switching.py:105-112: the gate shown is the one the policy would  *)
(* refuse with, for every whitelisted command.                              *)
THEOREM ShownGateIsTrue == Spec => []ShownGateIsPolicys
<1>1. ShownUnderGates => ShownGateIsPolicys
  BY GateIsPolicys DEF ShownUnderGates, ShownGateIsPolicys
<1>2. IInv => ShownGateIsPolicys
  BY <1>1 DEF IInv, AnswersHold
<1> QED
  BY <1>2, Invariance, PTL
=============================================================================
