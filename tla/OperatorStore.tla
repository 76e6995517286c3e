--------------------------- MODULE OperatorStore ---------------------------
(***************************************************************************)
(* What operators keep in the database through the debug pages: the Garmin *)
(* switch-bank template, the PGN watchlist and the capture annotations     *)
(* (services/platform.py over storage/repositories.py).  Each call makes   *)
(* several transactions: it may read first, it writes its table, it logs   *)
(* a system event, it reads back what it answers with.  Calls run in the   *)
(* threads of the server's pool; a transaction is atomic, a call is not.   *)
(***************************************************************************)
EXTENDS PolicyRules, FiniteSets

CONSTANTS Workers,       \* the threads of the server's pool
          Templates,     \* switch-bank templates the schema accepts
          Pgns,          \* PGNs put on the watchlist
          GateChoices,   \* the gates a process may be started with
          StoreMayFail,  \* may a transaction raise?
          MaxCalls       \* bound on the calls operators make

ASSUME StoreAssumption ==
    /\ GateChoices \subseteq Gates
    /\ StoreMayFail \in BOOLEAN
    /\ MaxCalls \in Nat

VARIABLES settings,     \* the gates of the running process
          profile,      \* garmin_switch_bank_config: the one row, or none
          watchlist,    \* pgn_watchlist: the PGNs that have a row
          annotations,  \* capture_annotations, as the calls that made the rows
          events,       \* system_events
          pc,           \* where each thread is
          job,          \* the call each thread serves
          calls,        \* how many calls were made; a call's id is its number
          replies,      \* the answers operators got
          written       \* auxiliary: the writes in the order they were committed, each
                        \* with the template before it

tables == <<profile, watchlist, annotations>>
vars == <<settings, tables, events, pc, job, calls, replies, written>>

\* No template or answer; a row that some earlier release left and that
\* build_switch_bank_profile_from_template cannot read; the built-in template.
Absent == "absent"
Unreadable == "unreadable"
Default == "default"
Stored == {Unreadable} \cup Templates

Operation ==
    [op : {"update"}, new : Templates] \cup
    [op : {"upsert", "remove"}, pgn : Pgns] \cup
    [op : {"annotate", "profile"}]

Writing == {"update", "upsert", "remove", "annotate"}

Job == [id : 1..MaxCalls, operation : Operation, previous : Stored \cup {Absent}]
NoJob == [id |-> 0]
Event == [id : 1..MaxCalls, kind : Writing \cup {"profile_invalid"},
          previous : Stored \cup {Absent}]
GateReasons == {"emergency_disable_enabled", "read_only_mode_enabled",
                "write_enable_disabled", "eligible_if_policy_approved"}
Nothing == [template |-> Absent, gate_reason |-> Absent]
Answer == [template : {Default} \cup Templates, gate_reason : GateReasons]
\* rows: the annotations listed, or the PGNs.
Given == [id : 1..MaxCalls, operation : Operation, outcome : {"ok", "error"},
          shown : Answer \cup {Nothing}, rows : SUBSET ((1..MaxCalls) \cup Pgns),
          settings : GateChoices]
Commit == [id : 1..MaxCalls, operation : Operation, before : Stored \cup {Absent}]

TypeOK ==
    /\ settings \in GateChoices
    /\ profile \in Stored \cup {Absent}
    /\ watchlist \subseteq Pgns
    /\ annotations \subseteq 1..MaxCalls
    /\ events \subseteq Event
    /\ pc \in [Workers -> {"idle", "write", "log", "read", "note"}]
    /\ job \in [Workers -> Job \cup {NoJob}]
    /\ \A w \in Workers : job[w] = NoJob <=> pc[w] = "idle"
    /\ calls \in 0..MaxCalls
    /\ replies \subseteq Given
    /\ written \in Seq(Commit)

Init ==
    /\ settings \in GateChoices
    /\ profile \in {Absent, Unreadable}
    /\ watchlist = {}
    /\ annotations = {}
    /\ events = {}
    /\ pc = [w \in Workers |-> "idle"]
    /\ job = [w \in Workers |-> NoJob]
    /\ calls = 0
    /\ replies = {}
    /\ written = <<>>

---------------------------------------------------------------------------
\* Mutant of GateReason: the read-only gate is not consulted.
GateReasonReadOnlyIgnored(s) ==
    IF s.emergency_disable THEN "emergency_disable_enabled"
    ELSE IF ~s.write_enable THEN "write_enable_disabled"
    ELSE "eligible_if_policy_approved"

\* _gate_reason of garmin_switching.py.
GateReason(s) ==
    IF s.emergency_disable THEN "emergency_disable_enabled"
    ELSE IF s.read_only_mode THEN "read_only_mode_enabled"
    ELSE IF ~s.write_enable THEN "write_enable_disabled"
    ELSE "eligible_if_policy_approved"

\* The profile served for a stored template: the default one in place of none
\* and of one that cannot be read, under the gates of the running process.
Effective(stored) ==
    [template |-> IF stored \in {Absent, Unreadable} THEN Default ELSE stored,
     gate_reason |-> GateReason(settings)]

Goto(w, label) == pc' = [pc EXCEPT ![w] = label]

\* Mutant of Reply: the thread keeps the call it has answered.
ReplyKeepsJob(w, outcome, shown, rows) ==
    /\ replies' = replies \cup {[id |-> job[w].id, operation |-> job[w].operation,
                                 outcome |-> outcome, shown |-> shown, rows |-> rows,
                                 settings |-> settings]}
    /\ Goto(w, "idle")
    /\ UNCHANGED job

Reply(w, outcome, shown, rows) ==
    /\ replies' = replies \cup {[id |-> job[w].id, operation |-> job[w].operation,
                                 outcome |-> outcome, shown |-> shown, rows |-> rows,
                                 settings |-> settings]}
    /\ Goto(w, "idle")
    /\ job' = [job EXCEPT ![w] = NoJob]

\* A transaction of the call raises, and the call with it.
Raises(w) == StoreMayFail /\ Reply(w, "error", Nothing, {})

\* A call arrives; an update reads the template it will call previous.
Arrive(w, operation) ==
    /\ pc[w] = "idle"
    /\ calls < MaxCalls
    /\ calls' = calls + 1
    /\ job' = [job EXCEPT ![w] = [id |-> calls', operation |-> operation,
                  previous |-> IF operation.op = "update" THEN profile ELSE Absent]]
    /\ Goto(w, IF operation.op = "profile" THEN "read" ELSE "write")
    /\ UNCHANGED <<settings, tables, events, replies, written>>

Written(w) == written' = Append(written, [id |-> job[w].id, operation |-> job[w].operation,
                                          before |-> profile])

WriteProfile(w) ==
    /\ job[w].operation.op = "update"
    /\ profile' = job[w].operation.new
    /\ UNCHANGED <<watchlist, annotations>>

\* INSERT ... ON CONFLICT(pgn) DO UPDATE.
UpsertWatch(w) ==
    /\ job[w].operation.op = "upsert"
    /\ watchlist' = watchlist \cup {job[w].operation.pgn}
    /\ UNCHANGED <<profile, annotations>>

RemoveWatch(w) ==
    /\ job[w].operation.op = "remove"
    /\ watchlist' = watchlist \ {job[w].operation.pgn}
    /\ UNCHANGED <<profile, annotations>>

Annotate(w) ==
    /\ job[w].operation.op = "annotate"
    /\ annotations' = annotations \cup {job[w].id}
    /\ UNCHANGED <<profile, watchlist>>

\* Mutant of Write: a transaction that fails is taken for one that succeeded.
WriteSwallows(w) ==
    /\ pc[w] = "write"
    /\ Goto(w, "log")
    /\ UNCHANGED <<job, replies>>
    /\ \/ (WriteProfile(w) \/ UpsertWatch(w) \/ RemoveWatch(w) \/ Annotate(w)) /\ Written(w)
       \/ StoreMayFail /\ UNCHANGED <<tables, written>>
    /\ UNCHANGED <<settings, events, calls>>

Write(w) ==
    /\ pc[w] = "write"
    /\ \/ /\ WriteProfile(w) \/ UpsertWatch(w) \/ RemoveWatch(w) \/ Annotate(w)
          /\ Written(w)
          /\ Goto(w, "log")
          /\ UNCHANGED <<job, replies>>
       \/ Raises(w) /\ UNCHANGED <<tables, written>>
    /\ UNCHANGED <<settings, events, calls>>

Log(w) ==
    /\ pc[w] = "log"
    /\ \/ /\ events' = events \cup {[id |-> job[w].id, kind |-> job[w].operation.op,
                                     previous |-> job[w].previous]}
          /\ Goto(w, "read")
          /\ UNCHANGED <<job, replies>>
       \/ Raises(w) /\ UNCHANGED events
    /\ UNCHANGED <<settings, tables, calls, written>>

\* What the call answers with is read in a transaction of its own.
ReadProfile(w) ==
    /\ job[w].operation.op \in {"update", "profile"}
    /\ IF profile = Unreadable
         THEN Goto(w, "note") /\ UNCHANGED <<job, replies>>
         ELSE Reply(w, "ok", Effective(profile), {})

\* Mutant of ListedRows: the annotations are those before the call's write.
ListedRowsStale(w) ==
    IF job[w].operation.op = "annotate" THEN annotations \ {job[w].id} ELSE watchlist

\* Mutant of ListedRows: the row the call has named is always listed.
ListedRowsOwn(w) ==
    IF job[w].operation.op = "annotate" THEN annotations
    ELSE watchlist \cup {job[w].operation.pgn}

\* list_by_session or list_all.
ListedRows(w) == IF job[w].operation.op = "annotate" THEN annotations ELSE watchlist

ReadRows(w) ==
    /\ job[w].operation.op \in {"upsert", "remove", "annotate"}
    /\ Reply(w, "ok", Nothing, ListedRows(w))

Read(w) ==
    /\ pc[w] = "read"
    /\ ReadProfile(w) \/ ReadRows(w) \/ Raises(w)
    /\ UNCHANGED <<settings, tables, events, calls, written>>

\* The event garmin_switch_bank_profile_invalid, then the default profile.
NoteInvalid(w) ==
    /\ pc[w] = "note"
    /\ \/ /\ events' = events \cup {[id |-> job[w].id, kind |-> "profile_invalid",
                                     previous |-> Absent]}
          /\ Reply(w, "ok", Effective(Absent), {})
       \/ Raises(w) /\ UNCHANGED events
    /\ UNCHANGED <<settings, tables, calls, written>>

---------------------------------------------------------------------------
Restart ==
    /\ settings' \in GateChoices
    /\ pc' = [w \in Workers |-> "idle"]
    /\ job' = [w \in Workers |-> NoJob]
    /\ UNCHANGED <<tables, events, calls, replies, written>>

Serve(w) == Write(w) \/ Log(w) \/ Read(w) \/ NoteInvalid(w)

Next == \/ \E w \in Workers : Serve(w) \/ \E operation \in Operation : Arrive(w, operation)
        \/ Restart

Spec == Init /\ [][Next]_vars

---------------------------------------------------------------------------
Committed == { written[i] : i \in 1..Len(written) }
Replies(op, outcome) == { r \in replies : r.operation.op = op /\ r.outcome = outcome }

(* platform.py:192-300: an operator's write is answered "ok" only when its  *)
(* own event is in system_events, and an event is there only for a write    *)
(* that was committed.                                                      *)
EventsMatchWrites ==
    /\ \A op \in Writing : \A r \in Replies(op, "ok") :
           \E e \in events : e.id = r.id /\ e.kind = op
    /\ \A e \in events : e.kind \in Writing => \E x \in Committed : x.id = e.id

(* platform.py:275-305: annotations are never deleted, so the list a call   *)
(* answers with holds its own, whatever other calls do in between, and any  *)
(* two operators were shown lists of which one continues the other.         *)
AnnotationsOnlyGrow ==
    \A r, s \in Replies("annotate", "ok") :
        r.id \in r.rows /\ (r.rows \subseteq s.rows \/ s.rows \subseteq r.rows)

(* platform.py:261-280: the list that a watchlist call answers with shows   *)
(* what the call has done, unless another call undid it in between: a PGN   *)
(* upserted is missing only if a removal of it was committed later, and one *)
(* removed is there only if an upsert was.                                  *)
WatchAnswersExplained ==
    \A op \in {"upsert", "remove"} : \A r \in Replies(op, "ok") :
        (r.operation.pgn \in r.rows) # (op = "upsert") =>
            \E i, j \in 1..Len(written) :
                /\ i < j
                /\ written[i].id = r.id
                /\ written[j].operation =
                       [op |-> IF op = "upsert" THEN "remove" ELSE "upsert", pgn |-> r.operation.pgn]

(* garmin_switching.py:105-112: the profile shown to an operator names the   *)
(* very gate that the policy would refuse a whitelisted command with, under *)
(* the settings of the process that answered.                               *)
ShownGateIsPolicys ==
    \A r \in replies : r.shown # Nothing =>
        \A e \in DEFAULT_WHITELIST :
            LET req == [domain |-> [word |-> e.domain, dressed |-> FALSE],
                        command |-> e.command, params |-> e.required]
                reason == StaticReason(r.settings, req)
            IN  IF reason = "none" THEN r.shown.gate_reason = "eligible_if_policy_approved"
                                   ELSE r.shown.gate_reason = reason

(* docs/garmin-glass-cockpit-integration-notes.md:134: an update that was   *)
(* answered "ok" has an event with the template it really replaced.         *)
SnapshotsAreTrue ==
    \A r \in Replies("update", "ok") :
        \E e \in events, x \in Committed :
            e.id = r.id /\ e.kind = "update" /\ x.id = r.id /\ e.previous = x.before
=============================================================================
