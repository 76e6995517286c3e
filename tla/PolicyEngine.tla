---------------------------- MODULE PolicyEngine ----------------------------
(***************************************************************************)
(* PolicyEngine.evaluate (safety/policy.py) called by one thread at a      *)
(* time: the decision, the limiter's queues in memory, the row in          *)
(* command_audit, and a process that may die between two calls and come back  *)
(* with other settings.  CommandService interleaves the same steps.        *)
(***************************************************************************)
EXTENDS PolicyRules, FiniteSets

CONSTANTS Requests,      \* the requests clients make
          GateChoices,   \* the gates a process may be configured with
          Window,        \* command_rate_limit_window_sec
          MaxAttempts,   \* command_rate_limit_max_attempts
          StoreMayFail,  \* can the insert into command_audit raise?
          MaxTime,       \* bound on the clock
          MaxDecided,    \* bound on the limiter's decisions per key
          MaxRows        \* bound on the rows of command_audit

\* int(os.getenv(...)) accepts any integer for the two limits.
ASSUME PolicyAssumption ==
    /\ Requests \subseteq CommandRequest
    /\ GateChoices \subseteq Gates
    /\ Window \in Int
    /\ MaxAttempts \in Int
    /\ StoreMayFail \in BOOLEAN
    /\ MaxTime \in Nat
    /\ MaxDecided \in Nat
    /\ MaxRows \in Nat

VARIABLES settings,   \* the gates of the running process
          now,        \* datetime.now
          attempts,   \* PolicyEngine._attempts
          audit,      \* the table command_audit
          history,    \* auxiliary: what the limiter decided in this life
          firstRow    \* auxiliary: rows of command_audit older than this life

vars == <<settings, now, attempts, audit, history, firstRow>>

Times == 0..MaxTime
Attempt == [ts : Times, approved : BOOLEAN]
Row == [req : Requests, ts : Times, reason : Reasons]

TypeOK ==
    /\ settings \in GateChoices
    /\ now \in Times
    /\ attempts \in [Keys -> Seq(Times)]
    /\ audit \in Seq(Row)
    /\ history \in [Keys -> Seq(Attempt)]
    /\ firstRow \in 0..Len(audit)

Init ==
    /\ settings \in GateChoices
    /\ now = 0
    /\ attempts = NoAttempts
    /\ audit = <<>>
    /\ history = NoAttempts
    /\ firstRow = 0

---------------------------------------------------------------------------
Tick ==
    /\ now < MaxTime
    /\ now' = now + 1
    /\ UNCHANGED <<settings, attempts, audit, history, firstRow>>

\* log_command inserts the row, or raises and evaluate raises with it.
LogCommandUnaudited == StoreMayFail /\ UNCHANGED audit

LogCommand(req, reason) ==
    \/ /\ Len(audit) < MaxRows
       /\ audit' = Append(audit, [req |-> req, ts |-> now, reason |-> reason])
    \/ LogCommandUnaudited

EvaluateDenied(req) ==
    /\ StaticReason(settings, req) # "none"
    /\ LogCommand(req, StaticReason(settings, req))
    /\ UNCHANGED <<settings, now, attempts, history, firstRow>>

\* Mutant of Queued: the threshold is recorded in place of the timestamp.
QueuedThreshold(queue, k) == Append(SubSeq(queue, k + 1, Len(queue)), now - Window)

\* The queue after the call, when k entries were pruned.
Queued(queue, k) == Append(SubSeq(queue, k + 1, Len(queue)), now)

\* Mutant of Approves: the limit itself is refused.
ApprovesBelow(queue) == Len(queue) < MaxAttempts

Approves(queue) == Len(queue) <= MaxAttempts

EvaluateLimited(req) ==
    LET key == Key(req)
    IN  /\ StaticReason(settings, req) = "none"
        /\ Len(history[key]) < MaxDecided
        /\ \E k \in 0..Len(attempts[key]) :
              LET queue == Queued(attempts[key], k)
              IN  /\ Prunes(attempts[key], now - Window, k)
                  /\ attempts' = [attempts EXCEPT ![key] = queue]
                  /\ history' = [history EXCEPT ![key] =
                         Append(@, [ts |-> now, approved |-> Approves(queue)])]
                  /\ LogCommand(req, IF Approves(queue) THEN "approved" ELSE "rate_limited")
        /\ UNCHANGED <<settings, now, firstRow>>

\* The process ends and systemd starts another one: memory is lost, the
\* database stays, the environment file may have changed.
Restart ==
    /\ settings' \in GateChoices
    /\ attempts' = NoAttempts
    /\ history' = NoAttempts
    /\ firstRow' = Len(audit)
    /\ UNCHANGED <<now, audit>>

Next ==
    \/ Tick
    \/ \E req \in Requests : EvaluateDenied(req) \/ EvaluateLimited(req)
    \/ Restart

Spec == Init /\ [][Next]_vars

---------------------------------------------------------------------------
\* The attempts of h that the window ending at its j-th still covers.
Covered(h, j) == { i \in 1..j : h[i].ts >= h[j].ts - Window }

(* policy.py:98-108: a window that ends at an approved attempt holds at     *)
(* most MaxAttempts approved ones of that command, counted by the clock     *)
(* stamped on them, whatever was pruned in between.                         *)
RateBound ==
    \A key \in Keys : \A j \in 1..Len(history[key]) :
        history[key][j].approved =>
            Cardinality({ i \in Covered(history[key], j) : history[key][i].approved })
                <= MaxAttempts

\* The rows of this life whose request reached the limiter with that key.
Limited(key) ==
    { i \in (firstRow + 1)..Len(audit) :
        Key(audit[i].req) = key /\ audit[i].reason \in {"approved", "rate_limited"} }

(* policy.py:51-66: an operator who reads command_audit can account for      *)
(* every rate_limited row: in its window and before it there are at least   *)
(* MaxAttempts rows of the same command and the same life of the process,   *)
(* however the domain was spelled, but for the attempts whose insert failed.*)
AuditExplainsDenial ==
    \A j \in (firstRow + 1)..Len(audit) :
        audit[j].reason = "rate_limited" =>
            LET key == Key(audit[j].req)
                before == { i \in Limited(key) : i < j /\ audit[i].ts >= audit[j].ts - Window }
                unaudited == Len(history[key]) - Cardinality(Limited(key))
            IN  Cardinality(before) + unaudited >= MaxAttempts

(* policy.py:98-108: the engine keeps the limiter's promise.                *)
Limiter == INSTANCE SlidingWindow
             WITH history <- history, Keys <- Keys, Times <- Times,
                  Window <- Window, MaxAttempts <- MaxAttempts
KeepsPromise == Limiter!Spec
=============================================================================
