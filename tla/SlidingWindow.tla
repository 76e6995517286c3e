--------------------------- MODULE SlidingWindow ---------------------------
(***************************************************************************)
(* What the limiter promises its callers, with no queue in it: an attempt  *)
(* on a key is approved exactly when fewer than MaxAttempts attempts on    *)
(* that key, approved or not, have a timestamp in the window that ends at  *)
(* its own.  The promise is about one life of the process: a new one       *)
(* starts with nothing remembered.                                         *)
(***************************************************************************)
EXTENDS Integers, Sequences, FiniteSets

CONSTANTS Keys,          \* what is limited separately
          Times,         \* the timestamps that can occur
          Window,        \* command_rate_limit_window_sec
          MaxAttempts    \* command_rate_limit_max_attempts

VARIABLE history         \* per key, the attempts in the order they were decided

Attempt == [ts : Times, approved : BOOLEAN]

\* The attempts before the j-th whose timestamp its window still covers.
Recent(h, j) == { i \in 1..(j - 1) : h[i].ts >= h[j].ts - Window }

Promise(h, j) == h[j].approved <=> Cardinality(Recent(h, j)) < MaxAttempts

Init == history = [k \in Keys |-> <<>>]

Decide(k, ts, approved) ==
    LET h == Append(history[k], [ts |-> ts, approved |-> approved])
    IN  /\ \A i \in 1..Len(history[k]) : history[k][i].ts <= ts
        /\ Promise(h, Len(h))
        /\ history' = [history EXCEPT ![k] = h]

Forget == history' = [k \in Keys |-> <<>>]

Next == \/ \E k \in Keys, ts \in Times, approved \in BOOLEAN : Decide(k, ts, approved)
        \/ Forget

Spec == Init /\ [][Next]_history
=============================================================================
