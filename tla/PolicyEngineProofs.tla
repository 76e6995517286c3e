------------------------- MODULE PolicyEngineProofs -------------------------
(***************************************************************************)
(* Proofs about PolicyEngine for every window, every limit and every set   *)
(* of requests and settings: its types, the rate bound, that it implements *)
(* SlidingWindow, and that command_audit explains every refusal.           *)
(***************************************************************************)
EXTENDS PolicyEngine, TLAPS, FiniteSetTheorems, SequenceTheorems

\* The queue is the tail of what was attempted, in order, and everything that
\* was pruned lies outside the window of the latest attempt.
IsRecent(queue, h) ==
    LET gone == Len(h) - Len(queue)
    IN  /\ gone >= 0
        /\ \A i \in 1..Len(queue) : queue[i] = h[gone + i].ts
        /\ \A i \in 1..gone : h[i].ts < h[Len(h)].ts - Window

\* policy.py:102-107: what was forgotten of a command can matter neither to its
\* latest attempt nor to any later one.
QueueIsRecent == \A key \in Keys : IsRecent(attempts[key], history[key])

\* The clock does not run backwards, so attempts are recorded in its order.
InOrder(h, t) ==
    /\ \A i, j \in 1..Len(h) : i <= j => h[i].ts <= h[j].ts
    /\ \A i \in 1..Len(h) : h[i].ts <= t

HistoryInOrder == \A key \in Keys : InOrder(history[key], now)

PromisesKept ==
    \A key \in Keys : \A j \in 1..Len(history[key]) : Limiter!Promise(history[key], j)

IInv == TypeOK /\ QueueIsRecent /\ HistoryInOrder /\ PromisesKept

---------------------------------------------------------------------------
(* Only a whitelisted command reaches the limiter (policy.py:84-87).        *)
LEMMA LimitedIsWhitelisted ==
    ASSUME NEW s, NEW req, StaticReason(s, req) = "none"
    PROVE  Key(req) \in Keys
BY DEF StaticReason

(* An interval of indices has as many members as its ends say.              *)
LEMMA IndexInterval ==
    ASSUME NEW a \in Nat, NEW b \in Nat, a <= b
    PROVE  IsFiniteSet((a + 1)..b) /\ Cardinality((a + 1)..b) = b - a
<1>1. a + 1 \in Int /\ b \in Int
  OBVIOUS
<1>2. IsFiniteSet((a + 1)..b) /\
      Cardinality((a + 1)..b) = IF a + 1 > b THEN 0 ELSE b - (a + 1) + 1
  BY <1>1, FS_Interval
<1> QED
  BY <1>2

(* The abstract specification counts with the same operator.                *)
LEMMA SameCardinality ==
    ASSUME NEW S
    PROVE  Limiter!Cardinality(S) = Cardinality(S)
BY DEF Limiter!Cardinality, Cardinality

\* The queue q holds the last m of the n timestamps of h.  What the call at t
\* prunes or had pruned lies outside its window, and the rest inside.
LEMMA WindowSplit ==
    ASSUME NEW q, NEW h, NEW m \in Nat, NEW n \in Nat, NEW k \in 0..m, NEW t \in Int,
           NEW W \in Int, m <= n,
           \A i \in 1..n : h[i].ts \in Int,
           \A i \in 1..m : q[i] = h[n - m + i].ts,
           \A i \in 1..(n - m) : h[i].ts < h[n].ts - W,
           \A i \in 1..n : h[i].ts <= t,
           \A i, j \in 1..n : i <= j => h[i].ts <= h[j].ts,
           \A i \in 1..k : q[i] < t - W,
           k < m => q[k + 1] >= t - W
    PROVE  /\ \A i \in 1..(n - m + k) : h[i].ts < t - W
           /\ \A i \in (n - m + k + 1)..n : h[i].ts >= t - W
<1>1. ASSUME NEW i \in 1..(n - m + k) PROVE h[i].ts < t - W
  <2>1. CASE i <= n - m
    <3>1. i \in 1..(n - m) /\ i \in 1..n /\ n \in 1..n
      BY <2>1
    <3>2. h[i].ts < h[n].ts - W /\ h[n].ts <= t /\ h[i].ts \in Int /\ h[n].ts \in Int
      BY <3>1
    <3> QED
      BY <3>2
  <2>2. CASE i > n - m
    <3>1. i - (n - m) \in 1..k /\ i - (n - m) \in 1..m /\ n - m + (i - (n - m)) = i
      BY <2>2
    <3> QED
      BY <3>1
  <2> QED
    BY <2>1, <2>2
<1>2. ASSUME NEW i \in (n - m + k + 1)..n PROVE h[i].ts >= t - W
  <2>1. /\ k < m /\ k + 1 \in 1..m /\ n - m + (k + 1) = n - m + k + 1
        /\ n - m + k + 1 \in 1..n /\ i \in 1..n /\ n - m + k + 1 <= i
    OBVIOUS
  <2>2. q[k + 1] = h[n - m + k + 1].ts /\ h[n - m + k + 1].ts <= h[i].ts
    BY <2>1
  <2>3. h[n - m + k + 1].ts \in Int /\ h[i].ts \in Int
    BY <2>1
  <2> QED
    BY <2>1, <2>2, <2>3
<1> QED
  BY <1>1, <1>2

---------------------------------------------------------------------------
(* One call of _is_rate_limited: the queue stays the recent tail of the     *)
(* history, the history stays in order, and the verdict is the promised one.*)
LEMMA LimiterCall ==
    ASSUME NEW q \in Seq(Int), NEW h \in Seq([ts : Int, approved : BOOLEAN]),
           NEW t \in Int, NEW k \in 0..Len(q),
           Window \in Int, MaxAttempts \in Int,
           IsRecent(q, h), InOrder(h, t), Prunes(q, t - Window, k),
           NEW q1, q1 = Append(SubSeq(q, k + 1, Len(q)), t),
           NEW h1, h1 = Append(h, [ts |-> t, approved |-> Approves(q1)])
    PROVE  /\ IsRecent(q1, h1)
           /\ InOrder(h1, t)
           /\ Limiter!Promise(h1, Len(h1))
<1> DEFINE m == Len(q)
           n == Len(h)
           gone == n - m + k
<1>0. m = Len(q) /\ n = Len(h) /\ gone = n - m + k
  OBVIOUS
<1>1. m \in Nat /\ n \in Nat /\ k \in 0..m /\ m <= n /\ gone \in Nat /\ gone <= n
  BY DEF IsRecent
<1>2. /\ SubSeq(q, k + 1, m) \in Seq(Int)
      /\ Len(SubSeq(q, k + 1, m)) = m - k
      /\ \A i \in 1..(m - k) : SubSeq(q, k + 1, m)[i] = q[k + i]
  <2>1. \A i \in (k + 1)..m : q[i] \in Int
    BY <1>1
  <2>2. /\ SubSeq(q, k + 1, m) \in Seq(Int)
        /\ Len(SubSeq(q, k + 1, m)) = IF k + 1 <= m THEN m - (k + 1) + 1 ELSE 0
        /\ \A i \in 1..(m - (k + 1) + 1) : SubSeq(q, k + 1, m)[i] = q[(k + 1) + i - 1]
    BY <1>1, <2>1, SubSeqProperties
  <2>3. m - (k + 1) + 1 = m - k
    BY <1>1
  <2>4. Len(SubSeq(q, k + 1, m)) = m - k
    BY <1>1, <2>2
  <2>5. ASSUME NEW i \in 1..(m - k) PROVE SubSeq(q, k + 1, m)[i] = q[k + i]
    <3>1. i \in 1..(m - (k + 1) + 1) /\ (k + 1) + i - 1 = k + i
      BY <1>1
    <3> QED
      BY <2>2, <3>1
  <2> QED
    BY <2>2, <2>4, <2>5
<1>3. /\ Len(q1) = m - k + 1
      /\ \A i \in 1..(m - k) : q1[i] = q[k + i]
      /\ q1[m - k + 1] = t
  BY <1>2, AppendProperties
<1>4. /\ Len(h1) = n + 1
      /\ \A i \in 1..n : h1[i] = h[i]
      /\ h1[n + 1].ts = t
      /\ h1[n + 1].approved = Approves(q1)
      /\ \A i \in 1..n : h[i].ts \in Int
  <2> DEFINE A == [ts : Int, approved : BOOLEAN]
             e == [ts |-> t, approved |-> Approves(q1)]
  <2>1. e \in A /\ h \in Seq(A) /\ h1 = Append(h, e) /\ \A x \in A : x.ts \in Int
    BY DEF Approves
  <2>2. e.ts = t /\ e.approved = Approves(q1)
    OBVIOUS
  <2> HIDE DEF A, e
  <2>3. Len(h1) = n + 1 /\ h1[n + 1] = e /\ \A i \in 1..n : h1[i] = h[i]
    BY <2>1, AppendProperties
  <2>4. \A i \in 1..n : h[i].ts \in Int
    BY <2>1
  <2> QED
    BY <2>2, <2>3, <2>4
<1>5. /\ \A i \in 1..m : q[i] = h[n - m + i].ts
      /\ \A i \in 1..(n - m) : h[i].ts < h[n].ts - Window
  BY Zenon DEF IsRecent
<1>6. /\ \A i \in 1..n : h[i].ts <= t
      /\ \A i, j \in 1..n : i <= j => h[i].ts <= h[j].ts
  BY Zenon DEF InOrder
<1>7. /\ \A i \in 1..k : q[i] < t - Window
      /\ k < m => q[k + 1] >= t - Window
  BY Zenon DEF Prunes
<1> HIDE DEF m, n, gone
<1>8. \A i \in 1..n : h[i].ts \in Int
  BY <1>4
<1>9. /\ \A i \in 1..gone : h[i].ts < t - Window
      /\ \A i \in (gone + 1)..n : h[i].ts >= t - Window
  <2>1. /\ \A i \in 1..(n - m + k) : h[i].ts < t - Window
        /\ \A i \in (n - m + k + 1)..n : h[i].ts >= t - Window
    BY <1>1, <1>5, <1>6, <1>7, <1>8, WindowSplit, Zenon
  <2> QED
    BY <2>1, <1>0, Zenon
<1>10. IsRecent(q1, h1)
  <2>1. Len(h1) - Len(q1) = gone
    <3>1. (n + 1) - (m - k + 1) = n - m + k
      BY <1>1
    <3> QED
      BY <3>1, <1>0, <1>3, <1>4
  <2>2. ASSUME NEW i \in 1..(m - k + 1) PROVE q1[i] = h1[gone + i].ts
    <3>1. CASE i <= m - k
      <4>1. i \in 1..(m - k) /\ k + i \in 1..m /\ gone + i \in 1..n /\ n - m + (k + i) = gone + i
        <5>1. i \in 1..(m - k) /\ k + i \in 1..m
          BY <1>1, <3>1
        <5>2. n - m + (k + i) = (n - m + k) + i /\ (n - m + k) + i \in 1..n
          BY <1>1, <3>1
        <5> QED
          BY <5>1, <5>2, <1>0
      <4>2. q1[i] = q[k + i]
        BY <4>1, <1>3, Zenon
      <4>3. q[k + i] = h[n - m + (k + i)].ts
        BY <4>1, <1>5, Zenon
      <4>4. h1[gone + i] = h[gone + i]
        BY <4>1, <1>4, Zenon
      <4> QED
        BY <4>1, <4>2, <4>3, <4>4, Zenon
    <3>2. CASE i = m - k + 1
      <4>1. gone + i = n + 1
        BY <3>2, <1>0, <1>1
      <4> QED
        BY <4>1, <3>2, <1>3, <1>4
    <3>3. i <= m - k \/ i = m - k + 1
      BY <1>1
    <3> QED
      BY <3>1, <3>2, <3>3
  <2>3. ASSUME NEW i \in 1..gone PROVE h1[i].ts < h1[Len(h1)].ts - Window
    <3>1. i \in 1..n
      BY <1>1
    <3> QED
      BY <3>1, <1>4, <1>9
  <2>4. \A i \in 1..Len(q1) : q1[i] = h1[gone + i].ts
    BY <2>2, <1>3
  <2> QED
    <3>1. Len(h1) - Len(q1) >= 0
      BY <2>1, <1>1
    <3>2. \A i \in 1..Len(q1) : q1[i] = h1[(Len(h1) - Len(q1)) + i].ts
      BY <2>1, <2>4, Zenon
    <3>3. \A i \in 1..(Len(h1) - Len(q1)) : h1[i].ts < h1[Len(h1)].ts - Window
      BY <2>1, <2>3, Zenon
    <3> QED
      BY <3>1, <3>2, <3>3, Zenon DEF IsRecent
<1>11. InOrder(h1, t)
  <2>1. ASSUME NEW i \in 1..Len(h1) PROVE h1[i].ts <= t /\ h1[i].ts \in Int
    <3>1. i \in 1..n \/ i = n + 1
      BY <1>1, <1>4
    <3> QED
      BY <3>1, <1>0, <1>4 DEF InOrder
  <2>2. ASSUME NEW i \in 1..Len(h1), NEW j \in 1..Len(h1), i <= j
        PROVE  h1[i].ts <= h1[j].ts
    <3>1. CASE j = n + 1
      BY <3>1, <2>1, <1>4
    <3>2. CASE j <= n
      <4>1. i \in 1..n /\ j \in 1..n
        BY <3>2, <2>2, <1>1
      <4> QED
        BY <4>1, <2>2, <1>0, <1>4 DEF InOrder
    <3> QED
      BY <3>1, <3>2, <1>4, <1>1
  <2> QED
    BY <2>1, <2>2 DEF InOrder
<1>12. Limiter!Recent(h1, n + 1) = (gone + 1)..n
  <2>1. ASSUME NEW i \in 1..n
        PROVE  h1[i].ts >= h1[n + 1].ts - Window <=> i \in (gone + 1)..n
    <3>1. i \in 1..gone \/ i \in (gone + 1)..n
      BY <1>1
    <3>2. h1[i].ts = h[i].ts /\ h1[n + 1].ts = t /\ h[i].ts \in Int
      BY <1>4
    <3>3. CASE i \in 1..gone
      <4>1. i \notin (gone + 1)..n
        BY <1>1, <3>3
      <4>2. h[i].ts < t - Window
        BY <3>3, <1>9
      <4>3. ~(h[i].ts >= t - Window)
        BY <4>2, <3>2
      <4> QED
        BY <4>1, <4>3, <3>2
    <3>4. CASE i \in (gone + 1)..n
      BY <3>2, <3>4, <1>9
    <3> QED
      BY <3>1, <3>3, <3>4
  <2>2. (n + 1) - 1 = n /\ (gone + 1)..n \subseteq 1..n
    BY <1>1
  <2> QED
    BY <2>1, <2>2 DEF Limiter!Recent
<1>13. Cardinality(Limiter!Recent(h1, n + 1)) = m - k
  <2>1. n - gone = m - k
    BY <1>0, <1>1
  <2> QED
    BY <2>1, <1>1, <1>12, IndexInterval
<1>14. Limiter!Promise(h1, Len(h1))
  <2>1. h1[n + 1].approved <=> m - k + 1 <= MaxAttempts
    BY <1>3, <1>4 DEF Approves
  <2>2. m - k + 1 <= MaxAttempts <=> m - k < MaxAttempts
    BY <1>1
  <2>3. Limiter!Cardinality(Limiter!Recent(h1, n + 1)) = m - k
    BY <1>13, SameCardinality
  <2>4. Len(h1) = n + 1
    BY <1>4
  <2>5. h1[n + 1].approved
            <=> Limiter!Cardinality(Limiter!Recent(h1, n + 1)) < MaxAttempts
    BY <2>1, <2>2, <2>3
  <2> QED
    BY <2>4, <2>5, Zenon DEF Limiter!Promise
<1> QED
  BY <1>10, <1>11, <1>14

---------------------------------------------------------------------------
(* A sequence over a set is one over a larger set.                          *)
LEMMA WiderSeq ==
    ASSUME NEW S, NEW T, S \subseteq T, NEW s \in Seq(S)
    PROVE  s \in Seq(T)
<1>1. Len(s) \in Nat /\ s \in [1..Len(s) -> S]
  OBVIOUS
<1>2. s \in [1..Len(s) -> T]
  BY <1>1
<1> QED
  BY <1>1, <1>2

(* Timestamps of the clock are integers, and so are those in the queues.    *)
LEMMA Integral ==
    ASSUME TypeOK, NEW key \in Keys
    PROVE  /\ now \in Int
           /\ attempts[key] \in Seq(Int)
           /\ history[key] \in Seq([ts : Int, approved : BOOLEAN])
<1>1. Times \subseteq Int
  BY PolicyAssumption DEF Times
<1>2. Attempt \subseteq [ts : Int, approved : BOOLEAN]
  BY <1>1 DEF Attempt
<1>3. attempts[key] \in Seq(Times) /\ history[key] \in Seq(Attempt) /\ now \in Times
  BY DEF TypeOK
<1>4. attempts[key] \in Seq(Int) /\ history[key] \in Seq([ts : Int, approved : BOOLEAN])
  BY <1>1, <1>2, <1>3, WiderSeq
<1> QED
  BY <1>1, <1>3, <1>4

(* A process starts with declared types (policy.py:40-49).                  *)
LEMMA TypeOKInit == Init => TypeOK
<1> SUFFICES ASSUME Init PROVE TypeOK
  OBVIOUS
<1>1. now \in Times
  BY PolicyAssumption DEF Init, Times
<1>2. \A S : <<>> \in Seq(S)
  OBVIOUS
<1>3. attempts \in [Keys -> Seq(Times)] /\ history \in [Keys -> Seq(Attempt)]
  BY <1>2 DEF Init, NoAttempts
<1>4. audit \in Seq(Row) /\ firstRow \in 0..Len(audit)
  BY DEF Init
<1> QED
  BY <1>1, <1>3, <1>4 DEF Init, TypeOK

(* The row that log_command adds is a row of the table.                     *)
LEMMA LogCommandType ==
    ASSUME TypeOK, NEW req \in Requests, NEW reason \in Reasons,
           LogCommand(req, reason)
    PROVE  audit' \in Seq(Row) /\ Len(audit') >= Len(audit)
<1>1. CASE LogCommandUnaudited
  BY <1>1 DEF LogCommandUnaudited, TypeOK
<1>2. CASE audit' = Append(audit, [req |-> req, ts |-> now, reason |-> reason])
  <2> DEFINE row == [req |-> req, ts |-> now, reason |-> reason]
  <2>1. row \in Row /\ audit \in Seq(Row)
    BY DEF TypeOK, Row
  <2> HIDE DEF row
  <2>2. Append(audit, row) \in Seq(Row) /\ Len(Append(audit, row)) = Len(audit) + 1
    BY <2>1, AppendProperties
  <2>3. Len(audit) \in Nat
    BY <2>1
  <2> QED
    BY <2>2, <2>3, <1>2 DEF row
<1> QED
  BY <1>1, <1>2 DEF LogCommand

(* Every call, tick and restart keeps the declared types.                   *)
LEMMA TypeOKStep == TypeOK /\ [Next]_vars => TypeOK'
<1> SUFFICES ASSUME TypeOK, [Next]_vars PROVE TypeOK'
  OBVIOUS
<1>1. CASE Tick
  BY <1>1, PolicyAssumption DEF Tick, TypeOK, Times
<1>2. ASSUME NEW req \in Requests, EvaluateDenied(req) PROVE TypeOK'
  <2>1. StaticReason(settings, req) \in Reasons
    BY <1>2 DEF EvaluateDenied, StaticReason, Reasons, StaticReasons
  <2>2. audit' \in Seq(Row) /\ Len(audit') >= Len(audit)
    BY <1>2, <2>1, LogCommandType DEF EvaluateDenied
  <2> QED
    BY <1>2, <2>2 DEF EvaluateDenied, TypeOK
<1>3. ASSUME NEW req \in Requests, EvaluateLimited(req) PROVE TypeOK'
  <2> DEFINE key == Key(req)
  <2>1. key \in Keys
    BY <1>3, LimitedIsWhitelisted DEF EvaluateLimited
  <2>2. PICK k \in 0..Len(attempts[key]) :
           LET queue == Queued(attempts[key], k)
           IN  /\ attempts' = [attempts EXCEPT ![key] = queue]
               /\ history' = [history EXCEPT ![key] =
                      Append(@, [ts |-> now, approved |-> Approves(queue)])]
               /\ LogCommand(req, IF Approves(queue) THEN "approved" ELSE "rate_limited")
    BY <1>3 DEF EvaluateLimited
  <2> DEFINE queue == Queued(attempts[key], k)
             a == [ts |-> now, approved |-> Approves(queue)]
  <2>3. attempts[key] \in Seq(Times) /\ history[key] \in Seq(Attempt) /\ now \in Times
    BY <2>1 DEF TypeOK
  <2>4. queue \in Seq(Times)
    <3>1. \A i \in (k + 1)..Len(attempts[key]) : attempts[key][i] \in Times
      BY <2>3
    <3>2. SubSeq(attempts[key], k + 1, Len(attempts[key])) \in Seq(Times)
      BY <2>3, <3>1, SubSeqProperties
    <3> QED
      BY <2>3, <3>2, AppendProperties DEF Queued
  <2>5. Append(history[key], a) \in Seq(Attempt)
    <3>1. a \in Attempt
      BY <2>3 DEF Attempt, Approves
    <3> QED
      BY <2>3, <3>1, AppendProperties
  <2>6. attempts' \in [Keys -> Seq(Times)] /\ history' \in [Keys -> Seq(Attempt)]
    BY <2>1, <2>2, <2>4, <2>5 DEF TypeOK
  <2>7. audit' \in Seq(Row) /\ Len(audit') >= Len(audit)
    BY <2>2, LogCommandType DEF Reasons
  <2>8. UNCHANGED <<settings, now, firstRow>>
    BY <1>3 DEF EvaluateLimited
  <2> QED
    BY <2>6, <2>7, <2>8 DEF TypeOK
<1>4. CASE Restart
  <2>1. \A S : <<>> \in Seq(S)
    OBVIOUS
  <2>2. attempts' \in [Keys -> Seq(Times)] /\ history' \in [Keys -> Seq(Attempt)]
    BY <1>4, <2>1 DEF Restart, NoAttempts
  <2> QED
    BY <1>4, <2>2 DEF Restart, TypeOK
<1>5. CASE UNCHANGED vars
  BY <1>5 DEF vars, TypeOK
<1> QED
  BY <1>1, <1>2, <1>3, <1>4, <1>5 DEF Next

(* Every reachable state has the declared types.                            *)
THEOREM TypeCorrect == Spec => []TypeOK
BY TypeOKInit, TypeOKStep, PTL DEF Spec

---------------------------------------------------------------------------
(* With nothing attempted there is nothing to remember.                     *)
LEMMA NothingIsRecent == IsRecent(<<>>, <<>>)
<1>1. Len(<<>>) = 0 /\ Len(<<>>) - Len(<<>>) = 0
  OBVIOUS
<1>2. 1..0 = {}
  OBVIOUS
<1> QED
  BY <1>1, <1>2 DEF IsRecent

(* A process that has limited nothing satisfies the invariant.              *)
LEMMA IInvInit == Init => IInv
<1> SUFFICES ASSUME Init PROVE IInv
  OBVIOUS
<1>1. TypeOK
  BY TypeOKInit
<1>2. \A key \in Keys : attempts[key] = <<>> /\ history[key] = <<>>
  BY DEF Init, NoAttempts
<1>3. QueueIsRecent
  BY <1>2, NothingIsRecent DEF QueueIsRecent
<1>4. HistoryInOrder /\ PromisesKept
  BY <1>2 DEF HistoryInOrder, InOrder, PromisesKept
<1> QED
  BY <1>1, <1>3, <1>4 DEF IInv

(* A decision adds to one history a promise that is kept, and leaves the    *)
(* earlier ones as they were.                                               *)
LEMMA EarlierPromises ==
    ASSUME NEW h \in Seq([ts : Int, approved : BOOLEAN]),
           NEW a \in [ts : Int, approved : BOOLEAN],
           \A j \in 1..Len(h) : Limiter!Promise(h, j),
           Limiter!Promise(Append(h, a), Len(Append(h, a)))
    PROVE  \A j \in 1..Len(Append(h, a)) : Limiter!Promise(Append(h, a), j)
<1> DEFINE h1 == Append(h, a)
<1>1. Len(h1) = Len(h) + 1 /\ Len(h) \in Nat /\ \A i \in 1..Len(h) : h1[i] = h[i]
  BY AppendProperties
<1>2. Limiter!Promise(h1, Len(h1))
  OBVIOUS
<1> HIDE DEF h1
<1>3. ASSUME NEW j \in 1..Len(h) PROVE Limiter!Promise(h1, j)
  <2>1. \A i \in 1..(j - 1) : h1[i] = h[i]
    BY <1>1
  <2>2. h1[j] = h[j]
    BY <1>1
  <2>3. Limiter!Recent(h1, j) = Limiter!Recent(h, j)
    BY <2>1, <2>2 DEF Limiter!Recent
  <2>4. Limiter!Promise(h, j)
    OBVIOUS
  <2> QED
    BY <2>2, <2>3, <2>4, Zenon DEF Limiter!Promise
<1>4. \A j \in 1..Len(h1) : j \in 1..Len(h) \/ j = Len(h1)
  BY <1>1
<1> QED
  BY <1>2, <1>3, <1>4 DEF h1

(* What one decision does to the history of its command: the step of        *)
(* SlidingWindow, and the parts of the invariant that speak of the command. *)
LEMMA DecisionStep ==
    ASSUME IInv, NEW req \in Requests, EvaluateLimited(req), NEW key, key = Key(req)
    PROVE  /\ key \in Keys
           /\ \E approved \in BOOLEAN : Limiter!Decide(key, now, approved)
           /\ IsRecent(attempts'[key], history'[key])
           /\ InOrder(history'[key], now)
           /\ \A j \in 1..Len(history'[key]) : Limiter!Promise(history'[key], j)
           /\ \A other \in Keys \ {key} :
                 attempts'[other] = attempts[other] /\ history'[other] = history[other]
           /\ now' = now
<1>1. key \in Keys
  BY LimitedIsWhitelisted DEF EvaluateLimited
<1>2. TypeOK /\ IsRecent(attempts[key], history[key]) /\ InOrder(history[key], now)
      /\ \A j \in 1..Len(history[key]) : Limiter!Promise(history[key], j)
  BY <1>1 DEF IInv, QueueIsRecent, HistoryInOrder, PromisesKept
<1>3. PICK k \in 0..Len(attempts[key]) :
         LET queue == Queued(attempts[key], k)
         IN  /\ Prunes(attempts[key], now - Window, k)
             /\ attempts' = [attempts EXCEPT ![key] = queue]
             /\ history' = [history EXCEPT ![key] =
                    Append(@, [ts |-> now, approved |-> Approves(queue)])]
  BY DEF EvaluateLimited
<1> DEFINE q1 == Queued(attempts[key], k)
           a == [ts |-> now, approved |-> Approves(q1)]
           h1 == Append(history[key], a)
<1>4. /\ attempts'[key] = q1 /\ history'[key] = h1
      /\ \A other \in Keys \ {key} :
            attempts'[other] = attempts[other] /\ history'[other] = history[other]
  BY <1>1, <1>2, <1>3 DEF TypeOK
<1>5. /\ now \in Int /\ attempts[key] \in Seq(Int)
      /\ history[key] \in Seq([ts : Int, approved : BOOLEAN])
  BY <1>1, <1>2, Integral
<1>6. IsRecent(q1, h1) /\ InOrder(h1, now) /\ Limiter!Promise(h1, Len(h1))
  BY <1>2, <1>3, <1>5, LimiterCall, PolicyAssumption DEF Queued
<1>7. a \in [ts : Int, approved : BOOLEAN]
  BY <1>5 DEF Approves
<1>8. \A j \in 1..Len(h1) : Limiter!Promise(h1, j)
  BY <1>2, <1>5, <1>6, <1>7, EarlierPromises
<1>9. Limiter!Decide(key, now, Approves(q1))
  <2>1. \A i \in 1..Len(history[key]) : history[key][i].ts <= now
    BY <1>2 DEF InOrder
  <2>2. history' = [history EXCEPT ![key] = h1]
    BY <1>3
  <2> QED
    BY <1>6, <2>1, <2>2 DEF Limiter!Decide
<1>10. Approves(q1) \in BOOLEAN
  BY DEF Approves
<1>11. now' = now
  BY DEF EvaluateLimited
<1> QED
  BY <1>1, <1>4, <1>6, <1>8, <1>9, <1>10, <1>11

(* Every step keeps the invariant: a decision by DecisionStep, the others   *)
(* because they leave queues and histories alone or empty both.             *)
LEMMA IInvStep == IInv /\ [Next]_vars => IInv'
<1> SUFFICES ASSUME IInv, [Next]_vars PROVE IInv'
  OBVIOUS
<1>1. TypeOK'
  BY TypeOKStep DEF IInv
<1>2. CASE Tick
  <2>1. now' > now /\ UNCHANGED <<attempts, history>> /\ now \in Int /\ now' \in Int
    BY <1>2, Integral, PolicyAssumption DEF Tick, IInv, TypeOK, Times
  <2>2. QueueIsRecent' /\ PromisesKept'
    BY <2>1 DEF IInv, QueueIsRecent, PromisesKept
  <2>3. HistoryInOrder'
    <3> SUFFICES ASSUME NEW key \in Keys PROVE InOrder(history[key], now')
      BY <2>1 DEF HistoryInOrder
    <3>1. InOrder(history[key], now)
      BY DEF IInv, HistoryInOrder
    <3>2. history[key] \in Seq([ts : Int, approved : BOOLEAN])
      BY Integral DEF IInv
    <3>3. \A i \in 1..Len(history[key]) : history[key][i].ts \in Int
      <4>1. \A i \in 1..Len(history[key]) :
               history[key][i] \in [ts : Int, approved : BOOLEAN]
        BY <3>2, ElementOfSeq
      <4>2. \A a \in [ts : Int, approved : BOOLEAN] : a.ts \in Int
        OBVIOUS
      <4> QED
        BY <4>1, <4>2
    <3> QED
      BY <2>1, <3>1, <3>3 DEF InOrder
  <2> QED
    BY <1>1, <2>2, <2>3 DEF IInv
<1>3. ASSUME NEW req \in Requests, EvaluateDenied(req) PROVE IInv'
  <2>1. UNCHANGED <<now, attempts, history>>
    BY <1>3 DEF EvaluateDenied
  <2> QED
    BY <1>1, <2>1 DEF IInv, QueueIsRecent, HistoryInOrder, PromisesKept
<1>4. ASSUME NEW req \in Requests, EvaluateLimited(req) PROVE IInv'
  <2>1. QueueIsRecent' /\ HistoryInOrder' /\ PromisesKept'
    <3> SUFFICES ASSUME NEW key \in Keys
                 PROVE  /\ IsRecent(attempts'[key], history'[key])
                        /\ InOrder(history'[key], now')
                        /\ \A j \in 1..Len(history'[key]) : Limiter!Promise(history'[key], j)
      BY DEF QueueIsRecent, HistoryInOrder, PromisesKept
    <3>1. CASE key = Key(req)
      BY <1>4, <3>1, DecisionStep
    <3>2. CASE key # Key(req)
      <4>1. attempts'[key] = attempts[key] /\ history'[key] = history[key] /\ now' = now
        BY <1>4, <3>2, DecisionStep
      <4> QED
        BY <4>1 DEF IInv, QueueIsRecent, HistoryInOrder, PromisesKept
    <3> QED
      BY <3>1, <3>2
  <2> QED
    BY <1>1, <2>1 DEF IInv
<1>5. CASE Restart
  <2>1. \A key \in Keys : attempts'[key] = <<>> /\ history'[key] = <<>>
    BY <1>5 DEF Restart, NoAttempts
  <2>2. QueueIsRecent'
    BY <2>1, NothingIsRecent DEF QueueIsRecent
  <2>3. HistoryInOrder' /\ PromisesKept'
    BY <2>1 DEF HistoryInOrder, InOrder, PromisesKept
  <2> QED
    BY <1>1, <2>2, <2>3 DEF IInv
<1>6. CASE UNCHANGED vars
  BY <1>6 DEF vars, IInv, TypeOK, QueueIsRecent, HistoryInOrder, PromisesKept
<1> QED
  BY <1>2, <1>3, <1>4, <1>5, <1>6 DEF Next

(* In every reachable state the invariant holds.                            *)
LEMMA InvariantHolds == Spec => []IInv
BY IInvInit, IInvStep, PTL DEF Spec

---------------------------------------------------------------------------
(* The queue of a command is always the tail of what was attempted on it    *)
(* and all that was pruned is outside the latest window (policy.py:102-107).*)
THEOREM PrunedIsOld == Spec => []QueueIsRecent
<1>1. IInv => QueueIsRecent
  BY DEF IInv
<1> QED
  BY <1>1, InvariantHolds, PTL

(* If the promise is kept for the j-th attempt and it was approved, its     *)
(* window holds at most MaxAttempts approved ones.                          *)
LEMMA PromiseBounds ==
    ASSUME NEW h, NEW j \in Nat, j >= 1, MaxAttempts \in Int,
           h[j].approved, Limiter!Promise(h, j)
    PROVE  Cardinality({ i \in Covered(h, j) : h[i].approved }) <= MaxAttempts
<1> DEFINE R == Limiter!Recent(h, j)
           C == { i \in Covered(h, j) : h[i].approved }
<1>1. Cardinality(R) < MaxAttempts
  BY SameCardinality DEF Limiter!Promise
<1>2. IsFiniteSet(R)
  <2>1. R \subseteq 1..(j - 1)
    BY DEF Limiter!Recent
  <2>2. IsFiniteSet(1..(j - 1))
    BY FS_Interval
  <2> QED
    BY <2>1, <2>2, FS_Subset
<1>3. C \subseteq R \cup {j}
  <2> SUFFICES ASSUME NEW i \in C, i # j PROVE i \in R
    OBVIOUS
  <2>1. i \in 1..j /\ h[i].ts >= h[j].ts - Window
    BY DEF Covered
  <2>2. i \in 1..(j - 1)
    BY <2>1
  <2> QED
    BY <2>1, <2>2 DEF Limiter!Recent
<1>4. j \notin R
  BY DEF Limiter!Recent
<1> HIDE DEF R, C
<1>5. IsFiniteSet(R \cup {j}) /\ Cardinality(R \cup {j}) = Cardinality(R) + 1
  BY <1>2, <1>4, FS_AddElement
<1>6. Cardinality(C) <= Cardinality(R \cup {j}) /\ IsFiniteSet(C)
  BY <1>3, <1>5, FS_Subset
<1>7. Cardinality(R) \in Nat /\ Cardinality(C) \in Nat
  BY <1>2, <1>6, FS_CardinalityType
<1>8. Cardinality(C) <= MaxAttempts
  BY <1>1, <1>5, <1>6, <1>7
<1> QED
  BY <1>8 DEF C

(* For every window and limit: no window that ends at an approved attempt   *)
(* holds more than MaxAttempts approved ones (policy.py:98-108).            *)
THEOREM RateBounded == Spec => []RateBound
<1>1. IInv => RateBound
  <2> SUFFICES ASSUME IInv, NEW key \in Keys, NEW j \in 1..Len(history[key]),
                      history[key][j].approved
               PROVE  Cardinality({ i \in Covered(history[key], j) :
                                      history[key][i].approved }) <= MaxAttempts
    BY DEF RateBound
  <2>1. j \in Nat /\ j >= 1
    OBVIOUS
  <2>2. Limiter!Promise(history[key], j)
    BY DEF IInv, PromisesKept
  <2> QED
    BY <2>1, <2>2, PromiseBounds, PolicyAssumption
<1> QED
  BY <1>1, InvariantHolds, PTL

(* The queues of policy.py implement the limiter that counts the attempts   *)
(* of a window: each evaluation is one of its decisions or changes nothing  *)
(* it can see, and a new process is its Forget.                             *)
THEOREM EngineKeepsPromise == Spec => KeepsPromise
<1>1. Init => Limiter!Init
  BY DEF Init, Limiter!Init, NoAttempts
<1>2. IInv /\ [Next]_vars => [Limiter!Next]_history
  <2> SUFFICES ASSUME IInv, [Next]_vars PROVE [Limiter!Next]_history
    OBVIOUS
  <2>1. CASE Tick
    BY <2>1 DEF Tick
  <2>2. ASSUME NEW req \in Requests, EvaluateDenied(req) PROVE UNCHANGED history
    BY <2>2 DEF EvaluateDenied
  <2>3. ASSUME NEW req \in Requests, EvaluateLimited(req) PROVE Limiter!Next
    <3>1. Key(req) \in Keys /\ \E approved \in BOOLEAN : Limiter!Decide(Key(req), now, approved)
      BY <2>3, DecisionStep
    <3>2. now \in Times
      BY DEF IInv, TypeOK
    <3> QED
      BY <3>1, <3>2 DEF Limiter!Next
  <2>4. CASE Restart
    BY <2>4 DEF Restart, NoAttempts, Limiter!Next, Limiter!Forget
  <2>5. CASE UNCHANGED vars
    BY <2>5 DEF vars
  <2> QED
    BY <2>1, <2>2, <2>3, <2>4, <2>5 DEF Next
<1> QED
  BY <1>1, <1>2, InvariantHolds, PTL DEF Spec, Limiter!Spec, KeepsPromise

---------------------------------------------------------------------------
(* What command_audit tells of the limiter.                                 *)

\* The rows of a command stamped before t.
OlderRows(key, t) == { i \in Limited(key) : audit[i].ts < t }

\* The rows of a command before a time are no more than the attempts on it
\* before that time: an attempt leaves at most one row, with its own stamp.
RowsOfAttempts ==
    \A key \in Keys : \A t \in Int : \A n \in 0..Len(history[key]) :
        (n < Len(history[key]) => history[key][n + 1].ts >= t)
            => Cardinality(OlderRows(key, t)) <= n

\* What AuditExplainsDenial counts: the rows of the window of row j before it,
\* and the attempts on a command that left no row.
Before(j) ==
    { i \in Limited(Key(audit[j].req)) : i < j /\ audit[i].ts >= audit[j].ts - Window }

Unaudited(key) == Len(history[key]) - Cardinality(Limited(key))

Explained(j) ==
    audit[j].reason = "rate_limited" =>
        /\ Key(audit[j].req) \in Keys
        /\ Cardinality(Before(j)) + Unaudited(Key(audit[j].req)) >= MaxAttempts

\* Every refusal is explained, and rows can only vouch for attempts.
AuditInv == RowsOfAttempts /\ \A j \in (firstRow + 1)..Len(audit) : Explained(j)

(* The rows of a command are finitely many.                                 *)
LEMMA LimitedFinite ==
    ASSUME TypeOK, NEW key
    PROVE  /\ IsFiniteSet(Limited(key)) /\ Limited(key) \subseteq 1..Len(audit)
           /\ Cardinality(Limited(key)) \in Nat
<1>1. Len(audit) \in Nat /\ firstRow \in 0..Len(audit)
  BY DEF TypeOK
<1>2. Limited(key) \subseteq 1..Len(audit)
  BY <1>1 DEF Limited
<1>3. IsFiniteSet(1..Len(audit))
  BY <1>1, FS_Interval
<1> QED
  BY <1>2, <1>3, FS_Subset, FS_CardinalityType

(* And so are the older ones.                                               *)
LEMMA OlderRowsFinite ==
    ASSUME TypeOK, NEW key, NEW t
    PROVE  IsFiniteSet(OlderRows(key, t)) /\ Cardinality(OlderRows(key, t)) \in Nat
<1>1. OlderRows(key, t) \in SUBSET Limited(key)
  BY DEF OlderRows
<1> QED
  BY <1>1, LimitedFinite, FS_Subset, FS_CardinalityType

(* A row is written: it joins the rows of its command if the limiter made   *)
(* the decision, and all others stay what they were.                        *)
LEMMA RowWritten ==
    ASSUME TypeOK, NEW row, audit' = Append(audit, row), firstRow' = firstRow, NEW key
    PROVE  /\ \A i \in 1..Len(audit) : audit'[i] = audit[i]
           /\ audit'[Len(audit) + 1] = row /\ Len(audit') = Len(audit) + 1
           /\ Limited(key)' =
                 IF Key(row.req) = key /\ row.reason \in {"approved", "rate_limited"}
                 THEN Limited(key) \cup {Len(audit) + 1} ELSE Limited(key)
           /\ \A i \in Limited(key) : i \in 1..Len(audit) /\ audit'[i] = audit[i]
<1>1. audit \in Seq(Row) /\ Len(audit) \in Nat /\ firstRow \in 0..Len(audit)
  BY DEF TypeOK
<1>2. /\ \A i \in 1..Len(audit) : audit'[i] = audit[i]
      /\ audit'[Len(audit) + 1] = row /\ Len(audit') = Len(audit) + 1
  BY <1>1
<1>3. Limited(key) \subseteq 1..Len(audit)
  BY LimitedFinite
<1>4. (firstRow' + 1)..Len(audit') = ((firstRow + 1)..Len(audit)) \cup {Len(audit) + 1}
  BY <1>1, <1>2
<1>5. \A i \in (firstRow + 1)..Len(audit) : audit'[i] = audit[i] /\ i # Len(audit) + 1
  BY <1>1, <1>2
<1> QED
  BY <1>2, <1>3, <1>4, <1>5 DEF Limited

(* Pruning k of the m last of l attempts leaves the m - k last.             *)
LEMMA TailStart ==
    ASSUME NEW l \in Nat, NEW m \in Nat, l - m >= 0, NEW k \in 0..m
    PROVE  /\ l >= m /\ l - m + k \in 0..l
           /\ l - m + k < l => k < m /\ k + 1 \in 1..m /\ l - m + (k + 1) = (l - m + k) + 1
           /\ l - (l - m + k) = m - k
OBVIOUS

(* One decision of the limiter, seen from its command's history.            *)
LEMMA DecisionRecorded ==
    ASSUME IInv, NEW req \in Requests, EvaluateLimited(req), NEW key, key = Key(req)
    PROVE  /\ key \in Keys /\ firstRow' = firstRow
           /\ Len(history[key]) \in Nat /\ Len(history'[key]) = Len(history[key]) + 1
           /\ \A n \in 1..Len(history[key]) : history'[key][n] = history[key][n]
           /\ history'[key][Len(history[key]) + 1].ts = now
           /\ \A n \in 1..Len(history[key]) : history[key][n].ts <= now
                                              /\ history[key][n].ts \in Int
           /\ now \in Int
           /\ \A other \in Keys \ {key} : history'[other] = history[other]
           /\ \E n \in 0..Len(history[key]) :
                 /\ n < Len(history[key]) => history[key][n + 1].ts >= now - Window
                 /\ \/ /\ audit' = audit
                    \/ /\ audit' = Append(audit, [req |-> req, ts |-> now, reason |-> "approved"])
                    \/ /\ audit' = Append(audit, [req |-> req, ts |-> now, reason |-> "rate_limited"])
                       /\ Len(history[key]) - n >= MaxAttempts
<1>1. key \in Keys
  BY LimitedIsWhitelisted DEF EvaluateLimited
<1>2. /\ TypeOK /\ IsRecent(attempts[key], history[key]) /\ InOrder(history[key], now)
      /\ now \in Int /\ attempts[key] \in Seq(Int)
      /\ history[key] \in Seq([ts : Int, approved : BOOLEAN])
      /\ history \in [Keys -> Seq(Attempt)] /\ Window \in Int /\ MaxAttempts \in Int
  BY <1>1, Integral, PolicyAssumption DEF IInv, QueueIsRecent, HistoryInOrder, TypeOK
<1>3. PICK k \in 0..Len(attempts[key]) :
         /\ Prunes(attempts[key], now - Window, k)
         /\ history' = [history EXCEPT ![key] =
                Append(@, [ts |-> now, approved |-> Approves(Queued(attempts[key], k))])]
         /\ LogCommand(req, IF Approves(Queued(attempts[key], k)) THEN "approved"
                                                                   ELSE "rate_limited")
  BY DEF EvaluateLimited
<1> DEFINE q == attempts[key]
           h == history[key]
           a == [ts |-> now, approved |-> Approves(Queued(attempts[key], k))]
           n == Len(h) - Len(q) + k
<1>4. history'[key] = Append(h, a) /\ \A other \in Keys \ {key} : history'[other] = history[other]
  BY <1>1, <1>2, <1>3
<1>5. /\ Len(h) \in Nat /\ Len(q) \in Nat /\ k \in 0..Len(q) /\ n \in 0..Len(h)
      /\ n < Len(h) => k < Len(q) /\ k + 1 \in 1..Len(q) /\ Len(h) - Len(q) + (k + 1) = n + 1
      /\ Len(h) - n = Len(q) - k
  <2>1. Len(h) \in Nat /\ Len(q) \in Nat
    BY <1>2
  <2>2. Len(h) - Len(q) >= 0
    BY <1>2 DEF IsRecent
  <2>3. k \in 0..Len(q)
    BY <1>3
  <2> QED
    BY <2>1, <2>2, <2>3, TailStart
<1>6. /\ Len(Append(h, a)) = Len(h) + 1
      /\ \A i \in 1..Len(h) : Append(h, a)[i] = h[i]
      /\ Append(h, a)[Len(h) + 1] = a
  BY <1>2
<1>7. a.ts = now
  OBVIOUS
<1>8. \A i \in 1..Len(h) : h[i].ts <= now /\ h[i].ts \in Int
  <2>1. \A i \in 1..Len(h) : h[i] \in [ts : Int, approved : BOOLEAN]
    BY <1>2, ElementOfSeq
  <2>2. \A i \in 1..Len(h) : h[i].ts <= now
    BY <1>2 DEF InOrder
  <2> QED
    BY <2>1, <2>2
<1>9. n < Len(h) => h[n + 1].ts >= now - Window
  <2> SUFFICES ASSUME n < Len(h) PROVE h[n + 1].ts >= now - Window
    OBVIOUS
  <2>1. k < Len(q) /\ k + 1 \in 1..Len(q)
        /\ Len(h) - Len(q) + (k + 1) = n + 1
    BY <1>5
  <2>2. q[k + 1] >= now - Window
    BY <1>3, <2>1 DEF Prunes
  <2>3. q[k + 1] = h[Len(h) - Len(q) + (k + 1)].ts
    BY <1>2, <2>1 DEF IsRecent
  <2> QED
    BY <2>1, <2>2, <2>3
<1>10. ~Approves(Queued(q, k)) => Len(h) - n >= MaxAttempts
  <2>1. SubSeq(q, k + 1, Len(q)) \in Seq(Int) /\ Len(SubSeq(q, k + 1, Len(q))) = Len(q) - k
    <3>1. \A i \in (k + 1)..Len(q) : q[i] \in Int
      BY <1>2, <1>5
    <3> QED
      BY <1>5, <3>1, SubSeqProperties
  <2>2. Len(Queued(q, k)) = Len(q) - k + 1
    BY <1>2, <2>1 DEF Queued
  <2> QED
    BY <1>2, <1>5, <2>2 DEF Approves
<1>11. \/ audit' = audit
       \/ audit' = Append(audit, [req |-> req, ts |-> now, reason |-> "approved"])
       \/ /\ audit' = Append(audit, [req |-> req, ts |-> now, reason |-> "rate_limited"])
          /\ ~Approves(Queued(q, k))
  BY <1>3 DEF LogCommand, LogCommandUnaudited
<1>12. firstRow' = firstRow
  BY DEF EvaluateLimited
<1> HIDE DEF n
<1> QED
  BY <1>1, <1>2, <1>4, <1>5, <1>6, <1>7, <1>8, <1>9, <1>10, <1>11, <1>12

(* What any row that is written, or lost, leaves of the rows of a command.  *)
LEMMA RowsKept ==
    ASSUME TypeOK, firstRow' = firstRow, NEW row,
           audit' = audit \/ audit' = Append(audit, row),
           NEW key, NEW t \in Int, row.ts \in Int
    PROVE  /\ Len(audit') \in Nat /\ Len(audit) <= Len(audit') /\ Len(audit') <= Len(audit) + 1
           /\ \A i \in 1..Len(audit) : audit'[i] = audit[i]
           /\ Limited(key)' = Limited(key) \/
              /\ Key(row.req) = key /\ row.reason \in {"approved", "rate_limited"}
              /\ Limited(key)' = Limited(key) \cup {Len(audit) + 1}
           /\ OlderRows(key, t)' = OlderRows(key, t) \/
              /\ Key(row.req) = key /\ row.ts < t
              /\ OlderRows(key, t)' = OlderRows(key, t) \cup {Len(audit) + 1}
<1>1. Len(audit) \in Nat
  BY DEF TypeOK
<1>2. CASE audit' = audit
  <2>1. Limited(key)' = Limited(key) /\ OlderRows(key, t)' = OlderRows(key, t)
    BY <1>2 DEF Limited, OlderRows
  <2> QED
    BY <1>1, <1>2, <2>1
<1>3. CASE audit' = Append(audit, row)
  <2>1. /\ \A i \in 1..Len(audit) : audit'[i] = audit[i]
        /\ audit'[Len(audit) + 1] = row /\ Len(audit') = Len(audit) + 1
        /\ Limited(key)' =
              IF Key(row.req) = key /\ row.reason \in {"approved", "rate_limited"}
              THEN Limited(key) \cup {Len(audit) + 1} ELSE Limited(key)
        /\ \A i \in Limited(key) : i \in 1..Len(audit) /\ audit'[i] = audit[i]
    BY <1>3, RowWritten
  <2>2. CASE Key(row.req) = key /\ row.reason \in {"approved", "rate_limited"}
    <3>1. Limited(key)' = Limited(key) \cup {Len(audit) + 1}
      BY <2>1, <2>2
    <3>2. CASE row.ts < t
      <4>1. OlderRows(key, t)' = OlderRows(key, t) \cup {Len(audit) + 1}
        BY <2>1, <3>1, <3>2 DEF OlderRows
      <4> QED
        BY <1>1, <2>1, <2>2, <3>1, <3>2, <4>1
    <3>3. CASE ~(row.ts < t)
      <4>1. OlderRows(key, t)' = OlderRows(key, t)
        BY <2>1, <3>1, <3>3 DEF OlderRows
      <4> QED
        BY <1>1, <2>1, <2>2, <3>1, <4>1
    <3> QED
      BY <3>2, <3>3
  <2>3. CASE ~(Key(row.req) = key /\ row.reason \in {"approved", "rate_limited"})
    <3>1. Limited(key)' = Limited(key)
      BY <2>1, <2>3
    <3>2. OlderRows(key, t)' = OlderRows(key, t)
      BY <2>1, <3>1 DEF OlderRows
    <3> QED
      BY <1>1, <2>1, <3>1, <3>2
  <2> QED
    BY <2>2, <2>3
<1> QED
  BY <1>2, <1>3

(* One row more.                                                            *)
LEMMA OneMore ==
    ASSUME NEW S, NEW x, IsFiniteSet(S)
    PROVE  /\ IsFiniteSet(S \cup {x}) /\ Cardinality(S) \in Nat
           /\ Cardinality(S \cup {x}) \in Nat
           /\ Cardinality(S \cup {x}) <= Cardinality(S) + 1
<1>1. Cardinality(S) \in Nat
  BY FS_CardinalityType
<1>2. /\ IsFiniteSet(S \cup {x})
      /\ Cardinality(S \cup {x}) = IF x \in S THEN Cardinality(S) ELSE Cardinality(S) + 1
  BY FS_AddElement, Zenon
<1> QED
  BY <1>1, <1>2

(* A decision adds at most one row, and no row older than its attempt.      *)
LEMMA DecisionKeepsRows ==
    ASSUME IInv, RowsOfAttempts, NEW req \in Requests, EvaluateLimited(req)
    PROVE  RowsOfAttempts'
<1> SUFFICES ASSUME NEW key \in Keys, NEW t \in Int, NEW n \in 0..Len(history'[key]),
                    n < Len(history'[key]) => history'[key][n + 1].ts >= t
             PROVE  Cardinality(OlderRows(key, t)') <= n
  BY DEF RowsOfAttempts
<1> DEFINE own == Key(req)
<1>1. TypeOK /\ IsFiniteSet(OlderRows(key, t)) /\ Cardinality(OlderRows(key, t)) \in Nat
  BY OlderRowsFinite DEF IInv
<1>2. /\ firstRow' = firstRow
      /\ Len(history[own]) \in Nat /\ Len(history'[own]) = Len(history[own]) + 1
      /\ \A i \in 1..Len(history[own]) : history'[own][i] = history[own][i]
      /\ history'[own][Len(history[own]) + 1].ts = now
      /\ \A i \in 1..Len(history[own]) :
            history[own][i].ts <= now /\ history[own][i].ts \in Int
      /\ now \in Int
      /\ \A other \in Keys \ {own} : history'[other] = history[other]
  BY DecisionRecorded
<1>3. PICK row : /\ audit' = audit \/ audit' = Append(audit, row)
                 /\ row.ts = now /\ row.req = req
  <2> DEFINE yes == [req |-> req, ts |-> now, reason |-> "approved"]
             no == [req |-> req, ts |-> now, reason |-> "rate_limited"]
  <2>1. audit' = audit \/ audit' = Append(audit, yes) \/ audit' = Append(audit, no)
    BY DecisionRecorded
  <2>2. yes.ts = now /\ yes.req = req /\ no.ts = now /\ no.req = req
    OBVIOUS
  <2> HIDE DEF yes, no
  <2> QED
    BY <2>1, <2>2
<1>4. \/ OlderRows(key, t)' = OlderRows(key, t)
      \/ /\ key = own /\ now < t
         /\ OlderRows(key, t)' = OlderRows(key, t) \cup {Len(audit) + 1}
  <2>1. row.ts \in Int
    BY <1>2, <1>3
  <2>2. \/ OlderRows(key, t)' = OlderRows(key, t)
        \/ /\ Key(row.req) = key /\ row.ts < t
           /\ OlderRows(key, t)' = OlderRows(key, t) \cup {Len(audit) + 1}
    BY <1>1, <1>2, <1>3, <2>1, RowsKept
  <2> QED
    BY <1>3, <2>2
<1>5. CASE key # own
  <2>1. history'[key] = history[key] /\ OlderRows(key, t)' = OlderRows(key, t)
    BY <1>2, <1>4, <1>5
  <2> QED
    BY <2>1 DEF RowsOfAttempts
<1>6. CASE key = own
  <2>1. ASSUME n \in 0..Len(history[key]) PROVE Cardinality(OlderRows(key, t)') <= n
    <3>1. CASE n < Len(history[key])
      <4>1. n + 1 \in 1..Len(history[key]) /\ n < Len(history'[key])
        BY <1>2, <1>6, <3>1
      <4>2. history[key][n + 1].ts >= t /\ now >= t
        <5>1. history'[key][n + 1] = history[key][n + 1]
          BY <1>2, <1>6, <4>1
        <5>2. history[key][n + 1].ts >= t
          BY <4>1, <5>1
        <5>3. history[key][n + 1].ts <= now /\ history[key][n + 1].ts \in Int
          BY <1>2, <1>6, <4>1
        <5> QED
          BY <1>2, <5>2, <5>3
      <4>3. OlderRows(key, t)' = OlderRows(key, t)
        BY <1>2, <1>4, <4>2
      <4>4. Cardinality(OlderRows(key, t)) <= n
        BY <2>1, <4>2 DEF RowsOfAttempts
      <4> QED
        BY <4>3, <4>4
    <3>2. CASE n = Len(history[key])
      <4>1. now >= t
        <5>1. n < Len(history'[key])
          BY <1>2, <1>6, <3>2
        <5>2. history'[key][n + 1].ts = now
          BY <1>2, <1>6, <3>2
        <5> QED
          BY <5>1, <5>2
      <4>2. OlderRows(key, t)' = OlderRows(key, t)
        BY <1>2, <1>4, <4>1
      <4>3. ~(n < Len(history[key]))
        BY <1>2, <1>6, <3>2
      <4>4. Cardinality(OlderRows(key, t)) <= n
        BY <2>1, <4>3 DEF RowsOfAttempts
      <4> QED
        BY <4>2, <4>4
    <3> QED
      BY <1>2, <1>6, <2>1, <3>1, <3>2
  <2>2. ASSUME n = Len(history[key]) + 1 PROVE Cardinality(OlderRows(key, t)') <= n
    <3> DEFINE l == Len(history[key])
    <3>1. l \in Nat /\ l \in 0..l /\ ~(l < l)
      BY <1>2, <1>6
    <3>2. Cardinality(OlderRows(key, t)) <= l
      BY <3>1 DEF RowsOfAttempts
    <3>3. /\ Cardinality(OlderRows(key, t) \cup {Len(audit) + 1})
                <= Cardinality(OlderRows(key, t)) + 1
          /\ Cardinality(OlderRows(key, t) \cup {Len(audit) + 1}) \in Nat
      BY <1>1, OneMore
    <3>4. Cardinality(OlderRows(key, t)') \in Nat
          /\ Cardinality(OlderRows(key, t)') <= Cardinality(OlderRows(key, t)) + 1
      <4>1. CASE OlderRows(key, t)' = OlderRows(key, t)
        <5>1. Cardinality(OlderRows(key, t)') = Cardinality(OlderRows(key, t))
          BY <4>1
        <5> QED
          BY <1>1, <5>1
      <4>2. CASE OlderRows(key, t)' = OlderRows(key, t) \cup {Len(audit) + 1}
        BY <3>3, <4>2, Zenon
      <4> QED
        BY <1>4, <4>1, <4>2
    <3> HIDE DEF l
    <3>5. Cardinality(OlderRows(key, t)') <= l + 1
      BY <1>1, <3>1, <3>2, <3>4
    <3> QED
      BY <2>2, <3>5 DEF l
  <2>3. n \in 0..Len(history[key]) \/ n = Len(history[key]) + 1
    BY <1>2, <1>6
  <2> QED
    BY <2>1, <2>2, <2>3
<1> QED
  BY <1>5, <1>6

---------------------------------------------------------------------------
(* A row that was explained stays explained: what lies before it does not   *)
(* change, and the attempts without a row never become fewer.               *)
LEMMA StaysExplained ==
    ASSUME IInv, firstRow' = firstRow, NEW row, row.ts \in Int,
           audit' = audit \/ audit' = Append(audit, row),
           NEW j \in (firstRow + 1)..Len(audit), Explained(j),
           \A key \in Keys : /\ Unaudited(key) \in Int /\ Unaudited(key)' \in Int
                             /\ Unaudited(key)' >= Unaudited(key)
    PROVE  Explained(j)'
<1>1. TypeOK /\ Len(audit) \in Nat /\ firstRow \in 0..Len(audit)
  BY DEF IInv, TypeOK
<1>2. j \in 1..Len(audit) /\ j < Len(audit) + 1
  BY <1>1
<1>3. \A i \in 1..Len(audit) : audit'[i] = audit[i]
  <2>1. 0 \in Int
    OBVIOUS
  <2> QED
    BY <1>1, <2>1, RowsKept
<1>4. audit'[j] = audit[j]
  BY <1>2, <1>3
<1> PICK key : key = Key(audit[j].req)
  OBVIOUS
<1> SUFFICES ASSUME audit[j].reason = "rate_limited"
             PROVE  /\ key \in Keys
                    /\ Cardinality(Before(j)') + Unaudited(key)' >= MaxAttempts
  <2>1. key = Key(audit'[j].req)
    BY <1>4
  <2> QED
    BY <1>4, <2>1 DEF Explained, Unaudited, Limited
<1>5. key \in Keys /\ Cardinality(Before(j)) + Unaudited(key) >= MaxAttempts
  BY DEF Explained
<1>6. Limited(key)' = Limited(key) \/ Limited(key)' = Limited(key) \cup {Len(audit) + 1}
  <2>1. 0 \in Int
    OBVIOUS
  <2> QED
    BY <1>1, <2>1, RowsKept
<1>7. Before(j)' = { i \in Limited(key)' : i < j /\ audit'[i].ts >= audit'[j].ts - Window }
  BY <1>4 DEF Before, Limited
<1>8. Limited(key) \subseteq 1..Len(audit) /\ IsFiniteSet(Limited(key))
  BY <1>1, LimitedFinite
<1>9. Before(j)' = Before(j)
  <2>1. \A i \in Limited(key) : audit'[i] = audit[i]
    BY <1>3, <1>8
  <2>2. ~(Len(audit) + 1 < j)
    BY <1>1, <1>2
  <2>3. Before(j)' = { i \in Limited(key) : i < j /\ audit'[i].ts >= audit'[j].ts - Window }
    BY <1>6, <1>7, <2>2
  <2> QED
    BY <1>4, <2>1, <2>3 DEF Before
<1>10. Cardinality(Before(j)) \in Nat
  <2>1. Before(j) \in SUBSET Limited(key)
    BY DEF Before
  <2> QED
    BY <1>8, <2>1, FS_Subset, FS_CardinalityType
<1>11. /\ Unaudited(key) \in Int /\ Unaudited(key)' \in Int
       /\ Unaudited(key)' >= Unaudited(key)
  BY <1>5
<1>12. MaxAttempts \in Int
  BY PolicyAssumption
<1>13. Cardinality(Before(j)) + Unaudited(key)' >= MaxAttempts
  BY <1>5, <1>10, <1>11, <1>12
<1> QED
  BY <1>5, <1>9, <1>13

(* A decision is one attempt more and at most one row more.                 *)
LEMMA UnauditedGrows ==
    ASSUME IInv, NEW req \in Requests, EvaluateLimited(req), NEW key \in Keys
    PROVE  /\ Unaudited(key) \in Int /\ Unaudited(key)' \in Int
           /\ Unaudited(key)' >= Unaudited(key)
<1>1. TypeOK /\ Len(history[key]) \in Nat
  BY DEF IInv, TypeOK
<1>2. IsFiniteSet(Limited(key)) /\ Cardinality(Limited(key)) \in Nat
  BY <1>1, LimitedFinite
<1>3. PICK row : /\ audit' = audit \/ audit' = Append(audit, row)
                 /\ row.req = req
  <2> DEFINE yes == [req |-> req, ts |-> now, reason |-> "approved"]
             no == [req |-> req, ts |-> now, reason |-> "rate_limited"]
  <2>1. audit' = audit \/ audit' = Append(audit, yes) \/ audit' = Append(audit, no)
    BY DecisionRecorded
  <2>2. yes.req = req /\ no.req = req
    OBVIOUS
  <2> HIDE DEF yes, no
  <2> QED
    BY <2>1, <2>2
<1>4. Limited(key)' = Limited(key) \/
      (Key(req) = key /\ Limited(key)' = Limited(key) \cup {Len(audit) + 1})
  <2>1. firstRow' = firstRow
    BY DEF EvaluateLimited
  <2>2. CASE audit' = audit
    BY <2>1, <2>2 DEF Limited
  <2>3. CASE audit' = Append(audit, row)
    <3>1. Limited(key)' =
              IF Key(row.req) = key /\ row.reason \in {"approved", "rate_limited"}
              THEN Limited(key) \cup {Len(audit) + 1} ELSE Limited(key)
      BY <1>1, <2>1, <2>3, RowWritten
    <3> QED
      BY <1>3, <3>1
  <2> QED
    BY <1>3, <2>2, <2>3
<1>5. IF Key(req) = key THEN Len(history'[key]) = Len(history[key]) + 1
                        ELSE Len(history'[key]) = Len(history[key])
  <2>1. /\ Len(history'[Key(req)]) = Len(history[Key(req)]) + 1
        /\ \A other \in Keys \ {Key(req)} : history'[other] = history[other]
    BY DecisionRecorded
  <2> QED
    BY <2>1
<1>6. /\ Cardinality(Limited(key)') \in Nat
      /\ Cardinality(Limited(key)') <= Cardinality(Limited(key)) + 1
      /\ Key(req) # key => Cardinality(Limited(key)') = Cardinality(Limited(key))
  <2>1. CASE Limited(key)' = Limited(key)
    <3>1. Cardinality(Limited(key)') = Cardinality(Limited(key))
      BY <2>1
    <3> QED
      BY <1>2, <3>1
  <2>2. CASE Key(req) = key /\ Limited(key)' = Limited(key) \cup {Len(audit) + 1}
    BY <1>2, <2>2, OneMore
  <2> QED
    BY <1>4, <2>1, <2>2
<1>7. /\ Unaudited(key) = Len(history[key]) - Cardinality(Limited(key))
      /\ Unaudited(key)' = Len(history'[key]) - Cardinality(Limited(key)')
  BY DEF Unaudited
<1> QED
  BY <1>1, <1>2, <1>5, <1>6, <1>7

(* A refusal is explained when it is written: the rows of its window and    *)
(* the attempts without a row are no fewer than the attempts of the window. *)
LEMMA NewRowExplained ==
    ASSUME IInv, RowsOfAttempts, NEW req \in Requests, EvaluateLimited(req),
           NEW n \in 0..Len(history[Key(req)]),
           n < Len(history[Key(req)]) => history[Key(req)][n + 1].ts >= now - Window,
           audit' = Append(audit, [req |-> req, ts |-> now, reason |-> "rate_limited"]),
           Len(history[Key(req)]) - n >= MaxAttempts,
           NEW j, j = Len(audit) + 1
    PROVE  Explained(j)'
<1> DEFINE key == Key(req)
           row == [req |-> req, ts |-> now, reason |-> "rate_limited"]
           t == now - Window
<1>1. /\ key \in Keys /\ firstRow' = firstRow /\ now \in Int
      /\ Len(history[key]) \in Nat /\ Len(history'[key]) = Len(history[key]) + 1
  BY DecisionRecorded
<1>2. TypeOK /\ Window \in Int /\ MaxAttempts \in Int /\ t \in Int
  BY <1>1, PolicyAssumption DEF IInv
<1>3. row.req = req /\ row.ts = now /\ row.reason = "rate_limited"
      /\ audit' = Append(audit, row)
  OBVIOUS
<1> HIDE DEF row
<1>4. /\ audit'[j] = row
      /\ Limited(key)' = Limited(key) \cup {j}
      /\ \A i \in Limited(key) : i \in 1..Len(audit) /\ audit'[i] = audit[i]
  BY <1>1, <1>2, <1>3, RowWritten
<1>5. /\ IsFiniteSet(Limited(key)) /\ Limited(key) \subseteq 1..Len(audit)
      /\ Cardinality(Limited(key)) \in Nat
      /\ Cardinality(OlderRows(key, t)) \in Nat
      /\ Len(audit) \in Nat /\ j \in Nat /\ j \notin Limited(key)
  <2>1. Len(audit) \in Nat
    BY <1>2 DEF TypeOK
  <2>2. /\ IsFiniteSet(Limited(key)) /\ Limited(key) \subseteq 1..Len(audit)
        /\ Cardinality(Limited(key)) \in Nat
        /\ Cardinality(OlderRows(key, t)) \in Nat
    BY <1>2, LimitedFinite, OlderRowsFinite
  <2> QED
    BY <2>1, <2>2
<1>6. Cardinality(OlderRows(key, t)) <= n
  BY <1>1, <1>2 DEF RowsOfAttempts
<1>7. \A i \in Limited(key) : audit[i].ts \in Int /\ i < j
  <2>1. \A i \in 1..Len(audit) : audit[i] \in Row
    BY <1>2, ElementOfSeq DEF TypeOK
  <2>2. Times \subseteq Int
    BY PolicyAssumption DEF Times
  <2>3. \A r \in Row : r.ts \in Times
    BY DEF Row
  <2>4. \A i \in 1..Len(audit) : i < j
    BY <1>5
  <2> QED
    BY <1>5, <2>1, <2>2, <2>3, <2>4
<1>8. Before(j)' = Limited(key) \ OlderRows(key, t)
  <2>1. Key(audit'[j].req) = key /\ audit'[j].ts - Window = t
    BY <1>3, <1>4
  <2>2. Before(j)' = { i \in Limited(key)' : i < j /\ audit'[i].ts >= t }
    BY <2>1 DEF Before, Limited
  <2>3. Before(j)' = { i \in Limited(key) : audit[i].ts >= t }
    BY <1>4, <1>5, <1>7, <2>2
  <2> QED
    BY <1>2, <1>7, <2>3 DEF OlderRows
<1>9. Cardinality(Before(j)') = Cardinality(Limited(key)) - Cardinality(OlderRows(key, t))
  <2>1. Limited(key) \cap OlderRows(key, t) = OlderRows(key, t)
    BY DEF OlderRows
  <2> QED
    BY <1>5, <1>8, <2>1, FS_Difference
<1>10. Cardinality(Limited(key)') = Cardinality(Limited(key)) + 1
  <2>1. Cardinality(Limited(key) \cup {j}) =
            IF j \in Limited(key) THEN Cardinality(Limited(key))
                                  ELSE Cardinality(Limited(key)) + 1
    BY <1>5, FS_AddElement, Zenon
  <2> QED
    BY <1>4, <1>5, <2>1
<1>11. Unaudited(key)' = Len(history'[key]) - Cardinality(Limited(key)')
  BY DEF Unaudited
<1>12. Cardinality(Before(j)') + Unaudited(key)' >= MaxAttempts
  <2>1. Len(history[key]) - n >= MaxAttempts /\ n \in Int
    OBVIOUS
  <2> QED
    BY <1>1, <1>2, <1>5, <1>6, <1>9, <1>10, <1>11, <2>1
<1>13. Key(audit'[j].req) = key
  BY <1>3, <1>4
<1> QED
  BY <1>1, <1>12, <1>13 DEF Explained, Unaudited, Limited

NoRowYet == firstRow = Len(audit)

(* A process starts with no rows of its own.                                *)
LEMMA NothingToExplain == NoRowYet /\ TypeOK => AuditInv
<1> SUFFICES ASSUME NoRowYet, TypeOK PROVE AuditInv
  OBVIOUS
<1>1. Len(audit) \in Nat /\ (firstRow + 1)..Len(audit) = {}
  BY DEF TypeOK, NoRowYet
<1>2. ASSUME NEW key, NEW t PROVE Cardinality(OlderRows(key, t)) = 0
  <2>1. OlderRows(key, t) = {}
    BY <1>1 DEF OlderRows, Limited
  <2> QED
    BY <2>1, FS_EmptySet
<1>3. RowsOfAttempts
  <2> SUFFICES ASSUME NEW key \in Keys, NEW t \in Int, NEW n \in 0..Len(history[key])
               PROVE  Cardinality(OlderRows(key, t)) <= n
    BY DEF RowsOfAttempts
  <2>1. 0 <= n
    OBVIOUS
  <2> QED
    BY <1>2, <2>1
<1> QED
  BY <1>1, <1>3 DEF AuditInv

(* The same of the state after a restart.                                   *)
LEMMA NothingToExplainNext == NoRowYet' /\ TypeOK' => AuditInv'
BY NothingToExplain, PTL

(* A call that never reaches the limiter adds no row of the limiter's.      *)
LEMMA DenialKeepsAudit ==
    ASSUME IInv, AuditInv, NEW req \in Requests, EvaluateDenied(req)
    PROVE  AuditInv'
<1> DEFINE row == [req |-> req, ts |-> now, reason |-> StaticReason(settings, req)]
<1>1. /\ audit' = audit \/ audit' = Append(audit, row)
      /\ firstRow' = firstRow /\ history' = history
      /\ row.ts = now /\ row.reason \notin {"approved", "rate_limited", "none"}
  <2>1. StaticReason(settings, req) \notin {"approved", "rate_limited", "none"}
    BY DEF EvaluateDenied, StaticReason, StaticReasons
  <2> QED
    BY <2>1 DEF EvaluateDenied, LogCommand, LogCommandUnaudited
<1> HIDE DEF row
<1>2. TypeOK /\ now \in Int /\ Len(audit) \in Nat /\ firstRow \in 0..Len(audit)
  <2>1. Times \subseteq Int
    BY PolicyAssumption DEF Times
  <2> QED
    BY <2>1 DEF IInv, TypeOK
<1>3. ASSUME NEW key, NEW t \in Int
      PROVE  Limited(key)' = Limited(key) /\ OlderRows(key, t)' = OlderRows(key, t)
  <2>1. Limited(key)' = Limited(key)
    BY <1>1, <1>2, <1>3, RowsKept
  <2>2. \A i \in Limited(key) : audit'[i] = audit[i]
    <3>1. \A i \in 1..Len(audit) : audit'[i] = audit[i]
      BY <1>1, <1>2, <1>3, RowsKept
    <3> QED
      BY <1>2, <3>1, LimitedFinite
  <2> QED
    BY <2>1, <2>2 DEF OlderRows
<1>4. RowsOfAttempts'
  <2> SUFFICES ASSUME NEW key \in Keys, NEW t \in Int, NEW n \in 0..Len(history[key]),
                      n < Len(history[key]) => history[key][n + 1].ts >= t
               PROVE  Cardinality(OlderRows(key, t)') <= n
    BY <1>1 DEF RowsOfAttempts
  <2>1. Cardinality(OlderRows(key, t)) <= n
    BY DEF AuditInv, RowsOfAttempts
  <2> QED
    BY <1>3, <2>1
<1>5. ASSUME NEW key \in Keys
      PROVE  /\ Unaudited(key) \in Int /\ Unaudited(key)' \in Int
             /\ Unaudited(key)' >= Unaudited(key)
  <2>1. Unaudited(key)' = Unaudited(key)
    <3>1. 0 \in Int
      OBVIOUS
    <3>2. Limited(key)' = Limited(key)
      BY <1>3, <3>1
    <3> QED
      BY <1>1, <3>2 DEF Unaudited
  <2>2. Len(history[key]) \in Nat /\ Cardinality(Limited(key)) \in Nat
    BY <1>2, LimitedFinite DEF TypeOK
  <2> QED
    BY <2>1, <2>2 DEF Unaudited
<1>6. ASSUME NEW j \in (firstRow' + 1)..Len(audit') PROVE Explained(j)'
  <2>1. CASE j \in (firstRow + 1)..Len(audit)
    <3>1. Explained(j)
      BY <2>1 DEF AuditInv
    <3>2. row.ts \in Int
      BY <1>1, <1>2
    <3> QED
      BY <1>1, <1>5, <2>1, <3>1, <3>2, StaysExplained
  <2>2. CASE j \notin (firstRow + 1)..Len(audit)
    <3>1. audit' = Append(audit, row) /\ j = Len(audit) + 1
      BY <1>1, <1>2, <1>6, <2>2
    <3>2. audit'[j] = row
      BY <1>2, <3>1, RowWritten, <1>1
    <3> QED
      BY <1>1, <3>2 DEF Explained
  <2> QED
    BY <2>1, <2>2
<1> QED
  BY <1>4, <1>6 DEF AuditInv

(* A decision keeps every row explained, its own included.                  *)
LEMMA DecisionKeepsAudit ==
    ASSUME IInv, AuditInv, NEW req \in Requests, EvaluateLimited(req)
    PROVE  AuditInv'
<1>1. RowsOfAttempts'
  BY DecisionKeepsRows DEF AuditInv
<1>2. TypeOK /\ now \in Int /\ Len(audit) \in Nat /\ firstRow' = firstRow
      /\ firstRow \in 0..Len(audit)
  <2>1. now \in Int /\ firstRow' = firstRow
    BY DecisionRecorded
  <2>2. TypeOK /\ Len(audit) \in Nat /\ firstRow \in 0..Len(audit)
    BY DEF IInv, TypeOK
  <2> QED
    BY <2>1, <2>2
<1>3. PICK n \in 0..Len(history[Key(req)]) :
         /\ n < Len(history[Key(req)]) => history[Key(req)][n + 1].ts >= now - Window
         /\ \/ /\ audit' = audit
            \/ /\ audit' = Append(audit, [req |-> req, ts |-> now, reason |-> "approved"])
            \/ /\ audit' = Append(audit, [req |-> req, ts |-> now, reason |-> "rate_limited"])
               /\ Len(history[Key(req)]) - n >= MaxAttempts
  BY DecisionRecorded
<1> DEFINE yes == [req |-> req, ts |-> now, reason |-> "approved"]
           no == [req |-> req, ts |-> now, reason |-> "rate_limited"]
<1>4. ASSUME NEW row, row.ts = now, audit' = audit \/ audit' = Append(audit, row),
             NEW j \in (firstRow + 1)..Len(audit)
      PROVE  Explained(j)'
  <2>1. Explained(j)
    BY DEF AuditInv
  <2>2. \A key \in Keys : /\ Unaudited(key) \in Int /\ Unaudited(key)' \in Int
                          /\ Unaudited(key)' >= Unaudited(key)
    BY UnauditedGrows
  <2>3. row.ts \in Int
    BY <1>2, <1>4
  <2> QED
    BY <1>2, <1>4, <2>1, <2>2, <2>3, StaysExplained
<1>5. ASSUME NEW j \in (firstRow' + 1)..Len(audit') PROVE Explained(j)'
  <2>1. CASE audit' = audit
    BY <1>2, <1>4, <1>5, <2>1, yes.ts = now
  <2>2. CASE audit' = Append(audit, yes)
    <3> yes.ts = now /\ yes.reason = "approved"
      OBVIOUS
    <3> HIDE DEF yes
    <3>1. CASE j \in (firstRow + 1)..Len(audit)
      BY <1>4, <2>2, <3>1
    <3>2. CASE j = Len(audit) + 1
      <4>1. audit'[j] = yes
        BY <1>2, <2>2, <3>2, RowWritten
      <4> QED
        BY <4>1 DEF Explained
    <3>3. Len(audit') = Len(audit) + 1
      BY <1>2, <2>2, RowWritten
    <3> QED
      BY <1>2, <1>5, <3>1, <3>2, <3>3
  <2>3. CASE audit' = Append(audit, no) /\ Len(history[Key(req)]) - n >= MaxAttempts
    <3>1. CASE j \in (firstRow + 1)..Len(audit)
      <4>1. no.ts = now
        OBVIOUS
      <4> QED
        BY <1>4, <2>3, <3>1, <4>1
    <3>2. CASE j = Len(audit) + 1
      BY <1>3, <2>3, <3>2, NewRowExplained DEF AuditInv
    <3>3. Len(audit') = Len(audit) + 1
      BY <1>2, <2>3, RowWritten
    <3> QED
      BY <1>2, <1>5, <3>1, <3>2, <3>3
  <2> QED
    BY <1>3, <2>1, <2>2, <2>3
<1> QED
  BY <1>1, <1>5 DEF AuditInv

(* Every step keeps the invariant; a new process starts it anew.            *)
LEMMA AuditInvStep == IInv /\ IInv' /\ AuditInv /\ [Next]_vars => AuditInv'
<1> SUFFICES ASSUME IInv, IInv', AuditInv, [Next]_vars PROVE AuditInv'
  OBVIOUS
<1>1. CASE UNCHANGED <<audit, history, firstRow>>
  BY <1>1 DEF AuditInv, RowsOfAttempts, OlderRows, Limited, Explained, Before, Unaudited
<1>2. CASE Tick
  BY <1>1, <1>2 DEF Tick
<1>3. ASSUME NEW req \in Requests, EvaluateDenied(req) PROVE AuditInv'
  BY <1>3, DenialKeepsAudit
<1>4. ASSUME NEW req \in Requests, EvaluateLimited(req) PROVE AuditInv'
  BY <1>4, DecisionKeepsAudit
<1>5. CASE Restart
  <2>1. NoRowYet' /\ TypeOK'
    BY <1>5 DEF Restart, IInv, NoRowYet
  <2> QED
    BY <2>1, NothingToExplainNext
<1>6. CASE UNCHANGED vars
  BY <1>1, <1>6 DEF vars
<1> QED
  BY <1>2, <1>3, <1>4, <1>5, <1>6 DEF Next

(* For every window, limit and spelling: an operator who reads command_audit *)
(* finds in the window of a rate_limited row, before it, rows of the same    *)
(* command that reach the limit, but for the attempts whose insert failed    *)
(* (policy.py:51-66).                                                       *)
THEOREM DenialExplained == Spec => []AuditExplainsDenial
<1>1. Init => AuditInv
  <2>1. Init => NoRowYet
    BY DEF Init, NoRowYet
  <2> QED
    BY <2>1, TypeOKInit, NothingToExplain
<1>2. AuditInv => AuditExplainsDenial
  <2> SUFFICES ASSUME AuditInv, NEW j \in (firstRow + 1)..Len(audit), Explained(j),
                      audit[j].reason = "rate_limited"
               PROVE  Cardinality(Before(j)) + Unaudited(Key(audit[j].req)) >= MaxAttempts
    BY DEF AuditInv, AuditExplainsDenial, Before, Unaudited
  <2> QED
    BY DEF Explained
<1> QED
  BY <1>1, <1>2, AuditInvStep, InvariantHolds, PTL DEF Spec
=============================================================================
