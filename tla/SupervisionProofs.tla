-------------------------- MODULE SupervisionProofs --------------------------
(***************************************************************************)
(* Proofs about Supervision for all times and limits of the units, all     *)
(* files and whatever may break: lives in which writes are possible end, a *)
(* stop that is spelt is heeded, and a service with safe settings recovers *)
(* in a time that is a sum of the units' times.                            *)
(***************************************************************************)
EXTENDS Supervision, TLAPS

\* The start limit's interval that is open, if one is, began before the calm.
OldWindow == window.age <= Interval => calm <= window.age

Types ==
    /\ file \in Files /\ env \in Files
    /\ unit \in {"active", "waiting", "restarting", "stopping", "stopped", "failed"}
    /\ process \in {"none", "starting", "serving", "stopping"}
    /\ process \in {"starting", "serving"} <=> unit = "active"
    /\ process = "stopping" <=> unit \in {"restarting", "stopping"}
    /\ since \in Nat
    /\ window \in [count : Nat, age : Nat]
    /\ timer \in Int /\ First <= timer
    /\ check \in {"idle", "health", "status", "restart"}
    /\ unit = "restarting" => check = "restart"
    /\ calm \in 0..Horizon

\* What is due is done before the next tick; a check waits only for a restart.
InTime ==
    /\ process = "starting" => since <= StartTicks
    /\ process = "stopping" => since <= StopTime \/ calm = 0
    /\ unit = "waiting" => since <= RestartSec
    /\ unit = "restarting" => 0 <= timer /\ timer <= since
    /\ check # "idle" /\ unit # "restarting" =>
         timer = 0 /\ (calm > 0 => asked = PortOf(file))

\* A start reads the file; it is only behind if the file was edited since.
StartsCurrent == process = "starting" /\ env # file => calm <= since /\ OldWindow

\* A life in which writes are possible is no older than its next check, and
\* under an older file it began early in the calm.
OpenEnds ==
    process = "serving" /\ Open(env) =>
        /\ since <= Wait
        /\ check = "idle" => since <= timer - First
        /\ env # file => calm <= since + StartTicks

IInv == Types /\ InTime /\ StartsCurrent /\ OpenEnds

---------------------------------------------------------------------------
(* The times of the units are numbers, and no longer than Longest.          *)
LEMMA Durations ==
    /\ Interval \in Nat /\ Burst \in Nat /\ RestartSec \in Nat /\ StartTicks \in Nat
    /\ StopTicks \in Nat /\ KillTicks \in Nat /\ BootDelay \in Nat
    /\ Period \in Nat /\ Accuracy \in Nat /\ Horizon \in Nat /\ Round \in Nat
    /\ First \in Int /\ First <= 0 /\ First <= Period - BootDelay
    /\ Wait \in Nat /\ Round <= Wait /\ Wait = Round - First
    /\ Longest \in Nat /\ RestartSec <= Longest /\ StartTicks <= Longest /\ Wait <= Longest
    /\ StopTime \in Nat /\ StopTime <= Longest
BY SupervisionAssumption DEF Round, First, Wait, Longest, StopTime

(* Settings that may let a write through are not those the check demands.   *)
LEMMA OpenIsUnsafe == ASSUME NEW e, Open(e) PROVE ~SafeSettings(e)
BY DEF Open, SafeSettings

(* The boat is switched on in a state of the invariant.                     *)
LEMMA IInvInit == Init => IInv
<1> SUFFICES ASSUME Init PROVE IInv
  OBVIOUS
<1>1. Types
  BY Durations DEF Init, Types
<1> QED
  BY <1>1, Durations DEF Init, IInv, InTime, StartsCurrent, OpenEnds

\* What a launch leaves: a service that starts with the file as it is, or none.
Launched ==
    \/ process' = "starting" /\ unit' = "active" /\ env' = file
    \/ /\ process' = "none" /\ unit' = "failed" /\ env' = env
       /\ UNCHANGED window /\ window.age <= Interval /\ window.count = Burst

(* systemd starts the service or, at the start limit, gives it up.          *)
LEMMA LaunchLeaves ==
    ASSUME Launch, Types
    PROVE  Launched /\ since' = 0 /\ window' \in [count : Nat, age : Nat]
BY Durations DEF Launch, Becomes, Launched, Types

(* Whoever launches keeps the invariant.                                    *)
LEMMA LaunchKeeps ==
    ASSUME IInv, Launch, UNCHANGED <<file, calm>>,
           timer' = timer,
           check' = "idle" \/ (unit # "restarting" /\ UNCHANGED <<check, asked>>)
    PROVE  IInv'
<1>1. Launched /\ since' = 0 /\ window' \in [count : Nat, age : Nat]
  BY LaunchLeaves DEF IInv
<1>2. Types'
  BY <1>1 DEF IInv, Types, Launched
<1>3. InTime'
  BY <1>1, Durations DEF IInv, Types, InTime, Launched
<1>4. StartsCurrent' /\ OpenEnds'
  BY <1>1 DEF StartsCurrent, OpenEnds, Launched
<1> QED
  BY <1>2, <1>3, <1>4 DEF IInv

(* A tick comes when nothing is due, so no time exceeds its bound.          *)
LEMMA TickKeeps == ASSUME IInv, Tick PROVE IInv'
<1>1. /\ UNCHANGED <<file, broken, unit, process, env, listening, faulted, check, asked>>
      /\ since' = (IF Counts THEN Smaller(since + 1, Longest) ELSE since)
      /\ timer' = timer + 1
      /\ (check = "idle" /\ timer < Round) \/ unit = "restarting"
      /\ window' = (IF window.age < Interval THEN [window EXCEPT !.age = @ + 1] ELSE Expired)
      /\ calm' = Smaller(calm + 1, Horizon)
      /\ process = "starting" => since < StartTicks
      /\ process = "stopping" => since < StopTime
      /\ unit = "waiting" => since < RestartSec
  BY DEF Tick, NothingDue
<1>2. Types
  BY DEF IInv
<1>3. since' \in Nat /\ since' <= since + 1 /\ (Counts => since' = since + 1 \/ since' = Longest)
  BY <1>1, <1>2, Durations DEF Types, Smaller
<1>4. calm' \in 0..Horizon /\ calm' <= calm + 1
  BY <1>1, <1>2, Durations DEF Types, Smaller
<1>5. window' \in [count : Nat, age : Nat]
      /\ IF window.age < Interval THEN window'.age = window.age + 1 /\ window'.count = window.count
                                  ELSE window'.age = Interval + 1
  BY <1>1, <1>2, Durations DEF Types, Expired
<1>6. OldWindow => OldWindow'
  BY <1>2, <1>4, <1>5, Durations DEF OldWindow, Types
<1>7. Types'
  BY <1>1, <1>2, <1>3, <1>4, <1>5, Durations DEF Types
<1>8. InTime'
  <2>1. unit = "waiting" \/ process \in {"starting", "stopping"} => since' = since + 1
    BY <1>1, <1>2, <1>3, Durations DEF Types, Smaller, Counts
  <2>2. StopTime' = StopTime
    BY <1>1 DEF StopTime
  <2> QED
    BY <1>1, <1>2, <2>1, <2>2, Durations DEF IInv, Types, InTime
<1>9. StartsCurrent'
  <2> SUFFICES ASSUME process = "starting", env # file PROVE calm' <= since' /\ OldWindow'
    BY <1>1 DEF StartsCurrent
  <2>1. calm <= since /\ OldWindow /\ Counts /\ since < StartTicks
    BY <1>1 DEF IInv, StartsCurrent, Counts
  <2>2. since' = since + 1
    BY <1>2, <1>3, <2>1, Durations, <1>1 DEF Types, Smaller
  <2> QED
    BY <1>2, <1>4, <1>6, <2>1, <2>2 DEF Types
<1>10. OpenEnds'
  <2> SUFFICES ASSUME process = "serving", Open(env)
               PROVE  /\ since' <= Wait /\ since' <= timer' - First
                      /\ env # file => calm' <= since' + StartTicks
    BY <1>1 DEF OpenEnds
  <2>1. since <= timer - First /\ timer < Round /\ Counts
        /\ (env # file => calm <= since + StartTicks)
    BY <1>1, <1>2 DEF IInv, OpenEnds, Counts, Types
  <2>2. since' = since + 1
    BY <1>1, <1>2, <2>1, Durations DEF Types, Smaller
  <2> QED
    BY <1>1, <1>2, <1>4, <2>1, <2>2, Durations DEF Types
<1> QED
  BY <1>7, <1>8, <1>9, <1>10 DEF IInv

(* Every step keeps the invariant.                                          *)
LEMMA IInvStep == IInv /\ [Next]_vars => IInv'
<1> SUFFICES ASSUME IInv, [Next]_vars PROVE IInv'
  OBVIOUS
<1> USE DEF IInv, Types, InTime, StartsCurrent, OpenEnds, OldWindow, StopTime
<1>1. CASE AutoRestart
  BY <1>1, LaunchKeeps DEF AutoRestart, checkVars
<1>2. CASE Boot
  BY <1>2, Durations DEF Boot, checkVars
<1>3. CASE BootFails
  BY <1>3, Durations DEF BootFails, Exits, Becomes, checkVars
<1>4. CASE DecodeFails \/ ListenerEnds
  BY <1>4 DEF DecodeFails, ListenerEnds, checkVars
<1>5. CASE CheckBegins
  BY <1>5, Durations DEF CheckBegins, unitVars
<1>6. CASE FetchHealth
  BY <1>6 DEF FetchHealth, unitVars
<1>7. CASE FetchStatus
  BY <1>7, OpenIsUnsafe DEF FetchStatus, Done, unitVars
<1>8. CASE RestartUnit
  <2>1. CASE process = "none"
    BY <1>8, <2>1, LaunchKeeps DEF RestartUnit, Done
  <2>2. CASE process # "none"
    BY <1>8, <2>2, Durations DEF RestartUnit, Ends, checkVars
  <2> QED
    BY <2>1, <2>2
<1>9. CASE Killed
  BY <1>9, Durations DEF Killed, Exits, Becomes, checkVars
<1>10. CASE StopUnit
  BY <1>10, Durations DEF StopUnit, Becomes, Ends, Done, checkVars
<1>11. ASSUME NEW p \in Parts, Break(p) \/ Repair(p) PROVE IInv'
  BY <1>11, Durations DEF Break, Repair, checkVars, unitVars
<1>12. ASSUME NEW f \in Files, Edit(f) PROVE IInv'
  BY <1>12, Durations DEF Edit, checkVars, unitVars
<1>13. CASE Tick
  BY <1>13, TickKeeps
<1>14. CASE UNCHANGED vars
  BY <1>14 DEF vars, checkVars, unitVars
<1>15. CASE StopEnds
  <2>1. CASE unit = "restarting"
    BY <1>15, <2>1, LaunchKeeps DEF StopEnds, Done
  <2>2. CASE unit # "restarting"
    BY <1>15, <2>2, Durations DEF StopEnds, Becomes, checkVars
  <2> QED
    BY <2>1, <2>2
<1> QED
  BY <1>1, <1>2, <1>3, <1>4, <1>5, <1>6, <1>7, <1>8, <1>9, <1>10, <1>11, <1>12, <1>13, <1>14,
     <1>15 DEF Next, Program, Checker, Outside

(* The invariant holds of every behaviour.                                  *)
LEMMA InvariantHolds == Spec => []IInv
BY IInvInit, IInvStep, PTL DEF Spec

(* cobalt-boat-healthcheck:81-84: for every timing of the units and all     *)
(* files, a life in which writes are possible ends with a health check.     *)
THEOREM OpenLivesEnd == Spec => []OpenLivesAreShort
<1>1. IInv => OpenLivesAreShort
  BY Durations DEF IInv, Types, OpenEnds, OpenLivesAreShort
<1> QED
  BY <1>1, InvariantHolds, PTL

(* Settings that let writes through have no word for on as their stop.      *)
LEMMA OpenIsNotStopped ==
    ASSUME NEW e, Open(e), "emergency_disable" \in DOMAIN e
    PROVE  Normalised(e["emergency_disable"]) \notin TRUE_VALUES
<1>1. "emergency_disable" \in DOMAIN Switches /\ Switches["emergency_disable"] = FALSE
  BY DEF Switches
<1>2. ~FromEnv(e)["emergency_disable"]
  BY DEF Open
<1>3. FromEnv(e)["emergency_disable"]
         = ParseBool(e["emergency_disable"], Switches["emergency_disable"])
  BY <1>1 DEF FromEnv
<1> QED
  BY <1>1, <1>2, <1>3 DEF ParseBool

(* config.py:165-173: if nothing was disturbed for longer than a start and  *)
(* the way to a check may take, only a text for emergency_disable that is *)
(* no word for on can have been lost.                                       *)
THEOREM StopsAreHeeded ==
    ASSUME Horizon > Wait + StartTicks
    PROVE  Spec => []OnlyMisspeltStopIsLost
<1>1. IInv => OnlyMisspeltStopIsLost
  <2> SUFFICES ASSUME IInv, calm = Horizon, process = "serving", Open(env),
                      "emergency_disable" \in DOMAIN file
               PROVE  Normalised(file["emergency_disable"]) \notin TRUE_VALUES
    BY DEF OnlyMisspeltStopIsLost
  <2>1. since <= Wait
    BY Durations DEF IInv, Types, OpenEnds
  <2>2. env = file
    BY <2>1, Durations DEF IInv, Types, OpenEnds
  <2> QED
    BY <2>2, OpenIsNotStopped
<1> QED
  BY <1>1, InvariantHolds, PTL

---------------------------------------------------------------------------
(* Recovery.  While it lasts, the calm is shorter than a bound that depends *)
(* on where the unit is; past all these bounds the service must be settled. *)

\* The service and its check are as they should be, and nothing will change.
Matches == SafeSettings(env) /\ PortOf(env) = PortOf(file)

Settled ==
    /\ process = "serving" /\ listening /\ ~faulted /\ broken = {} /\ Matches
    /\ check # "restart" /\ (check # "idle" => asked = PortOf(file))

\* When nothing but a restart was missing, the latest a check may ask for one.
Latest == Horizon - 1 - StartTicks - StopTicks

\* A stop and a start are over before the next check is due.  The bounds on
\* calm leave room for a start that fails, the restart and its start; for a
\* start or a stop and a check; and for a check that is refused in the open
\* interval of the start limit and the next one.
LongEnough ==
    /\ StopTicks + StartTicks < Period /\ Burst >= 2
    /\ RestartSec + 2 * StartTicks <= Latest
    /\ StartTicks + Wait <= Latest
    /\ StopTicks + Wait <= Latest
    /\ Interval + Wait <= Latest

\* In the open interval there is room for one more start, or it is old.
WindowSpared == OldWindow \/ window.count <= 1

\* Nothing stands in the way of a start under the file.
Recoverable == broken \subseteq Repaired(file) /\ Startable(file) /\ SafeSettings(file)

Waits == unit = "waiting" => calm <= StartTicks + since /\ OldWindow

\* A stop is for a restart that the health check asked for in time, or it is
\* the operator's.
Stops ==
    process = "stopping" =>
        IF unit = "restarting" THEN calm <= Latest + since /\ WindowSpared
                               ELSE calm <= since /\ OldWindow

\* A start that the health check made is over before the next check.
Starts ==
    process = "starting" /\ env = file =>
        \/ check = "idle" /\ timer <= since + StopTicks /\ calm <= Latest + StopTicks + since
        \/ calm <= StartTicks + RestartSec + since /\ WindowSpared

\* What is not settled is restarted by the next check.
Checked ==
    process = "serving" \/ unit \in {"failed", "stopped"} =>
        \/ Settled
        \/ /\ WindowSpared /\ calm <= Latest
           /\ check = "idle" => calm + Round <= Latest + timer

\* The link goes down, and is passed by a check that has asked before, only
\* early in the calm.
PassedEarly ==
    process = "serving" =>
        /\ listening /\ "link" \in broken => calm <= StartTicks
        /\ check = "status" /\ Matches => Settled \/ calm <= StartTicks

Recovers == Waits /\ Stops /\ Starts /\ Checked /\ PassedEarly

RecoverInv == Recoverable => Recovers

---------------------------------------------------------------------------
Disturbed == calm = 0

(* At the moment of a disturbance all bounds are kept.                      *)
LEMMA AtOnce == LongEnough /\ Types /\ InTime /\ Disturbed => Recovers
BY Durations DEF LongEnough, Types, InTime, Disturbed, Recovers, Waits, Stops, Starts, Checked,
   PassedEarly, WindowSpared, OldWindow, Latest

(* The same of the moment after.                                            *)
LEMMA AtOnceNext == LongEnough' /\ Types' /\ InTime' /\ Disturbed' => Recovers'
BY AtOnce, PTL

(* What is broken under a recoverable service is its link, and the file     *)
(* sets it up.                                                              *)
LEMMA OnlyTheLink ==
    ASSUME Recoverable
    PROVE  /\ broken \subseteq {"link"} /\ "decoder" \notin broken
           /\ "database" \notin broken /\ "ip" \notin broken
           /\ "link" \in broken => FromEnv(file)["auto_configure_can_interface"]
           /\ Startable(file) /\ SafeSettings(file)
BY DEF Recoverable, Repaired

(* A tick: every bound that counts the calm has a clock beside it.          *)
LEMMA TickRecovers ==
    ASSUME LongEnough, IInv, Recoverable, Recovers, Tick
    PROVE  Recovers'
<1>1. /\ UNCHANGED <<file, broken, unit, process, env, listening, faulted, check, asked>>
      /\ since' = (IF Counts THEN Smaller(since + 1, Longest) ELSE since)
      /\ timer' = timer + 1
      /\ (check = "idle" /\ timer < Round) \/ unit = "restarting"
      /\ window' = (IF window.age < Interval THEN [window EXCEPT !.age = @ + 1] ELSE Expired)
      /\ calm' = Smaller(calm + 1, Horizon)
      /\ process = "starting" => since < StartTicks
      /\ process = "stopping" => since < StopTime
      /\ unit = "waiting" => since < RestartSec
      /\ ~(listening /\ "link" \in broken)
  BY DEF Tick, NothingDue
<1>2. Types
  BY DEF IInv
<1>3. calm' <= calm + 1 /\ calm' \in Nat /\ calm \in Nat
  BY <1>1, <1>2, Durations DEF Types, Smaller
<1>4. unit = "waiting" \/ process \in {"starting", "stopping"} => since' = since + 1
  BY <1>1, <1>2, Durations DEF Types, Smaller, Counts
<1>5. /\ OldWindow => OldWindow'
      /\ WindowSpared => WindowSpared'
  BY <1>1, <1>2, <1>3, Durations DEF Types, OldWindow, WindowSpared, Expired
<1>6. Waits'
  BY <1>1, <1>2, <1>3, <1>4, <1>5, Durations DEF Recovers, Waits, Types
<1>7. Starts'
  <2> SUFFICES ASSUME process = "starting", env = file
               PROVE  \/ /\ check = "idle" /\ timer' <= since' + StopTicks
                         /\ calm' <= Latest + StopTicks + since'
                      \/ calm' <= StartTicks + RestartSec + since' /\ WindowSpared'
    BY <1>1 DEF Starts
  <2>1. \/ check = "idle" /\ timer <= since + StopTicks /\ calm <= Latest + StopTicks + since
        \/ calm <= StartTicks + RestartSec + since /\ WindowSpared
    BY <1>1 DEF Recovers, Starts
  <2>2. Latest \in Int
    BY Durations DEF Latest
  <2> QED
    BY <1>1, <1>2, <1>3, <1>4, <1>5, <2>1, <2>2, Durations DEF Types
<1>8. Checked'
  <2> SUFFICES ASSUME process = "serving" \/ unit \in {"failed", "stopped"}
               PROVE  \/ Settled'
                      \/ WindowSpared' /\ calm' <= Latest /\ calm' + Round <= Latest + timer'
    BY <1>1 DEF Checked
  <2>0. check = "idle" /\ timer < Round
    BY <1>1, <1>2 DEF Types
  <2>1. Settled \/ (WindowSpared /\ calm <= Latest /\ calm + Round <= Latest + timer)
    BY <2>0 DEF Recovers, Checked
  <2>2. Settled => Settled'
    BY <1>1 DEF Settled, Matches
  <2>3. Latest \in Int
    BY Durations DEF Latest
  <2> QED
    BY <1>1, <1>2, <1>3, <1>5, <2>0, <2>1, <2>2, <2>3, Durations DEF Types
<1>9. PassedEarly'
  <2>1. process = "serving" => check = "idle" /\ ~(listening /\ "link" \in broken)
    BY <1>1, <1>2 DEF Types
  <2> QED
    BY <1>1, <2>1 DEF PassedEarly
<1>10. Stops'
  <2>1. Latest \in Int
    BY Durations DEF Latest
  <2> QED
    BY <1>1, <1>2, <1>3, <1>4, <1>5, <2>1, Durations DEF Recovers, Stops, Types
<1> QED
  BY <1>6, <1>7, <1>8, <1>9, <1>10 DEF Recovers

(* A launch by the health check starts the service for good, or is refused  *)
(* in an interval of the start limit that is older than the calm.           *)
LEMMA CheckLaunches ==
    ASSUME LongEnough, IInv, Launch, UNCHANGED <<file, calm, broken, timer>>, check' = "idle",
           timer <= StopTicks \/ calm = 0, calm <= Latest + StopTicks, WindowSpared
    PROVE  Recovers'
<1>1. Launched /\ since' = 0
  BY LaunchLeaves DEF IInv
<1>2. Types /\ Latest \in Int
  BY Durations DEF IInv, Latest
<1>3. CASE process' = "starting" /\ unit' = "active" /\ env' = file
  <2>1. CASE timer <= StopTicks
    BY <1>1, <1>2, <1>3, <2>1, Durations
       DEF Recovers, Waits, Stops, Starts, Checked, PassedEarly, Types
  <2>2. CASE calm = 0
    <3>1. WindowSpared'
      BY <1>1, <1>2, <2>2, LaunchLeaves DEF WindowSpared, OldWindow, Types
    <3> QED
      BY <1>1, <1>2, <1>3, <2>2, <3>1, Durations
         DEF Recovers, Waits, Stops, Starts, Checked, PassedEarly, Types
  <2> QED
    BY <2>1, <2>2
<1>4. CASE /\ process' = "none" /\ unit' = "failed" /\ UNCHANGED window
           /\ window.age <= Interval /\ window.count = Burst
  <2>1. calm <= Interval
    BY <1>2, <1>4, Durations DEF LongEnough, WindowSpared, OldWindow, Types
  <2>2. calm <= Latest /\ calm + Round <= Latest + timer
    BY <1>2, <2>1, Durations DEF LongEnough, Types
  <2>3. WindowSpared'
    BY <1>4 DEF WindowSpared, OldWindow
  <2> QED
    BY <1>4, <2>2, <2>3, Durations DEF Recovers, Waits, Stops, Starts, Checked, PassedEarly, Round
<1> QED
  BY <1>1, <1>3, <1>4 DEF Launched

(* A stop of a recoverable service is not kept by its decoder.              *)
LEMMA StopInTime ==
    ASSUME InTime, Recoverable, process = "stopping"
    PROVE  since <= StopTicks \/ calm = 0
BY OnlyTheLink DEF InTime, StopTime

(* The restart that the health check asks for.                              *)
LEMMA RestartUnitRecovers ==
    ASSUME LongEnough, IInv, Recoverable, Recovers, RestartUnit
    PROVE  Recovers'
<1>1. /\ UNCHANGED <<file, calm, broken, timer>> /\ check = "restart" /\ unit # "restarting"
  BY DEF RestartUnit, Done, checkVars
<1>2. Types /\ InTime /\ StartsCurrent /\ Latest \in Int
  BY Durations DEF IInv, Latest
<1>3. timer = 0
  BY <1>1, <1>2 DEF InTime
<1>4. calm <= Latest /\ WindowSpared
  <2>1. CASE unit = "waiting"
    BY <1>2, <2>1, Durations
       DEF Recovers, Waits, WindowSpared, Types, InTime, LongEnough, Latest
  <2>2. CASE process = "starting" /\ env = file
    BY <1>1, <1>2, <2>2, Durations
       DEF Recovers, Starts, Types, InTime, LongEnough, Latest
  <2>3. CASE process = "starting" /\ env # file
    BY <1>2, <2>3, Durations
       DEF StartsCurrent, WindowSpared, Types, InTime, LongEnough, Latest
  <2>4. CASE process = "serving" \/ unit \in {"failed", "stopped"}
    BY <1>1, <2>4 DEF Recovers, Checked, Settled
  <2>5. CASE unit = "stopping"
    <3>1. process = "stopping" /\ calm <= since /\ OldWindow
      BY <1>2, <2>5 DEF Recovers, Stops, Types
    <3>2. calm <= StopTicks
      BY <1>2, <3>1, StopInTime, Durations DEF Types
    <3> QED
      BY <1>2, <3>1, <3>2, Durations DEF WindowSpared, LongEnough, Types
  <2> QED
    BY <1>1, <1>2, <2>1, <2>2, <2>3, <2>4, <2>5 DEF Types
<1>5. CASE process = "none"
  <2>1. Launch /\ check' = "idle"
    BY <1>5 DEF RestartUnit, Done
  <2> QED
    <3>1. timer <= StopTicks /\ calm <= Latest + StopTicks
      BY <1>2, <1>3, <1>4, Durations DEF Types
    <3> QED
      BY <1>1, <1>4, <2>1, <3>1, CheckLaunches
<1>6. CASE process # "none"
  <2>1. /\ unit' = "restarting" /\ process' = "stopping" /\ UNCHANGED window
        /\ since' \in Nat /\ calm \in Int
    BY <1>2, <1>6 DEF RestartUnit, Ends, Types
  <2>2. Stops'
    <3>1. \A a, b \in Int, c \in Nat : a <= b => a <= b + c
      OBVIOUS
    <3>2. calm <= Latest + since'
      BY <1>2, <1>4, <2>1, <3>1
    <3> QED
      BY <1>1, <1>4, <2>1, <3>2 DEF Stops, WindowSpared, OldWindow
  <2> QED
    BY <2>1, <2>2 DEF Recovers, Waits, Starts, Checked, PassedEarly
<1> QED
  BY <1>5, <1>6

(* What the unit was stopped for.                                           *)
LEMMA StopEndsRecovers ==
    ASSUME LongEnough, IInv, Recoverable, Recovers, StopEnds
    PROVE  Recovers'
<1>1. /\ UNCHANGED <<file, calm, broken, timer>> /\ process = "stopping"
  BY DEF StopEnds, Done, checkVars
<1>2. Types /\ InTime /\ Latest \in Int
  BY Durations DEF IInv, Latest
<1>3. since <= StopTicks \/ calm = 0
  BY <1>1, <1>2, StopInTime
<1>4. CASE unit = "restarting"
  <2>1. Launch /\ check' = "idle"
    BY <1>4 DEF StopEnds, Done
  <2>2. calm <= Latest + since /\ WindowSpared /\ timer <= since
    BY <1>1, <1>2, <1>4 DEF Recovers, Stops, InTime
  <2>3. calm <= Latest + StopTicks /\ (timer <= StopTicks \/ calm = 0)
    BY <1>2, <1>3, <2>2, Durations DEF Types, LongEnough
  <2> QED
    BY <1>1, <2>1, <2>2, <2>3, CheckLaunches
<1>5. CASE unit # "restarting"
  <2>1. /\ unit' = "stopped" /\ process' = "none" /\ UNCHANGED <<window, check>>
    BY <1>5 DEF StopEnds, Becomes, checkVars
  <2>2. calm <= since /\ OldWindow
    BY <1>1, <1>5 DEF Recovers, Stops
  <2>3. calm <= StopTicks
    BY <1>2, <1>3, <2>2, Durations DEF Types
  <2>4. WindowSpared' /\ calm <= Latest /\ calm + Round <= Latest + timer
    BY <1>1, <1>2, <2>1, <2>2, <2>3, Durations DEF WindowSpared, OldWindow, LongEnough, Types
  <2> QED
    BY <1>1, <2>1, <2>4, Durations
       DEF Recovers, Waits, Stops, Starts, Checked, PassedEarly, Round
<1> QED
  BY <1>4, <1>5

(* The restart that systemd makes by itself.                                *)
LEMMA AutoRestartRecovers ==
    ASSUME LongEnough, IInv, Recovers, AutoRestart
    PROVE  Recovers'
<1>1. /\ Launch /\ UNCHANGED <<file, calm, broken, timer, check, asked>>
      /\ unit = "waiting" /\ since >= RestartSec
  BY DEF AutoRestart, checkVars
<1>2. Types /\ InTime /\ Latest \in Int
  BY Durations DEF IInv, Latest
<1>3. calm <= StartTicks + RestartSec /\ OldWindow
  BY <1>1, <1>2, Durations DEF Recovers, Waits, InTime, Types
<1>4. Launched /\ since' = 0
  BY <1>1, <1>2, LaunchLeaves
<1>5. CASE process' = "starting" /\ unit' = "active" /\ env' = file
  <2>1. WindowSpared'
    <3>1. \/ window'.count = 1
          \/ window'.age = window.age
      BY <1>1, <1>2, <1>5 DEF Launch, Becomes, Types
    <3> QED
      BY <1>1, <1>3, <3>1 DEF WindowSpared, OldWindow
  <2> QED
    BY <1>1, <1>2, <1>3, <1>4, <1>5, <2>1, Durations
       DEF Recovers, Waits, Stops, Starts, Checked, PassedEarly, Types
<1>6. CASE /\ process' = "none" /\ unit' = "failed" /\ UNCHANGED window
           /\ window.age <= Interval /\ window.count = Burst
  <2>1. calm <= Interval
    BY <1>2, <1>3, <1>6, Durations DEF OldWindow, Types
  <2>2. calm + Round <= Latest + timer /\ calm <= Latest
    BY <1>2, <2>1, Durations DEF LongEnough, Types
  <2>3. WindowSpared'
    BY <1>1, <1>3, <1>6 DEF WindowSpared, OldWindow
  <2> QED
    BY <1>1, <1>6, <2>2, <2>3, Durations
       DEF Recovers, Waits, Stops, Starts, Checked, PassedEarly, Round
<1> QED
  BY <1>4, <1>5, <1>6 DEF Launched

(* A start under an older file fails early in the calm; one under the file  *)
(* does not fail.                                                           *)
LEMMA BootFailsRecovers ==
    ASSUME LongEnough, IInv, Recoverable, Recovers, BootFails
    PROVE  Recovers'
<1>1. /\ UNCHANGED <<file, calm, broken, timer, check, asked, window, env>>
      /\ process = "starting" /\ unit' = "waiting" /\ process' = "none" /\ since' = 0
      /\ Raises(env) \/ DecoderRefused(env) \/ broken \cap {"database", "decoder"} # {}
  BY DEF BootFails, Exits, Becomes, checkVars
<1>2. env # file
  BY <1>1, OnlyTheLink DEF Startable
<1>3. calm <= StartTicks /\ OldWindow
  BY <1>1, <1>2, Durations DEF IInv, StartsCurrent, InTime, Types
<1>4. Waits'
  BY <1>1, <1>3, Durations DEF Waits, OldWindow
<1> QED
  BY <1>1, <1>4 DEF Recovers, Stops, Starts, Checked, PassedEarly

(* A boot under the file settles the service, unless a check is about to    *)
(* restart it; one under an older file comes early in the calm, and may     *)
(* repair the link for good.                                                *)
LEMMA BootRecovers ==
    ASSUME LongEnough, IInv, RecoverInv, Recoverable', Boot
    PROVE  Recovers'
<1>1. /\ UNCHANGED <<file, calm, timer, check, asked, window, env, unit>>
      /\ process = "starting" /\ process' = "serving" /\ since' = 0
      /\ listening' = TRUE /\ faulted' = FALSE /\ broken' \in EnsureUp
  BY DEF Boot, checkVars
<1>2. Types /\ InTime /\ unit = "active" /\ Latest \in Int
  BY <1>1, Durations DEF IInv, Types, Latest
<1>3. CASE env # file
  <2>1. calm <= StartTicks /\ OldWindow
    BY <1>1, <1>2, <1>3, Durations DEF IInv, StartsCurrent, InTime, Types
  <2>2. calm + Round <= Latest + timer /\ calm <= Latest
    BY <1>2, <2>1, Durations DEF LongEnough, Types
  <2>3. WindowSpared'
    BY <1>1, <2>1 DEF WindowSpared, OldWindow
  <2>4. Waits' /\ Stops' /\ Starts'
    BY <1>1, <1>2 DEF Waits, Stops, Starts
  <2>5. Checked'
    BY <1>1, <2>2, <2>3, Durations DEF Checked
  <2>6. PassedEarly'
    BY <1>1, <2>1, Durations DEF PassedEarly
  <2> QED
    BY <2>4, <2>5, <2>6 DEF Recovers
<1>4. CASE env = file
  <2>1. broken' \subseteq {"link"} /\ SafeSettings(file)
        /\ ("link" \in broken' => FromEnv(file)["auto_configure_can_interface"])
        /\ Startable(file)
    <3>1. Recoverable' => /\ broken' \subseteq {"link"} /\ SafeSettings(file)
             /\ ("link" \in broken' => FromEnv(file)["auto_configure_can_interface"])
             /\ Startable(file)
      BY <1>1 DEF Recoverable, Repaired
    <3> QED
      BY <3>1
  <2>2. broken' = {} /\ Recoverable
    <3>1. CASE ~settings["auto_configure_can_interface"]
      <4>1. broken' = broken
        BY <1>1, <3>1 DEF EnsureUp
      <4>2. ~FromEnv(file)["auto_configure_can_interface"]
        BY <1>4, <3>1 DEF settings
      <4> QED
        BY <2>1, <4>1, <4>2 DEF Recoverable, Repaired
    <3>2. CASE settings["auto_configure_can_interface"]
      <4>1. FromEnv(file)["auto_configure_can_interface"]
        BY <1>4, <3>2 DEF settings
      <4>2. "ip" \notin broken
        BY <1>1, <2>1, <3>2 DEF EnsureUp
      <4>3. broken' = broken \ {"link"}
        BY <1>1, <3>2, <4>2 DEF EnsureUp
      <4> QED
        BY <2>1, <4>1, <4>3 DEF Recoverable, Repaired
    <3> QED
      BY <3>1, <3>2
  <2>3. Recovers
    BY <2>2 DEF RecoverInv
  <2>4. Matches'
    BY <1>1, <1>4, <2>1 DEF Matches
  <2>5. Waits' /\ Stops' /\ Starts'
    BY <1>1, <1>2 DEF Waits, Stops, Starts
  <2>6. CASE check # "restart" /\ (check # "idle" => asked = PortOf(file))
    <3>1. Settled'
      BY <1>1, <2>2, <2>4, <2>6 DEF Settled
    <3> QED
      BY <1>1, <2>2, <2>5, <3>1 DEF Recovers, Checked, PassedEarly
  <2>7. CASE ~(check # "restart" /\ (check # "idle" => asked = PortOf(file)))
    <3>1. check # "idle"
      BY <2>7
    <3>2. calm <= StartTicks + RestartSec + since /\ WindowSpared
      BY <1>1, <1>4, <2>3, <3>1 DEF Recovers, Starts
    <3>3. calm <= Latest
      BY <1>1, <1>2, <3>2, Durations DEF InTime, LongEnough, Types
    <3>4. WindowSpared'
      BY <1>1, <3>2 DEF WindowSpared, OldWindow
    <3>5. check = "status" => calm = 0
      BY <1>2, <2>7, <3>1 DEF InTime, Types
    <3>6. Checked'
      BY <1>1, <3>1, <3>3, <3>4, Durations DEF Checked
    <3>7. PassedEarly'
      BY <1>1, <2>2, <3>5, Durations DEF PassedEarly
    <3> QED
      BY <2>5, <3>6, <3>7 DEF Recovers
  <2> QED
    BY <2>6, <2>7
<1> QED
  BY <1>3, <1>4

(* The link is down only early in the calm.                                 *)
LEMMA ListenerEndRecovers ==
    ASSUME LongEnough, IInv, Recoverable, Recovers, ListenerEnds
    PROVE  Recovers'
<1>1. /\ UNCHANGED <<file, calm, broken, timer, check, asked, window, env, unit, process, since>>
      /\ process = "serving" /\ listening /\ "link" \in broken /\ listening' = FALSE
  BY DEF ListenerEnds, checkVars
<1>2. Types /\ Latest \in Int
  BY Durations DEF IInv, Latest
<1>3. ~Settled /\ calm <= StartTicks
  BY <1>1 DEF Recovers, PassedEarly, Settled
<1>4. Waits' /\ Stops' /\ Starts'
  BY <1>1, <1>2 DEF Waits, Stops, Starts, Types
<1>5. WindowSpared' /\ calm <= Latest /\ (check = "idle" => calm + Round <= Latest + timer)
  BY <1>1, <1>3 DEF Recovers, Checked, WindowSpared, OldWindow
<1>6. Checked'
  BY <1>1, <1>5 DEF Checked
<1>7. PassedEarly'
  BY <1>1, <1>3 DEF PassedEarly
<1> QED
  BY <1>4, <1>6, <1>7 DEF Recovers

(* A check of a settled service asks under the right port.                  *)
LEMMA CheckBeginsRecovers ==
    ASSUME LongEnough, IInv, Recovers, CheckBegins
    PROVE  Recovers'
<1>1. /\ UNCHANGED <<file, calm, broken, window, env, unit, process, since, listening, faulted>>
      /\ check = "idle" /\ timer >= Period /\ check' = "health" /\ timer' = 0
      /\ asked' = PortOf(file)
  BY DEF CheckBegins, unitVars
<1>2. Types /\ InTime /\ Latest \in Int
  BY Durations DEF IInv, Latest
<1>3. WindowSpared => WindowSpared'
  BY <1>1 DEF WindowSpared, OldWindow
<1>4. Waits'
  BY <1>1 DEF Recovers, Waits, OldWindow
<1>5. Starts'
  BY <1>1, <1>2, <1>3, Durations DEF Recovers, Starts, InTime, Types, LongEnough
<1>6. Checked'
  <2>1. Settled => Settled'
    BY <1>1 DEF Settled, Matches
  <2> QED
    BY <1>1, <1>3, <2>1 DEF Recovers, Checked
<1>7. PassedEarly'
  BY <1>1 DEF Recovers, PassedEarly
<1>8. Stops'
  BY <1>1, <1>3 DEF Recovers, Stops, OldWindow
<1> QED
  BY <1>4, <1>5, <1>6, <1>7, <1>8 DEF Recovers

(* A settled service answers that it is healthy.                            *)
LEMMA FetchHealthRecovers ==
    ASSUME LongEnough, IInv, Recoverable, Recovers, FetchHealth
    PROVE  Recovers'
<1>1. /\ UNCHANGED <<file, calm, broken, window, env, unit, process, since, listening,
                     faulted, timer, asked>>
      /\ check = "health"
      /\ \/ Reached /\ Healthy /\ check' = "status"
         \/ (Reached /\ Healthy => "decoder" \in broken) /\ check' = "restart"
  BY DEF FetchHealth, unitVars
<1>2. Types /\ InTime /\ Latest \in Int
  BY Durations DEF IInv, Latest
<1>3. broken \subseteq {"link"} /\ "decoder" \notin broken /\ "database" \notin broken
  BY OnlyTheLink
<1>4. Settled => Settled'
  <2> SUFFICES ASSUME Settled PROVE check' # "restart"
    BY <1>1 DEF Settled, Matches
  <2>1. Reached /\ Healthy
    BY <1>1 DEF Settled, Matches, Reached, Healthy
  <2> QED
    BY <1>1, <1>3, <2>1
<1>5. WindowSpared => WindowSpared'
  BY <1>1 DEF WindowSpared, OldWindow
<1>6. Waits'
  BY <1>1 DEF Recovers, Waits, OldWindow
<1>7. Starts'
  BY <1>1, <1>5 DEF Recovers, Starts
<1>8. Checked'
  BY <1>1, <1>4, <1>5 DEF Recovers, Checked
<1>9. PassedEarly'
  <2> SUFFICES ASSUME process = "serving", check' = "status", Matches
               PROVE  Settled' \/ calm <= StartTicks
    BY <1>1 DEF Recovers, PassedEarly, Matches
  <2>1. Reached /\ Healthy
    BY <1>1
  <2>2. CASE "link" \in broken
    BY <2>1, <2>2 DEF Recovers, PassedEarly, Healthy
  <2>3. CASE "link" \notin broken /\ asked = PortOf(file)
    BY <1>1, <1>3, <2>1, <2>3 DEF Settled, Matches, Healthy
  <2>4. CASE asked # PortOf(file)
    BY <1>1, <1>2, <2>4, Durations DEF InTime, Types
  <2> QED
    BY <2>2, <2>3, <2>4
<1>10. Stops'
  BY <1>1, <1>5 DEF Recovers, Stops, OldWindow
<1> QED
  BY <1>6, <1>7, <1>8, <1>9, <1>10 DEF Recovers

(* A check that passes has asked a settled service, or it is early.         *)
LEMMA FetchStatusRecovers ==
    ASSUME LongEnough, IInv, Recoverable, Recovers, FetchStatus
    PROVE  Recovers'
<1>1. /\ UNCHANGED <<file, calm, broken, window, env, unit, process, since, listening,
                     faulted, timer>>
      /\ check = "status"
      /\ \/ Reached /\ SafeSettings(env) /\ check' = "idle"
         \/ ~(Reached /\ SafeSettings(env)) /\ check' = "restart" /\ asked' = asked
  BY DEF FetchStatus, unitVars, Done
<1>2. Types /\ InTime /\ timer = 0 /\ unit # "restarting" /\ Latest \in Int
  BY <1>1, Durations DEF IInv, Latest, InTime, Types
<1>3. Settled => Settled'
  BY <1>1 DEF Settled, Matches, Reached
<1>4. WindowSpared => WindowSpared'
  BY <1>1 DEF WindowSpared, OldWindow
<1>5. Waits'
  BY <1>1 DEF Recovers, Waits, OldWindow
<1>6. Starts'
  BY <1>1, <1>4 DEF Recovers, Starts, Reached
<1>7. Checked'
  <2>1. CASE check' = "restart"
    BY <1>1, <1>3, <1>4, <2>1 DEF Recovers, Checked
  <2>2. CASE check' = "idle"
    <3>1. process = "serving" /\ SafeSettings(env) /\ asked = PortOf(env)
      BY <1>1, <2>2 DEF Reached
    <3>2. Settled \/ calm <= StartTicks
      <4>1. CASE PortOf(env) = PortOf(file)
        BY <1>1, <3>1, <4>1 DEF Recovers, PassedEarly, Matches
      <4>2. CASE PortOf(env) # PortOf(file)
        BY <1>1, <1>2, <3>1, <4>2, Durations DEF InTime, Types
      <4> QED
        BY <4>1, <4>2
    <3>3. calm <= StartTicks => calm + Round <= Latest + timer
      BY <1>2, Durations DEF LongEnough, Types
    <3> QED
      BY <1>1, <1>3, <1>4, <2>2, <3>1, <3>2, <3>3 DEF Recovers, Checked
  <2> QED
    BY <1>1, <2>1, <2>2
<1>8. PassedEarly'
  BY <1>1 DEF Recovers, PassedEarly
<1>9. Stops'
  BY <1>1, <1>4 DEF Recovers, Stops, OldWindow
<1> QED
  BY <1>5, <1>6, <1>7, <1>8, <1>9 DEF Recovers

(* Every step keeps the bounds.                                             *)
LEMMA RecoverInvStep ==
    LongEnough /\ IInv /\ IInv' /\ RecoverInv /\ [Next]_vars => RecoverInv'
<1> SUFFICES ASSUME LongEnough, IInv, IInv', RecoverInv, [Next]_vars, Recoverable'
             PROVE  Recovers'
  BY DEF RecoverInv
<1>1. ASSUME UNCHANGED <<file, broken>> PROVE Recoverable /\ Recovers
  BY <1>1 DEF Recoverable, RecoverInv
<1>2. CASE AutoRestart
  BY <1>1, <1>2, AutoRestartRecovers DEF AutoRestart
<1>3. CASE Boot
  BY <1>3, BootRecovers
<1>4. CASE BootFails
  BY <1>1, <1>4, BootFailsRecovers DEF BootFails
<1>5. CASE DecodeFails
  BY <1>1, <1>5, OnlyTheLink DEF DecodeFails
<1>6. CASE ListenerEnds
  BY <1>1, <1>6, ListenerEndRecovers DEF ListenerEnds
<1>7. CASE CheckBegins
  BY <1>1, <1>7, CheckBeginsRecovers DEF CheckBegins
<1>8. CASE FetchHealth
  BY <1>1, <1>8, FetchHealthRecovers DEF FetchHealth
<1>9. CASE FetchStatus
  BY <1>1, <1>9, FetchStatusRecovers DEF FetchStatus
<1>10. CASE RestartUnit
  BY <1>1, <1>10, RestartUnitRecovers DEF RestartUnit
<1>11. CASE Tick
  BY <1>1, <1>11, TickRecovers DEF Tick
<1>12. CASE Outside
  <2>1. Disturbed'
    BY <1>12 DEF Outside, Killed, StopUnit, Break, Repair, Edit, Disturbed
  <2>2. LongEnough' /\ Types' /\ InTime'
    BY DEF IInv, LongEnough, Latest, Round
  <2> QED
    BY <2>1, <2>2, AtOnceNext
<1>13. CASE UNCHANGED vars
  BY <1>1, <1>13 DEF vars, unitVars, checkVars, Recovers, Waits, Stops, Starts, Checked, PassedEarly,
     WindowSpared, OldWindow, Settled, Matches
<1>14. CASE StopEnds
  BY <1>1, <1>14, StopEndsRecovers DEF StopEnds
<1> QED
  BY <1>2, <1>3, <1>4, <1>5, <1>6, <1>7, <1>8, <1>9, <1>10, <1>11, <1>12, <1>13, <1>14
     DEF Next, Program, Checker

(* cobalt-boat-healthcheck:75-101: for every timing of the units, all files *)
(* and whatever happened before: if nothing is disturbed for longer than    *)
(* LongEnough adds up to and nothing is broken that a start would not       *)
(* repair, a service whose file is safe serves and is healthy.              *)
THEOREM ServiceRecovers ==
    ASSUME LongEnough
    PROVE  Spec => []RecoversInTime
<1>1. Init => RecoverInv
  <2> SUFFICES ASSUME Init PROVE RecoverInv
    OBVIOUS
  <2>1. Disturbed /\ IInv
    BY IInvInit DEF Init, Disturbed
  <2> QED
    BY <2>1, AtOnce DEF IInv, RecoverInv
<1>2. IInv /\ RecoverInv => RecoversInTime
  <2> SUFFICES ASSUME IInv, Recoverable, Recovers, calm = Horizon
               PROVE  Settled
    BY DEF RecoverInv, Recoverable, RecoversInTime, Settled, Matches, Healthy
  <2>1. Types /\ InTime /\ StartsCurrent /\ Latest = Horizon - 1 - StartTicks - StopTicks
    BY DEF IInv, Latest
  <2>2. unit # "waiting"
    BY <2>1, Durations DEF Types, InTime, Recovers, Waits, LongEnough
  <2>3. ~(process = "starting" /\ env # file)
    BY <2>1, Durations DEF Types, InTime, StartsCurrent, LongEnough
  <2>4. ~(process = "starting" /\ env = file)
    BY <2>1, Durations DEF Types, InTime, Recovers, Starts, LongEnough
  <2>5. process # "stopping"
    <3> SUFFICES ASSUME process = "stopping" PROVE FALSE
      OBVIOUS
    <3>1. since <= StopTicks \/ calm = 0
      BY <2>1, StopInTime
    <3> QED
      BY <2>1, <3>1, Durations DEF Types, Recovers, Stops, LongEnough
  <2>6. process = "serving" \/ unit \in {"failed", "stopped"}
    BY <2>1, <2>2, <2>3, <2>4, <2>5 DEF Types
  <2> QED
    BY <2>1, <2>6, Durations DEF Types, Recovers, Checked, LongEnough
<1> QED
  BY <1>1, <1>2, RecoverInvStep, InvariantHolds, PTL DEF Spec
=============================================================================
