---------------------------- MODULE Supervision ----------------------------
(***************************************************************************)
(* The lives of the service: systemd starts it (deploy/systemd), it reads  *)
(* its environment and boots or fails (api/app.py), systemd starts it again*)
(* within a start limit, and a timer runs scripts/cobalt-boat-healthcheck, *)
(* which asks /health and /status and restarts what it does not like.      *)
(* Operators edit the environment file and stop the unit; parts of the boat*)
(* break and are repaired.  systemd is external: it does what the unit     *)
(* files ask of it.                                                        *)
(*                                                                         *)
(* Time is counted in ticks.  What is due is done before the next tick.    *)
(***************************************************************************)
EXTENDS Settings

CONSTANTS Files,       \* what /etc/default/cobalt-boat may hold
          Parts,       \* what may be broken, of the parts below
          Interval,    \* StartLimitIntervalSec
          Burst,       \* StartLimitBurst
          RestartSec,  \* RestartSec of the service
          StartTicks,  \* how long the service may take to start
          StopTicks,   \* how long it may take to stop: listener, decoder, requests
          KillTicks,   \* how long, when its decoder hangs: TimeoutStopSec
          BootDelay,   \* OnBootSec of the health check's timer
          Period,      \* OnUnitActiveSec of that timer
          Accuracy,    \* AccuracySec of that timer
          Horizon      \* how long it is remembered that nothing was disturbed

ASSUME SupervisionAssumption ==
    /\ \A f \in Files : IsEnvironment(f)
    /\ Parts \subseteq {"decoder", "database", "link", "ip"}
    /\ {Interval, Burst, RestartSec, StartTicks, StopTicks, KillTicks, BootDelay, Period,
        Accuracy, Horizon} \subseteq Nat

\* The decoder, the database; the CAN interface, which is down; the commands
\* that set it up, one of which fails.
VARIABLES file,      \* the environment file as it is now
          broken,    \* the parts that do not work
          unit,      \* active, waiting for its restart, restarting, stopping, stopped or failed
          process,   \* the process: none, starting, serving, or stopping
          env,       \* the environment the process was, or was last, started with
          listening, \* SocketCanListener.is_running
          faulted,   \* PlatformService._decoder_faulted
          since,     \* ticks since the unit or the process changed, where it Counts
          window,    \* the start limit: starts counted, and ticks since the first
          timer,     \* ticks since the health check was last started, as many short
                     \* of Period at boot as it is to wait
          check,     \* where the health check is
          asked,     \* the port it asks, while it is not idle
          calm       \* auxiliary: ticks since anything was disturbed, up to Horizon

unitVars == <<unit, process, env, listening, faulted, since, window>>
checkVars == <<timer, check, asked>>
vars == <<file, broken, unitVars, checkVars, calm>>

Port80 == "0"

\* A health check follows the one before within this time.
Round == Period + Accuracy

\* The least that timer is, and the longest that a service waits for a check.
First == IF BootDelay > Period THEN Period - BootDelay ELSE 0
Wait == Round - First

\* More than any time that is compared with since.
Longest == Wait + RestartSec + StartTicks + StopTicks + KillTicks

\* The boat is switched on: systemd starts the unit when the network is up,
\* before the first check is due.
Init ==
    /\ file \in Files
    /\ broken \in SUBSET Parts
    /\ unit = "active" /\ process = "starting" /\ env = file
    /\ listening = FALSE /\ faulted = FALSE
    /\ since = 0
    /\ window = [count |-> 1, age |-> 0]
    /\ timer \in (Period - BootDelay)..Period /\ check = "idle" /\ asked = Port80
    /\ calm = 0

---------------------------------------------------------------------------
(* systemd: a start counts against the limit of its interval, or is refused *)
(* and leaves the unit failed.                                              *)

Becomes(u, p) ==
    /\ unit' = u /\ process' = p
    /\ since' = 0
    /\ listening' = FALSE /\ faulted' = FALSE

Launch ==
    \/ /\ window.age > Interval
       /\ window' = [count |-> 1, age |-> 0]
       /\ Becomes("active", "starting") /\ env' = file
    \/ /\ window.age <= Interval
       /\ window.count < Burst
       /\ window' = [window EXCEPT !.count = @ + 1]
       /\ Becomes("active", "starting") /\ env' = file
    \/ /\ window.age <= Interval
       /\ window.count = Burst
       /\ Becomes("failed", "none") /\ UNCHANGED <<window, env>>

\* Restart=on-failure
AutoRestart ==
    /\ unit = "waiting"
    /\ since >= RestartSec
    /\ Launch
    /\ UNCHANGED <<file, broken, checkVars, calm>>

---------------------------------------------------------------------------
(* run, create_app and PlatformService.start.                               *)

settings == FromEnv(env)

\* Settings under which the policy may let a write through.
Open(e) ==
    LET s == FromEnv(e)
    IN  ~s["emergency_disable"] /\ ~s["read_only_mode"] /\ s["write_enable"]

Exits == Becomes("waiting", "none") /\ UNCHANGED <<window, env>>

\* What is broken after SocketCanInterfaceManager.ensure_up: it takes the
\* interface down, sets its type and brings it up, and gives up when one fails.
EnsureUp ==
    IF ~settings["auto_configure_can_interface"] THEN {broken}
    ELSE IF "ip" \in broken THEN {broken, broken \cup {"link"}}
    ELSE {broken \ {"link"}}

\* The listener's thread is started, and the server listens.  A broken decoder
\* may pass its checks.
Boot ==
    /\ process = "starting"
    /\ ~Raises(env) /\ ~DecoderRefused(env)
    /\ "database" \notin broken
    /\ process' = "serving"
    /\ since' = 0
    /\ broken' \in EnsureUp
    /\ listening' = TRUE /\ faulted' = FALSE
    /\ UNCHANGED <<file, unit, env, window, checkVars, calm>>

\* ExecStartPre, from_env, create_decoder, the database or a required decoder.
BootFails ==
    /\ process = "starting"
    /\ Raises(env) \/ DecoderRefused(env) \/ broken \cap {"database", "decoder"} # {}
    /\ Exits
    /\ UNCHANGED <<file, broken, checkVars, calm>>

\* on_can_event with a decoder that raises.
DecodeFails ==
    /\ process = "serving" /\ listening /\ ~faulted
    /\ "decoder" \in broken
    /\ faulted' = TRUE
    /\ UNCHANGED <<file, broken, unit, process, env, listening, since, window, checkVars, calm>>

\* recv raises, and the listener ends.
ListenerEnds ==
    /\ process = "serving" /\ listening
    /\ "link" \in broken
    /\ listening' = FALSE
    /\ UNCHANGED <<file, broken, unit, process, env, faulted, since, window, checkVars, calm>>

---------------------------------------------------------------------------
(* The health check.  A process that does not serve refuses the connection. *)

\* The port of a file: an empty setting is port 80 to the check's shell.
PortOf(f) ==
    IF "api_port" \in DOMAIN f /\ Normalised(f["api_port"]) # ""
      THEN Normalised(f["api_port"]) ELSE Port80

\* The timer is exact to AccuracySec, and waits for the check before.
CheckBegins ==
    /\ check = "idle"
    /\ timer >= Period
    /\ check' = "health" /\ timer' = 0 /\ asked' = PortOf(file)
    /\ UNCHANGED <<file, broken, unitVars, calm>>

Reached == process = "serving" /\ asked = PortOf(env)

Healthy == "database" \notin broken /\ listening /\ ~faulted

\* A broken decoder that has failed no frame yet may say that it is ready.
FetchHealth ==
    /\ check = "health"
    /\ \/ Reached /\ Healthy /\ check' = "status"
       \/ (Reached /\ Healthy => "decoder" \in broken) /\ check' = "restart"
    /\ UNCHANGED <<file, broken, unitVars, timer, asked, calm>>

\* What the check demands of /status.
SafeSettings(e) ==
    LET s == FromEnv(e)
    IN  s["read_only_mode"] /\ ~s["write_enable"] /\ ~s["emergency_disable"]

Done == check' = "idle" /\ asked' = Port80 /\ UNCHANGED timer

\* Mutant of FetchStatus: the answer is not looked at.
FetchStatusUnread ==
    /\ check = "status"
    /\ \/ Reached /\ Done
       \/ ~Reached /\ check' = "restart" /\ UNCHANGED <<timer, asked>>
    /\ UNCHANGED <<file, broken, unitVars, calm>>

FetchStatus ==
    /\ check = "status"
    /\ \/ Reached /\ SafeSettings(env) /\ Done
       \/ ~(Reached /\ SafeSettings(env)) /\ check' = "restart" /\ UNCHANGED <<timer, asked>>
    /\ UNCHANGED <<file, broken, unitVars, calm>>

\* The process is told to end, if it was not already.
Ends(u) ==
    /\ unit' = u /\ process' = "stopping"
    /\ since' = IF process = "stopping" THEN since ELSE 0
    /\ listening' = FALSE /\ faulted' = FALSE
    /\ UNCHANGED <<env, window>>

\* Mutant of RestartUnit: only a unit that is active is restarted.
TryRestartUnit ==
    /\ check = "restart" /\ unit # "restarting"
    /\ IF unit = "active" THEN Ends("restarting") /\ UNCHANGED checkVars
                          ELSE Done /\ UNCHANGED unitVars
    /\ UNCHANGED <<file, broken, calm>>

\* systemctl restart, which waits for it: the process is stopped, if there is
\* one, and started if the limit allows.
RestartUnit ==
    /\ check = "restart" /\ unit # "restarting"
    /\ IF process = "none" THEN Launch /\ Done ELSE Ends("restarting") /\ UNCHANGED checkVars
    /\ UNCHANGED <<file, broken, calm>>

\* The process has ended or is killed: what it was stopped for goes on.
StopEnds ==
    /\ process = "stopping"
    /\ IF unit = "restarting" THEN Launch /\ Done
       ELSE Becomes("stopped", "none") /\ UNCHANGED <<env, window, checkVars>>
    /\ UNCHANGED <<file, broken, calm>>

---------------------------------------------------------------------------
(* What disturbs the service.                                               *)

Edit(f) ==
    /\ file' = f /\ f # file
    /\ calm' = 0
    /\ UNCHANGED <<broken, unitVars, checkVars>>

Break(p) ==
    /\ p \notin broken
    /\ broken' = broken \cup {p}
    /\ calm' = 0
    /\ UNCHANGED <<file, unitVars, checkVars>>

Repair(p) ==
    /\ p \in broken
    /\ broken' = broken \ {p}
    /\ calm' = 0
    /\ UNCHANGED <<file, unitVars, checkVars>>

Killed ==
    /\ process \in {"starting", "serving"}
    /\ Exits
    /\ calm' = 0
    /\ UNCHANGED <<file, broken, checkVars>>

\* systemctl stop, which takes the place of a restart that has not ended.
StopUnit ==
    /\ unit \in {"active", "waiting", "restarting"}
    /\ IF process = "none" THEN Becomes("stopped", "none") /\ UNCHANGED <<env, window>>
                           ELSE Ends("stopping")
    /\ IF unit = "restarting" THEN Done ELSE UNCHANGED checkVars
    /\ calm' = 0
    /\ UNCHANGED <<file, broken>>

Smaller(a, b) == IF a < b THEN a ELSE b

\* A stop lasts longer only behind a decoder that no longer reads.
StopTime == IF "decoder" \in broken THEN KillTicks ELSE StopTicks

\* Nothing is due: the check's two requests have been answered or have timed
\* out, a start or a stop has come to its end, a restart and the timer have not
\* come, and the listener has seen that its interface is down.
NothingDue ==
    /\ check = "idle" \/ unit = "restarting"
    /\ check = "idle" => timer < Round
    /\ ~(listening /\ "link" \in broken)
    /\ process = "starting" => since < StartTicks
    /\ process = "stopping" => since < StopTime
    /\ unit = "waiting" => since < RestartSec

\* The states in which something depends on how long they have lasted.
Counts ==
    \/ unit = "waiting" \/ process \in {"starting", "stopping"}
    \/ process = "serving" /\ Open(env)

Expired == [count |-> 0, age |-> Interval + 1]

Tick ==
    /\ NothingDue
    /\ since' = IF Counts THEN Smaller(since + 1, Longest) ELSE since
    /\ window' = IF window.age < Interval THEN [window EXCEPT !.age = @ + 1] ELSE Expired
    /\ timer' = timer + 1
    /\ calm' = Smaller(calm + 1, Horizon)
    /\ UNCHANGED <<file, broken, unit, process, env, listening, faulted, check, asked>>

Program == AutoRestart \/ Boot \/ BootFails \/ DecodeFails \/ ListenerEnds
Checker == CheckBegins \/ FetchHealth \/ FetchStatus \/ RestartUnit \/ StopEnds
Outside == Killed \/ StopUnit
           \/ \E p \in Parts : Break(p) \/ Repair(p)
           \/ \E f \in Files : Edit(f)

Next == Program \/ Checker \/ Tick \/ Outside

Spec == Init /\ [][Next]_vars

\* systemd and the timer keep their times, and time passes.
FairSpec == Spec /\ WF_vars(Program \/ Checker \/ Tick)

---------------------------------------------------------------------------
Startable(e) == ~Raises(e) /\ ~DecoderRefused(e)

\* What a start under f repairs by itself.
Repaired(f) == IF FromEnv(f)["auto_configure_can_interface"] THEN {"link"} ELSE {}

(* cobalt-boat-healthcheck:75-101: when nothing has been disturbed for the  *)
(* time of Horizon and nothing is broken that a start would not repair, a   *)
(* service whose file is safe serves under the port of the file and is      *)
(* healthy, whatever happened before: a crash loop that ended at the start  *)
(* limit, a restart that was refused, a listener that died, an interface    *)
(* that was left down half set up.                                          *)
RecoversInTime ==
    calm = Horizon /\ broken \subseteq Repaired(file) /\ Startable(file) /\ SafeSettings(file)
        => process = "serving" /\ Healthy /\ PortOf(env) = PortOf(file)

(* config.py:165-173: an operator's text for emergency_disable stops writes *)
(* in time, unless it is none of the words for on: one for off, or misspelt.*)
OnlyMisspeltStopIsLost ==
    calm = Horizon /\ process = "serving" /\ Open(env)
        /\ "emergency_disable" \in DOMAIN file
        => Normalised(file["emergency_disable"]) \notin TRUE_VALUES

(* cobalt-boat-healthcheck:81-84, cobalt-boat-healthcheck.timer:5-7: a life *)
(* in which writes are possible, and with it what the limiter remembers, is *)
(* ended by the next health check, the first one after boot at the latest.  *)
OpenLivesAreShort == process = "serving" /\ Open(env) => since <= Wait

(* cobalt-boat.service:5-6: a service that systemd has given up, or that an *)
(* operator has stopped, is started again by a health check, whatever is    *)
(* broken and whatever the file says.                                       *)
DownIsRevived == unit \in {"failed", "stopped"} ~> process = "starting"
=============================================================================
