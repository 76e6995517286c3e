--------------------------- MODULE VesselTelemetry ---------------------------
(***************************************************************************)
(* The way of a reading to the dashboard: the decoder of CanboatDecoder,   *)
(* the rest of PlatformService.on_can_event (catalog, event bus) and the   *)
(* subscriber that records what was decoded in BoatTelemetryStore          *)
(* (domains/telemetry.py).  record and as_dict each hold the store's lock, *)
(* so a recording is one step and the snapshot is the state.               *)
(*                                                                         *)
(* A message is its PGN and the names of the fields that _to_float makes a *)
(* number of; a value is known by the frame that the analyzer read it from.*)
(***************************************************************************)
EXTENDS CanboatDecoder

CONSTANTS Voyages,      \* what the frames may say: functions from Frames to messages
          StoreMayFail  \* may the catalog's upsert raise?

Names == {"Speed", "Temperature", "Engine Coolant Temperature", "Coolant Temperature",
          "Speed Water Referenced", "SOG", "Latitude", "Longitude"}

Message == [pgn : Nat, fields : SUBSET Names]

ASSUME TelemetryAssumption ==
    /\ Voyages \subseteq [Frames -> Message]
    /\ StoreMayFail \in BOOLEAN

VARIABLES shows,    \* what each frame says
          handled,  \* how many frames on_can_event has done with
          vessel    \* BoatTelemetryStore: per reading, its value and its time

telemetryVars == <<shows, handled, vessel>>
allVars == <<vars, telemetryVars>>

Readings == {"engine_rpm", "engine_coolant_c", "speed_water_mps",
             "speed_over_ground_mps", "latitude", "longitude"}

\* The frame that a value was read from, and the frame at whose handling it
\* was stamped.
Value == [from : 0..MaxFrames, stamp : 0..MaxFrames]
NoValue == [from |-> 0, stamp |-> 0]

TelemetryTypeOK ==
    /\ TypeOK
    /\ shows \in Voyages
    /\ handled \in 0..Len(decoded)
    /\ vessel \in [Readings -> Value]

TelemetryInit ==
    /\ Init
    /\ shows \in Voyages
    /\ handled = 0
    /\ vessel = [r \in Readings |-> NoValue]

\* The readings that a message updates: a position only when it is whole.
Updated(msg) ==
    CASE msg.pgn = 127488 /\ "Speed" \in msg.fields -> {"engine_rpm"}
      [] msg.pgn = 127489
           /\ msg.fields \cap {"Temperature", "Engine Coolant Temperature",
                               "Coolant Temperature"} # {} -> {"engine_coolant_c"}
      [] msg.pgn = 128259 /\ "Speed Water Referenced" \in msg.fields -> {"speed_water_mps"}
      [] msg.pgn = 129026 /\ "SOG" \in msg.fields -> {"speed_over_ground_mps"}
      [] msg.pgn \in {129025, 129029}
           /\ {"Latitude", "Longitude"} \subseteq msg.fields -> {"latitude", "longitude"}
      [] OTHER -> {}

\* BoatTelemetryStore.record of the answer to a frame; the answer brings its
\* own PGN with its fields.
Record(answer, stamp) ==
    vessel' = [r \in Readings |-> IF r \in Updated(shows[answer])
                                    THEN [from |-> answer, stamp |-> stamp] ELSE vessel[r]]

\* Mutant of Handle: the frame goes on before it is decoded.
HandleEarly ==
    /\ handled < frame
    /\ handled' = handled + 1
    /\ UNCHANGED <<vars, shows, vessel>>

\* The rest of on_can_event after decode.  A decode that raised, or a catalog
\* that does, ends it; a message without fields is published and not recorded.
Handle ==
    /\ handled < Len(decoded)
    /\ handled' = handled + 1
    /\ \/ decoded[handled'] \in Frames /\ Record(decoded[handled'], handled')
       \/ (decoded[handled'] \in Frames => StoreMayFail) /\ UNCHANGED vessel
    /\ UNCHANGED <<vars, shows>>

\* The listener takes the next frame, and ends, when it has handled the last.
Free == handled = Len(decoded)

DecoderStep ==
    /\ Next
    /\ frame' # frame => Free
    /\ stopping = "joining" /\ stopping' # stopping => Free \/ JoinMayExpire
    /\ UNCHANGED telemetryVars

TelemetryNext == DecoderStep \/ Handle

TelemetrySpec == TelemetryInit /\ [][TelemetryNext]_allVars

TelemetryFairSpec == TelemetrySpec /\ Fairness

---------------------------------------------------------------------------
(* web-ui-and-http.md: the dashboard's time of a value is that of its frame *)
(* as long as no answer was late; a late one is shown as if it were new, but*)
(* never is a value shown as older than it is.                              *)
LatenessAloneRejuvenates ==
    \A r \in Readings :
        /\ vessel[r].from <= vessel[r].stamp
        /\ "late" \notin trouble => vessel[r].from = vessel[r].stamp

(* decoder.py:150-156: a reading goes back to an earlier frame's value only *)
(* after an answer was late and a second analyzer was started, whose lines  *)
(* overtook those of the first: one analyzer's answers come in order.       *)
RespawnAloneTurnsBack ==
    [][ \A r \in Readings :
          vessel'[r].from < vessel[r].from => "late" \in trouble /\ spawned > 1 ]_allVars
=============================================================================
