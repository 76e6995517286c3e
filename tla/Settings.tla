------------------------------ MODULE Settings ------------------------------
(***************************************************************************)
(* How the service reads its settings (config.py): the environment is a    *)
(* function from the settings it names to the texts it gives them, and     *)
(* Settings.from_env makes values of the texts, or raises.                 *)
(*                                                                         *)
(* A text is a word and whether it carries blanks or capitals, which       *)
(* strip().lower() takes away.  "" is the text of a setting that is named  *)
(* and left empty; "garbled" is any text that is no known word.            *)
(***************************************************************************)
EXTENDS Integers

TRUE_VALUES == {"1", "true", "yes", "on"}
FALSE_VALUES == {"0", "false", "no", "off"}
Backends == {"canboat", "basic"}

Text == [word : TRUE_VALUES \cup FALSE_VALUES \cup Backends \cup {"", "garbled"},
         dressed : BOOLEAN]

Normalised(text) == text.word

\* The settings that are switches, with their defaults.
Switches ==
    [read_only_mode |-> TRUE, write_enable |-> FALSE, emergency_disable |-> FALSE,
     lab_transmit_enabled |-> FALSE, decoder_required |-> TRUE,
     allow_basic_decoder_insecure |-> FALSE, auto_configure_can_interface |-> FALSE]

\* The settings that int or float reads.
Numbers ==
    {"api_port", "can_channel_bitrate", "canboat_response_timeout_sec",
     "command_rate_limit_window_sec", "command_rate_limit_max_attempts",
     "log_max_bytes", "log_backup_count", "lab_transmit_priority",
     "lab_transmit_source_address", "lab_fusion_destination_address"}

Named == DOMAIN Switches \cup Numbers \cup {"decoder_backend"}

IsEnvironment(env) == DOMAIN env \subseteq Named /\ \A n \in DOMAIN env : env[n] \in Text

\* Mutant of ParseBool: the text is compared as it stands.
ParseBoolAsItStands(text, default) ==
    \/ ~text.dressed /\ Normalised(text) \in TRUE_VALUES
    \/ default /\ (text.dressed \/ Normalised(text) \notin FALSE_VALUES)

ParseBool(text, default) ==
    \/ Normalised(text) \in TRUE_VALUES
    \/ default /\ Normalised(text) \notin FALSE_VALUES

\* int("") and int("garbled") raise ValueError; blanks around a number do not
\* matter, and a number that is read is a value no property here speaks of.
Raises(env) == \E n \in Numbers \cap DOMAIN env : Normalised(env[n]) \notin {"0", "1"}

FromEnv(env) ==
    [s \in DOMAIN Switches |->
        IF s \in DOMAIN env THEN ParseBool(env[s], Switches[s]) ELSE Switches[s]]

\* create_decoder raises ValueError: no such backend, or one that is not allowed.
DecoderRefused(env) ==
    /\ "decoder_backend" \in DOMAIN env
    /\ Normalised(env["decoder_backend"]) # "canboat"
    /\ \/ Normalised(env["decoder_backend"]) # "basic"
       \/ ~FromEnv(env)["allow_basic_decoder_insecure"]
=============================================================================
