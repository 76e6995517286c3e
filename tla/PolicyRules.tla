---------------------------- MODULE PolicyRules ----------------------------
(***************************************************************************)
(* The part of the command policy that depends on nothing but the request  *)
(* and the settings: the domains of safety/models.py and the checks that   *)
(* PolicyEngine._evaluate_internal makes before it reaches the limiter.    *)
(*                                                                         *)
(* A domain spelling, the text a client typed, is a record: the word and   *)
(* whether it carries blanks or capitals.  strip().lower() keeps the word. *)
(***************************************************************************)
EXTENDS Integers, Sequences

ALLOWED_DOMAINS == {"audio", "lighting"}

DENIED_DOMAINS == {"engine", "propulsion", "steering", "surf", "ballast", "trim"}

Words == ALLOWED_DOMAINS \cup DENIED_DOMAINS \cup {"galley"}

Spelling == [word : Words, dressed : BOOLEAN]

Normalised(spelling) == spelling.word

WhitelistEntry(domain, command, required) ==
    [domain |-> domain, command |-> command, required |-> required]

DEFAULT_WHITELIST ==
    { WhitelistEntry("audio", "set_volume", {"zone", "level"}),
      WhitelistEntry("audio", "set_source", {"source"}),
      WhitelistEntry("audio", "lab_volume_step", {"zone", "direction"}),
      WhitelistEntry("audio", "lab_mute", {"zone", "muted"}),
      WhitelistEntry("lighting", "set_color", {"zone", "rgb"}),
      WhitelistEntry("lighting", "set_brightness", {"zone", "level"}) }

ParamNames == UNION { e.required : e \in DEFAULT_WHITELIST }

CommandNames == { e.command : e \in DEFAULT_WHITELIST } \cup {"engine_start"}

CommandRequest ==
    [domain : Spelling, command : CommandNames, params : SUBSET ParamNames]

\* The three gates every write passes, as one process was configured with them.
Gates == [emergency_disable : BOOLEAN, read_only_mode : BOOLEAN, write_enable : BOOLEAN]

GatesOpen(s) == ~s.emergency_disable /\ ~s.read_only_mode /\ s.write_enable

\* The whitelist is a dictionary: the key of an entry is its domain and name.
Keys == { <<e.domain, e.command>> : e \in DEFAULT_WHITELIST }

Key(req) == <<Normalised(req.domain), req.command>>

Missing(req) ==
    (UNION { e.required : e \in { x \in DEFAULT_WHITELIST :
                                     <<x.domain, x.command>> = Key(req) } }) \ req.params

StaticReasons ==
    { "emergency_disable_enabled", "read_only_mode_enabled", "write_enable_disabled",
      "domain_permanently_denied", "domain_not_allowed", "command_not_whitelisted",
      "missing_required_params" }

\* Mutant of StaticReason: the read-only gate is not consulted.
StaticReasonReadOnlyIgnored(s, req) ==
    IF s.emergency_disable THEN "emergency_disable_enabled"
    ELSE IF ~s.write_enable THEN "write_enable_disabled"
    ELSE IF Normalised(req.domain) \notin ALLOWED_DOMAINS THEN "domain_not_allowed"
    ELSE IF Key(req) \notin Keys THEN "command_not_whitelisted"
    ELSE IF Missing(req) # {} THEN "missing_required_params"
    ELSE "none"

\* The reason of the first check that fails; "none" sends the request to the
\* limiter.
StaticReason(s, req) ==
    IF s.emergency_disable THEN "emergency_disable_enabled"
    ELSE IF s.read_only_mode THEN "read_only_mode_enabled"
    ELSE IF ~s.write_enable THEN "write_enable_disabled"
    ELSE IF Normalised(req.domain) \in DENIED_DOMAINS THEN "domain_permanently_denied"
    ELSE IF Normalised(req.domain) \notin ALLOWED_DOMAINS THEN "domain_not_allowed"
    ELSE IF Key(req) \notin Keys THEN "command_not_whitelisted"
    ELSE IF Missing(req) # {} THEN "missing_required_params"
    ELSE "none"

Reasons == StaticReasons \cup {"rate_limited", "approved"}

\* Mutant of Prunes: an entry exactly as old as the window is pruned too.
PrunesAtBoundary(queue, threshold, k) ==
    /\ \A i \in 1..k : queue[i] <= threshold
    /\ k < Len(queue) => queue[k + 1] > threshold

\* Mutant of Prunes: nothing is ever pruned.
PrunesNothing(queue, threshold, k) == k = 0

\* What the head loop of _is_rate_limited leaves behind: the k oldest entries
\* are gone, each older than the threshold, and it stopped at the first that
\* is not.
Prunes(queue, threshold, k) ==
    /\ \A i \in 1..k : queue[i] < threshold
    /\ k < Len(queue) => queue[k + 1] >= threshold

\* PolicyEngine's dictionary at construction: no attempt recorded for any key.
NoAttempts == [k \in Keys |-> <<>>]
=============================================================================
