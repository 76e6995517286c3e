-------------------------- MODULE MCCommandService --------------------------
EXTENDS CommandService, TLC

CONSTANTS w1, w2
TwoWorkers == {w1, w2}
Interchangeable == Permutations(TwoWorkers)

Lab == [emergency_disable |-> FALSE, read_only_mode |-> FALSE, write_enable |-> TRUE,
        lab_transmit_enabled |-> TRUE, frame_valid |-> TRUE]
LabClosed == [Lab EXCEPT !.read_only_mode = TRUE]
LabBadFrame == [Lab EXCEPT !.frame_valid = FALSE]
Boat == [emergency_disable |-> FALSE, read_only_mode |-> TRUE, write_enable |-> FALSE,
         lab_transmit_enabled |-> FALSE, frame_valid |-> TRUE]

LabOnly == {Lab}
AllConfigs == {Lab, LabClosed, LabBadFrame, Boat}

Mute == {"mute_on"}

\* A preview of the same command as the mute button.
OnePreview ==
    { [domain |-> [word |-> "audio", dressed |-> TRUE], command |-> "lab_mute",
       params |-> {"zone", "muted"}] }
NoPreviews == {}
=============================================================================
