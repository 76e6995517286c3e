--------------------------- MODULE MCSupervision ---------------------------
EXTENDS Supervision, TLC

Word(word) == [word |-> word, dressed |-> FALSE]

Boat == [read_only_mode |-> Word("true"), write_enable |-> Word("false")]
LabMisspelt == [read_only_mode |-> Word("off"), write_enable |-> Word("yes"),
                emergency_disable |-> Word("garbled")]
LabStopped == [LabMisspelt EXCEPT !.emergency_disable = [word |-> "on", dressed |-> TRUE]]
NoPort == [api_port |-> Word("")]
NewPort == [Boat EXCEPT !.write_enable = Word("0")]
           @@ [api_port |-> Word("1"), auto_configure_can_interface |-> Word("yes")]

FiveFiles == {Boat, LabStopped, LabMisspelt, NoPort, NewPort}
=============================================================================
