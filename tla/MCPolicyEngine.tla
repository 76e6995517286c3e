--------------------------- MODULE MCPolicyEngine ---------------------------
EXTENDS PolicyEngine

Spoken(word) == [word |-> word, dressed |-> FALSE]
Dressed(word) == [word |-> word, dressed |-> TRUE]

Open == [emergency_disable |-> FALSE, read_only_mode |-> FALSE, write_enable |-> TRUE]
ReadOnly == [emergency_disable |-> FALSE, read_only_mode |-> TRUE, write_enable |-> FALSE]

\* One command under two spellings, one of them dressed.
MCRequests ==
    { [domain |-> Spoken("audio"), command |-> "lab_mute", params |-> {"zone", "muted"}],
      [domain |-> Dressed("audio"), command |-> "lab_mute", params |-> {"zone", "muted"}] }

MCGates == {Open, ReadOnly}
=============================================================================
