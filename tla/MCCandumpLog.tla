----------------------------- MODULE MCCandumpLog -----------------------------
EXTENDS CandumpLog

\* PGNs on both sides of the PDU boundary and of the 17 bits; some with a low
\* byte, the lab's 126208 among them.
MCPgns == {0, 255, 59392, 61184, 61185, 61440, 61441, 126208, 127501, 130582,
           131071, 131072, 262143}

MCAsked ==
    [priority : {0, 7, 8}, pgn : MCPgns, source_address : {0, 255, 256},
     destination_address : {{}, {0}, {255}, {256}}]

MCIds == { p * Bit26 + r * Bit25 + d * Bit24 + f * Bit16 + s * Bit8 + a :
             p \in {0, 7}, r \in {0, 1}, d \in {0, 1}, f \in {0, 239, 240, 255},
             s \in {0, 1, 255}, a \in {0, 255} }

MCObserved == [id : MCIds, extended : {TRUE}] \cup [id : {0, 2047}, extended : {FALSE}]

MCPayloads == {<<>>, <<1>>, <<1, 2, 3, 4, 5, 6, 7, 8>>}

\* A length that is less than the data, more, and that of a longer CAN FD
\* frame; and digits that are not whole bytes, in either format.
MCForeign ==
    { [format |-> "bracket", digits |-> d, id |-> 291, declared |-> n, bytes |-> <<1, 2>>,
       odd |-> FALSE] : d \in {3, 4, 8}, n \in {1, 3, 12} }
    \cup { [format |-> f, digits |-> d, id |-> 291, declared |-> 2, bytes |-> b, odd |-> TRUE] :
             f \in {"hash", "bracket"}, d \in {3, 8}, b \in {<<>>, <<1, 2>>} }
=============================================================================
