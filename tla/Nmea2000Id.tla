----------------------------- MODULE Nmea2000Id -----------------------------
(***************************************************************************)
(* The 29-bit identifier of an NMEA 2000 frame (can/nmea2000.py) on its    *)
(* way over the bus: build_nmea2000_can_id makes it, as for the lab frames *)
(* of domains/fusion_lab.py, and parse_nmea2000_id takes it apart again in *)
(* the listener, here or on another node.  Shifts and masks are division   *)
(* and remainder; the fields build joins with | do not overlap, so the     *)
(* join is a sum.  An optional address is the set of it, {} stands for None*)
(***************************************************************************)
EXTENDS Integers

\* Where the fields of an identifier begin, and its end.
Bit8 == 256
Bit16 == 65536
Bit24 == 16777216
Bit25 == 33554432   \* reserved
Bit26 == 67108864
Bit29 == 536870912

\* Where the PGN of an identifier ends.
Bit17 == 131072

CONSTANTS Asked,    \* the fields callers build identifiers from
          Observed  \* what other devices put on the bus

Fields == [priority : Int, pgn : Int, source_address : Int, destination_address : SUBSET Int]
FrameId == [id : Nat, extended : BOOLEAN]

ASSUME IdAssumption ==
    /\ Asked \subseteq Fields
    /\ \A f \in Asked : \A d, e \in f.destination_address : d = e
    /\ Observed \subseteq FrameId
    /\ \A o \in Observed : o.id < Bit29

DataPage(pgn) == (pgn \div Bit16) % 2
Format(pgn) == (pgn \div Bit8) % Bit8

\* PDU1: the frame has a destination, and its PGN a low byte of zero.
Addressed(format) == format < 240

\* Mutant of Accepts: a low byte in an addressed PGN is let through.
AcceptsLowByte(f) ==
    /\ f.priority \in 0..7
    /\ f.source_address \in 0..255
    /\ IF Addressed(Format(f.pgn)) THEN f.destination_address \subseteq 0..255
                                   ELSE f.destination_address = {}

\* What build raises ValueError for is what it does not accept.
Accepts(f) ==
    /\ f.priority \in 0..7
    /\ f.source_address \in 0..255
    /\ IF Addressed(Format(f.pgn))
         THEN f.pgn % Bit8 = 0 /\ f.destination_address \subseteq 0..255
         ELSE f.destination_address = {}

Destination(f) ==
    IF f.destination_address = {} THEN 255 ELSE CHOOSE d \in f.destination_address : TRUE

Specific(f) == IF Addressed(Format(f.pgn)) THEN Destination(f) ELSE f.pgn % Bit8

Build(f) ==
    f.priority * Bit26 + DataPage(f.pgn) * Bit24 + Format(f.pgn) * Bit16
        + Specific(f) * Bit8 + f.source_address

\* Mutant of Parse: the PGN keeps the destination.
ParseKeepsLowByte(id) ==
    LET format == (id \div Bit16) % Bit8
        specific == (id \div Bit8) % Bit8
    IN  [priority |-> (id \div Bit26) % 8,
         pgn |-> (id \div Bit8) % Bit17,
         source_address |-> id % Bit8,
         destination_address |-> IF Addressed(format) THEN {specific} ELSE {}]

Parse(id) ==
    LET page == (id \div Bit24) % 2
        format == (id \div Bit16) % Bit8
        specific == (id \div Bit8) % Bit8
    IN  [priority |-> (id \div Bit26) % 8,
         pgn |-> page * Bit16 + format * Bit8 + (IF Addressed(format) THEN 0 ELSE specific),
         source_address |-> id % Bit8,
         destination_address |-> IF Addressed(format) THEN {specific} ELSE {}]

---------------------------------------------------------------------------
VARIABLES asked,  \* what the frame on the bus was built from, {} if by others
          wire,   \* the frames on the bus: none or one
          seen    \* per frame parsed, what it was parsed to; at most one

vars == <<asked, wire, seen>>

TypeOK ==
    /\ asked \subseteq Asked
    /\ wire \subseteq FrameId
    /\ seen \subseteq [priority : 0..7, pgn : 0..(Bit17 - 1), source_address : 0..255,
                       destination_address : SUBSET (0..255)]

Init == asked = {} /\ wire = {} /\ seen = {}

Send(f) ==
    /\ Accepts(f)
    /\ asked' = {f}
    /\ wire' = {[id |-> Build(f), extended |-> TRUE]}
    /\ seen' = {}

Observe(o) == asked' = {} /\ wire' = {o} /\ seen' = {}

\* A frame with an 11-bit identifier is parsed to nothing.
Receive ==
    /\ wire # {}
    /\ seen' = { Parse(o.id) : o \in { x \in wire : x.extended } }
    /\ UNCHANGED <<asked, wire>>

Next == (\E f \in Asked : Send(f)) \/ (\E o \in Observed : Observe(o)) \/ Receive

Spec == Init /\ [][Next]_vars

---------------------------------------------------------------------------
(* nmea2000.py:48-89: a frame is seen with the fields it was built from, a  *)
(* missing destination as the global address 255.  Of its PGN only the 17   *)
(* bits an identifier has room for arrive: the rest are dropped unsaid.     *)
SentIsSeen ==
    \A f \in asked, p \in seen :
        /\ p.priority = f.priority
        /\ p.source_address = f.source_address
        /\ p.pgn = f.pgn % Bit17
        /\ p.destination_address =
               IF ~Addressed(Format(f.pgn)) THEN {}
               ELSE IF f.destination_address = {} THEN {255} ELSE f.destination_address

(* nmea2000.py:18-45: whatever identifier was seen, build accepts its fields*)
(* and makes the same identifier of them, but for the reserved bit 25.      *)
SeenRebuilds ==
    \A o \in wire, p \in seen :
        /\ Accepts(p)
        /\ Build(p) = o.id - Bit25 * ((o.id \div Bit25) % 2)
=============================================================================
