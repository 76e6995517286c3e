------------------------------ MODULE CandumpLog ------------------------------
(***************************************************************************)
(* Frames as lines of text: the decoder writes a frame to the analyzer in  *)
(* candump's log format (CanboatProcessDecoder._to_candump_line), candump  *)
(* itself prints it in that or in its screen format, and                   *)
(* can/candump_parse.py reads lines back, for replays and tests.           *)
(*                                                                         *)
(* A line is its format, the digits of its identifier, the length it       *)
(* declares (screen format only) and the hex digits of its data: bytes, and*)
(* perhaps an odd digit behind them.                                       *)
(***************************************************************************)
EXTENDS Nmea2000Id, Sequences

CONSTANTS Payloads, \* the data of the frames on the bus
          Foreign   \* lines of logs from elsewhere

Byte == 0..255
Line == [format : {"hash", "bracket"}, digits : Nat, id : Nat, declared : Nat,
         bytes : Seq(Byte), odd : BOOLEAN]
RawCanFrame == [id : Nat, extended : BOOLEAN, dlc : Nat, data : Seq(Byte), odd : BOOLEAN]

ASSUME LogAssumption ==
    /\ Payloads \subseteq Seq(Byte) /\ \A data \in Payloads : Len(data) <= 8
    /\ Foreign \subseteq Line

VARIABLES payload,  \* the data of the frame on the bus
          line,     \* the line that is printed or found: none or one
          printed,  \* was it printed for the frame on the bus?
          replayed  \* what reading it gave, if it was read: no event or one

logVars == <<payload, line, printed, replayed>>
allVars == <<vars, logVars>>

LogInit == Init /\ payload = <<>> /\ line = {} /\ printed = FALSE /\ replayed = {}

---------------------------------------------------------------------------
\* Eight digits of an extended identifier, three of a standard one.
Digits(o) == IF o.extended THEN 8 ELSE 3

ToCandumpLine(o, data, odd) ==
    [format |-> "hash", digits |-> Digits(o), id |-> o.id, declared |-> 0,
     bytes |-> data, odd |-> odd]

\* What candump prints on the screen (-ta).
ScreenLine(o, data) ==
    [format |-> "bracket", digits |-> Digits(o), id |-> o.id,
     declared |-> Len(data), bytes |-> data, odd |-> FALSE]

\* The pattern of the screen format wants whole bytes, and at least one; that
\* of the log format takes any number of digits.
Matches(l) == l.format = "hash" \/ (l.bytes # <<>> /\ ~l.odd)

Dlc(l) == IF l.format = "bracket" /\ l.declared <= 8 THEN l.declared ELSE Len(l.bytes)

\* Mutant of FromParts: what does not fit eleven bits is extended.
FromPartsByValue(l) ==
    [id |-> l.id, extended |-> l.id > 2047, dlc |-> Dlc(l),
     data |-> IF Dlc(l) < Len(l.bytes) THEN SubSeq(l.bytes, 1, Dlc(l)) ELSE l.bytes,
     odd |-> l.odd]

\* Mutant of FromParts: the data is not cut to the declared length.
FromPartsUncut(l) ==
    [id |-> l.id, extended |-> l.digits > 3, dlc |-> Dlc(l), data |-> l.bytes,
     odd |-> l.odd]

FromParts(l) ==
    [id |-> l.id, extended |-> l.digits > 3, dlc |-> Dlc(l),
     data |-> IF Dlc(l) < Len(l.bytes) THEN SubSeq(l.bytes, 1, Dlc(l)) ELSE l.bytes,
     odd |-> l.odd]

\* None is {}.
ParseLine(l) == IF Matches(l) THEN {FromParts(l)} ELSE {}

\* candump_line_to_can_event: the frame, and what its identifier is parsed to.
ToCanEvent(l) ==
    { [frame |-> f, parsed |-> IF f.extended THEN {Parse(f.id)} ELSE {}] : f \in ParseLine(l) }

---------------------------------------------------------------------------
NewFrame ==
    /\ (\E f \in Asked : Send(f)) \/ (\E o \in Observed : Observe(o))
    /\ payload' \in Payloads
    /\ line' = {} /\ printed' = FALSE /\ replayed' = {}

Hear == Receive /\ UNCHANGED logVars

Log ==
    /\ \E o \in wire : line' \in {{ToCandumpLine(o, payload, FALSE)}, {ScreenLine(o, payload)}}
    /\ printed' = TRUE /\ replayed' = {}
    /\ UNCHANGED <<vars, payload>>

Find(l) ==
    /\ line' = {l} /\ printed' = FALSE /\ replayed' = {}
    /\ UNCHANGED <<vars, payload>>

Replay ==
    /\ line # {}
    /\ replayed' = { ToCanEvent(l) : l \in line }
    /\ UNCHANGED <<vars, payload, line, printed>>

LogNext == NewFrame \/ Hear \/ Log \/ Replay \/ \E l \in Foreign : Find(l)

LogSpec == LogInit /\ [][LogNext]_allVars

---------------------------------------------------------------------------
(* candump_parse.py:23-96, decoder.py:171-174: a frame that was logged in   *)
(* either format and is read back is the frame that was on the bus, and is  *)
(* seen as the listener sees it; only the screen format of a frame without  *)
(* data is not read at all.                                                 *)
ReplayIsSeen ==
    \A l \in line, o \in wire, events \in replayed :
        printed =>
          IF l.format = "bracket" /\ payload = <<>> THEN events = {}
          ELSE \E e \in events :
                 /\ events = {e}
                 /\ e.frame = [id |-> o.id, extended |-> o.extended,
                               dlc |-> Len(payload), data |-> payload, odd |-> FALSE]
                 /\ seen # {} => e.parsed = seen

(* candump_parse.py:31-60: whatever a log from elsewhere declares, what is  *)
(* read of it has no more bytes than its length says, and an odd digit only *)
(* behind all of them; and what the decoder would write of it is read as    *)
(* the same frame, unless data is missing.                                  *)
ReplayIsStable ==
    \A e \in UNION replayed :
        LET f == e.frame
            again == ToCandumpLine([id |-> f.id, extended |-> f.extended], f.data, f.odd)
        IN  /\ Len(f.data) <= f.dlc
            /\ f.odd => f.dlc = Len(f.data)
            /\ f.dlc = Len(f.data) => ParseLine(again) = {f}
=============================================================================
