-------------------------- MODULE Nmea2000IdProofs --------------------------
(***************************************************************************)
(* Proofs about Nmea2000Id for every set of fields and of identifiers: an  *)
(* identifier carries what it was built from, and parsing loses nothing of *)
(* it but the reserved bit.  And about CandumpLog, for all data and lines: *)
(* what is logged is read back as it was on the bus.                       *)
(***************************************************************************)
EXTENDS CandumpLog, TLAPS

\* What an identifier consists of, and the sum it is of them.
Parts == [p : 0..7, r : 0..1, d : 0..1, f : 0..255, s : 0..255, a : 0..255]
Sum(x) == x.p * Bit26 + x.r * Bit25 + x.d * Bit24 + x.f * Bit16 + x.s * Bit8 + x.a

(* Each part of an identifier is where parse_nmea2000_id looks for it.      *)
LEMMA Extract ==
    ASSUME NEW x \in Parts
    PROVE  /\ Sum(x) \in Nat
           /\ Sum(x) < Bit29
           /\ Sum(x) % Bit8 = x.a
           /\ (Sum(x) \div Bit8) % Bit8 = x.s
           /\ (Sum(x) \div Bit16) % Bit8 = x.f
           /\ (Sum(x) \div Bit24) % 2 = x.d
           /\ (Sum(x) \div Bit25) % 2 = x.r
           /\ (Sum(x) \div Bit26) % 8 = x.p
<1> DEFINE id == Sum(x)
           p == x.p
           r == x.r
           d == x.d
           f == x.f
           s == x.s
           a == x.a
<1>0. p \in 0..7 /\ r \in 0..1 /\ d \in 0..1 /\ f \in 0..255 /\ s \in 0..255 /\ a \in 0..255
  BY DEF Parts
<1>1. id = p * 67108864 + r * 33554432 + d * 16777216 + f * 65536 + s * 256 + a
  BY SMT DEF Sum, Bit8, Bit16, Bit17, Bit24, Bit25, Bit26, Bit29
<1> HIDE DEF id, p, r, d, f, s, a
<1>2. id \in Nat /\ id < Bit29 /\ id % Bit8 = a
  BY <1>0, <1>1, SMT DEF Bit8, Bit29
<1>3. id \div Bit8 = p * 262144 + r * 131072 + d * 65536 + f * 256 + s
  BY <1>0, <1>1, SMT DEF Bit8
<1>4. id \div Bit16 = p * 1024 + r * 512 + d * 256 + f
  BY <1>0, <1>1, SMT DEF Bit16
<1>5. id \div Bit24 = p * 4 + r * 2 + d
  BY <1>0, <1>1, SMT DEF Bit24
<1>6. id \div Bit25 = p * 2 + r
  BY <1>0, <1>1, SMT DEF Bit25
<1>7. id \div Bit26 = p
  BY <1>0, <1>1, SMT DEF Bit26
<1>8. (id \div Bit8) % Bit8 = s
  BY <1>0, <1>3, SMT DEF Bit8
<1>9. (id \div Bit16) % Bit8 = f
  BY <1>0, <1>4, SMT DEF Bit8
<1>10. (id \div Bit24) % 2 = d /\ (id \div Bit25) % 2 = r /\ (id \div Bit26) % 8 = p
  BY <1>0, <1>5, <1>6, <1>7, SMT
<1> QED
  BY <1>2, <1>8, <1>9, <1>10 DEF id, p, r, d, f, s, a

(* Every 29-bit identifier consists of such parts.                          *)
LEMMA Decompose ==
    ASSUME NEW id \in Nat, id < Bit29
    PROVE  \E x \in Parts : id = Sum(x)
<1> DEFINE a == id % 256
           q1 == id \div 256
           s == q1 % 256
           q2 == q1 \div 256
           f == q2 % 256
           q3 == q2 \div 256
           d == q3 % 2
           q4 == q3 \div 2
           r == q4 % 2
           p == q4 \div 2
<1>1. a \in 0..255 /\ q1 \in Nat /\ a = id - 256 * q1
  BY SMT
<1>2. s \in 0..255 /\ q2 \in Nat /\ s = q1 - 256 * q2
  <2> HIDE DEF q1
  <2> QED BY <1>1, SMT
<1>3. f \in 0..255 /\ q3 \in Nat /\ f = q2 - 256 * q3
  <2> HIDE DEF q2
  <2> QED BY <1>2, SMT
<1>4. d \in 0..1 /\ q4 \in Nat /\ d = q3 - 2 * q4
  <2> HIDE DEF q3
  <2> QED BY <1>3, SMT
<1>5. r \in 0..1 /\ p \in Nat /\ r = q4 - 2 * p
  <2> HIDE DEF q4
  <2> QED BY <1>4, SMT
<1> HIDE DEF a, q1, s, q2, f, q3, d, q4, r, p
<1>6. p \in 0..7
  BY <1>1, <1>2, <1>3, <1>4, <1>5, SMT DEF Bit29
<1> DEFINE x == [p |-> p, r |-> r, d |-> d, f |-> f, s |-> s, a |-> a]
<1>7. x \in Parts /\ x.p = p /\ x.r = r /\ x.d = d /\ x.f = f /\ x.s = s /\ x.a = a
  BY <1>1, <1>2, <1>3, <1>4, <1>5, <1>6 DEF Parts
<1> HIDE DEF x
<1>8. id = Sum(x)
  BY <1>1, <1>2, <1>3, <1>4, <1>5, <1>6, <1>7, SMT DEF Sum, Bit8, Bit16, Bit17, Bit24, Bit25, Bit26, Bit29
<1> QED
  BY <1>7, <1>8

\* The PGN of a frame with these parts.
PgnOf(x) == x.d * Bit16 + x.f * Bit8 + (IF Addressed(x.f) THEN 0 ELSE x.s)

(* Parsing gives the parts back, all but the reserved bit.                  *)
LEMMA ParseParts ==
    ASSUME NEW x \in Parts
    PROVE  Parse(Sum(x)) =
               [priority |-> x.p, pgn |-> PgnOf(x), source_address |-> x.a,
                destination_address |-> IF Addressed(x.f) THEN {x.s} ELSE {}]
<1>1. /\ Sum(x) % Bit8 = x.a
      /\ (Sum(x) \div Bit8) % Bit8 = x.s
      /\ (Sum(x) \div Bit16) % Bit8 = x.f
      /\ (Sum(x) \div Bit24) % 2 = x.d
      /\ (Sum(x) \div Bit26) % 8 = x.p
  BY Extract
<1> QED
  BY <1>1 DEF Parse, PgnOf

(* The parts of a PGN that came from an identifier.                         *)
LEMMA PgnParts ==
    ASSUME NEW x \in Parts
    PROVE  /\ PgnOf(x) \in Int
           /\ DataPage(PgnOf(x)) = x.d
           /\ Format(PgnOf(x)) = x.f
           /\ PgnOf(x) % Bit8 = IF Addressed(x.f) THEN 0 ELSE x.s
<1> DEFINE low == IF Addressed(x.f) THEN 0 ELSE x.s
           n == PgnOf(x)
           d == x.d
           f == x.f
<1>1. low \in 0..255 /\ d \in 0..1 /\ f \in 0..255
  BY SMT DEF Parts
<1>2. n = d * 65536 + f * 256 + low
  BY SMT DEF PgnOf, Bit8, Bit16
<1> HIDE DEF low, n, d, f
<1>3. n \in Int /\ n % 256 = low
  BY <1>1, <1>2, SMT
<1>4. n \div 65536 = d /\ n \div 256 = d * 256 + f
  BY <1>1, <1>2, SMT
<1>5. (n \div 65536) % 2 = d /\ (n \div 256) % 256 = f
  BY <1>1, <1>4, SMT
<1>6. DataPage(n) = d /\ Format(n) = f /\ n % Bit8 = low
  BY <1>3, <1>5, SMT DEF DataPage, Format, Bit8, Bit16
<1> QED
  BY <1>3, <1>6 DEF n, low, d, f

\* The optional address of a frame has one value at most.
Optional(f) == \A d, e \in f.destination_address : d = e

(* What a PGN loses on its way: the remainder keeps page, format, low byte. *)
LEMMA Remainder ==
    ASSUME NEW n \in Int
    PROVE  n % Bit17 = DataPage(n) * Bit16 + Format(n) * Bit8 + (n % Bit8)
<1> DEFINE a == n % 256
           q == n \div 256
           f == q % 256
           m == q \div 256
           d == m % 2
           h == m \div 2
<1>1. q \in Int /\ a = n - 256 * q /\ a >= 0 /\ a < 256
  BY SMT
<1>2. m \in Int /\ f = q - 256 * m /\ f >= 0 /\ f < 256
  <2> HIDE DEF q
  <2> QED BY <1>1, SMT
<1>3. h \in Int /\ d = m - 2 * h /\ d >= 0 /\ d < 2
  <2> HIDE DEF m
  <2> QED BY <1>2, SMT
<1>4. m = n \div 65536
  BY SMT
<1> HIDE DEF a, q, f, m, d, h
<1>5. n - h * 131072 = d * 65536 + f * 256 + a
  BY <1>1, <1>2, <1>3, SMT
<1>6. n - h * 131072 >= 0 /\ n - h * 131072 < 131072
  BY <1>1, <1>2, <1>3, SMT
<1>7. n % 131072 = n - h * 131072
  BY <1>3, <1>6, SMT
<1>8. DataPage(n) = d /\ Format(n) = f /\ n % Bit8 = a
  BY <1>4, SMT DEF a, q, f, d, DataPage, Format, Bit8, Bit16
<1>9. n % Bit17 = d * Bit16 + f * Bit8 + a
  BY <1>5, <1>7, SMT DEF Bit8, Bit16, Bit17
<1> QED
  BY <1>8, <1>9

\* The parts of what is built.
PartsOf(f) ==
    [p |-> f.priority, r |-> 0, d |-> DataPage(f.pgn), f |-> Format(f.pgn),
     s |-> Specific(f), a |-> f.source_address]

(* What build accepts becomes the sum of its parts, the reserved bit zero.  *)
LEMMA BuildParts ==
    ASSUME NEW f \in Fields, Optional(f), Accepts(f)
    PROVE  /\ PartsOf(f) \in Parts
           /\ Build(f) = Sum(PartsOf(f))
           /\ PgnOf(PartsOf(f)) = f.pgn % Bit17
<1>1. f.pgn \in Int /\ f.priority \in 0..7 /\ f.source_address \in 0..255
  BY DEF Fields, Accepts
<1>2. DataPage(f.pgn) \in 0..1 /\ Format(f.pgn) \in 0..255 /\ f.pgn % Bit8 \in 0..255
  BY <1>1, SMT DEF DataPage, Format, Bit8, Bit16
<1>3. Specific(f) \in 0..255
  <2>1. CASE Addressed(Format(f.pgn)) /\ f.destination_address # {}
    <3>1. PICK x \in f.destination_address : TRUE
      BY <2>1
    <3>2. Destination(f) \in f.destination_address
      BY <2>1, <3>1 DEF Destination
    <3>3. f.destination_address \subseteq 0..255
      BY <2>1 DEF Accepts
    <3> QED
      BY <2>1, <3>2, <3>3 DEF Specific
  <2>2. CASE Addressed(Format(f.pgn)) /\ f.destination_address = {}
    BY <2>2, SMT DEF Specific, Destination
  <2>3. CASE ~Addressed(Format(f.pgn))
    BY <1>2, <2>3 DEF Specific
  <2> QED
    BY <2>1, <2>2, <2>3
<1> DEFINE x == PartsOf(f)
<1>4. /\ x.p = f.priority /\ x.r = 0 /\ x.d = DataPage(f.pgn) /\ x.f = Format(f.pgn)
      /\ x.s = Specific(f) /\ x.a = f.source_address
  BY DEF PartsOf
<1>5. x \in Parts
  <2>1. 0 \in 0..1
    BY SMT
  <2> QED
    BY <1>1, <1>2, <1>3, <2>1 DEF Parts, PartsOf
<1> HIDE DEF x
<1>6. Build(f) = x.p * Bit26 + x.d * Bit24 + x.f * Bit16 + x.s * Bit8 + x.a
  BY <1>4 DEF Build
<1>7. Build(f) = Sum(x)
  BY <1>4, <1>5, <1>6, SMT DEF Parts, Sum, Bit25, Bit26, Bit24, Bit16, Bit8
<1>8. f.pgn % Bit8 = IF Addressed(Format(f.pgn)) THEN 0 ELSE Specific(f)
  BY DEF Accepts, Specific
<1>9. f.pgn % Bit17 = DataPage(f.pgn) * Bit16 + Format(f.pgn) * Bit8 + (f.pgn % Bit8)
  BY <1>1, Remainder
<1>10. PgnOf(x) = f.pgn % Bit17
  <2>1. (IF Addressed(x.f) THEN 0 ELSE x.s) = f.pgn % Bit8
    BY <1>4, <1>8
  <2> QED
    BY <1>4, <1>9, <2>1 DEF PgnOf
<1> QED
  BY <1>5, <1>7, <1>10 DEF x

(* nmea2000.py:48-89 after 18-45: what was built is parsed to what was asked*)
LEMMA BuildThenParse ==
    ASSUME NEW f \in Fields, Optional(f), Accepts(f)
    PROVE  Parse(Build(f)) =
               [priority |-> f.priority, pgn |-> f.pgn % Bit17,
                source_address |-> f.source_address,
                destination_address |->
                    IF Addressed(Format(f.pgn)) THEN {Specific(f)} ELSE {}]
<1> DEFINE x == PartsOf(f)
<1>1. x \in Parts /\ Build(f) = Sum(x) /\ PgnOf(x) = f.pgn % Bit17
  BY BuildParts
<1>2. x.p = f.priority /\ x.f = Format(f.pgn) /\ x.s = Specific(f) /\ x.a = f.source_address
  BY DEF PartsOf
<1> HIDE DEF x
<1>3. Parse(Sum(x)) =
        [priority |-> x.p, pgn |-> PgnOf(x), source_address |-> x.a,
         destination_address |-> IF Addressed(x.f) THEN {x.s} ELSE {}]
  BY <1>1, ParseParts
<1> QED
  BY <1>1, <1>2, <1>3

(* The other way round: what was parsed is accepted and built again.        *)
LEMMA ParseThenBuild ==
    ASSUME NEW x \in Parts
    PROVE  /\ Accepts(Parse(Sum(x)))
           /\ Build(Parse(Sum(x))) =
                  x.p * Bit26 + x.d * Bit24 + x.f * Bit16 + x.s * Bit8 + x.a
<1> DEFINE y == Parse(Sum(x))
<1>1. /\ y.priority = x.p /\ y.pgn = PgnOf(x) /\ y.source_address = x.a
      /\ y.destination_address = IF Addressed(x.f) THEN {x.s} ELSE {}
  BY ParseParts
<1> HIDE DEF y
<1>2. /\ DataPage(y.pgn) = x.d /\ Format(y.pgn) = x.f
      /\ y.pgn % Bit8 = IF Addressed(x.f) THEN 0 ELSE x.s
  BY <1>1, PgnParts
<1>3. x.p \in 0..7 /\ x.a \in 0..255 /\ x.s \in 0..255
  BY DEF Parts
<1>4. Accepts(y)
  BY <1>1, <1>2, <1>3 DEF Accepts
<1>5. Specific(y) = x.s
  <2>1. CASE Addressed(x.f)
    <3>1. Destination(y) = x.s
      BY <1>1, <2>1 DEF Destination
    <3> QED
      BY <1>2, <2>1, <3>1 DEF Specific
  <2>2. CASE ~Addressed(x.f)
    BY <1>2, <2>2 DEF Specific
  <2> QED
    BY <2>1, <2>2
<1>6. Build(y) = x.p * Bit26 + x.d * Bit24 + x.f * Bit16 + x.s * Bit8 + x.a
  BY <1>1, <1>2, <1>5 DEF Build
<1> QED
  BY <1>4, <1>6 DEF y

---------------------------------------------------------------------------
(* An identifier without its reserved bit.                                  *)
LEMMA WithoutReserved ==
    ASSUME NEW x \in Parts
    PROVE  x.p * Bit26 + x.d * Bit24 + x.f * Bit16 + x.s * Bit8 + x.a = Sum(x) - Bit25 * x.r
<1> DEFINE p == x.p
           r == x.r
           d == x.d
           f == x.f
           s == x.s
           a == x.a
           id == Sum(x)
<1>1. p \in Int /\ r \in Int /\ d \in Int /\ f \in Int /\ s \in Int /\ a \in Int
  BY SMT DEF Parts
<1>2. id = p * Bit26 + r * Bit25 + d * Bit24 + f * Bit16 + s * Bit8 + a
  BY DEF Sum
<1> HIDE DEF p, r, d, f, s, a, id
<1>3. p * Bit26 + d * Bit24 + f * Bit16 + s * Bit8 + a = id - Bit25 * r
  BY <1>1, <1>2, SMT DEF Bit8, Bit16, Bit24, Bit25, Bit26
<1> QED
  BY <1>3 DEF p, r, d, f, s, a, id

\* What the bus carries fits 29 bits and is what it was built from; what is
\* seen was parsed from it.
IInv ==
    /\ \A o \in wire : o.id \in Nat /\ o.id < Bit29
    /\ \A o1, o2 \in wire : o1 = o2
    /\ \A p \in seen : \E o \in wire : p = Parse(o.id)
    /\ \A f \in asked : f \in Asked /\ Accepts(f)
                        /\ wire = {[id |-> Build(f), extended |-> TRUE]}

(* One send: the frame built fits 29 bits.                                  *)
LEMMA BuildFits ==
    ASSUME NEW f \in Fields, Optional(f), Accepts(f)
    PROVE  Build(f) \in Nat /\ Build(f) < Bit29
BY BuildParts, Extract

(* The invariant holds of every behaviour.                                  *)
LEMMA InvariantHolds == Spec => []IInv
<1>1. Init => IInv
  BY DEF Init, IInv
<1>2. IInv /\ [Next]_vars => IInv'
  <2> SUFFICES ASSUME IInv, [Next]_vars PROVE IInv'
    OBVIOUS
  <2>1. ASSUME NEW f \in Asked, Send(f) PROVE IInv'
    <3>1. f \in Fields /\ Optional(f) /\ Accepts(f)
      BY <2>1, IdAssumption DEF Send, Optional
    <3>2. Build(f) \in Nat /\ Build(f) < Bit29
      BY <3>1, BuildFits
    <3>3. wire' = {[id |-> Build(f), extended |-> TRUE]} /\ asked' = {f} /\ seen' = {}
      BY <2>1 DEF Send
    <3> QED
      BY <3>1, <3>2, <3>3 DEF IInv
  <2>2. ASSUME NEW o \in Observed, Observe(o) PROVE IInv'
    <3>1. o.id \in Nat /\ o.id < Bit29
      BY IdAssumption DEF FrameId
    <3> QED
      BY <2>2, <3>1 DEF Observe, IInv
  <2>3. CASE Receive
    BY <2>3 DEF Receive, IInv
  <2>4. CASE UNCHANGED vars
    BY <2>4 DEF vars, IInv
  <2> QED
    BY <2>1, <2>2, <2>3, <2>4 DEF Next
<1> QED
  BY <1>1, <1>2, PTL DEF Spec

(* nmea2000.py:48-89: every frame this program builds is seen with the      *)
(* fields it was built from, for all of them.                               *)
THEOREM SentFramesAreSeen == Spec => []SentIsSeen
<1>1. IInv => SentIsSeen
  <2> SUFFICES ASSUME IInv, NEW f \in asked, NEW p \in seen
               PROVE  /\ p.priority = f.priority
                      /\ p.source_address = f.source_address
                      /\ p.pgn = f.pgn % Bit17
                      /\ p.destination_address =
                             IF ~Addressed(Format(f.pgn)) THEN {}
                             ELSE IF f.destination_address = {} THEN {255}
                                  ELSE f.destination_address
    BY DEF SentIsSeen
  <2>1. f \in Fields /\ Optional(f) /\ Accepts(f)
    BY IdAssumption DEF IInv, Optional
  <2>2. p = Parse(Build(f))
    BY DEF IInv
  <2>3. p = [priority |-> f.priority, pgn |-> f.pgn % Bit17,
             source_address |-> f.source_address,
             destination_address |-> IF Addressed(Format(f.pgn)) THEN {Specific(f)} ELSE {}]
    BY <2>1, <2>2, BuildThenParse
  <2>4. CASE Addressed(Format(f.pgn)) /\ f.destination_address # {}
    <3>1. PICK x \in f.destination_address : TRUE
      BY <2>4
    <3>2. Destination(f) \in f.destination_address
      BY <2>4, <3>1 DEF Destination
    <3>3. f.destination_address = {Destination(f)}
      BY <2>1, <3>2 DEF Optional
    <3>4. p.destination_address = f.destination_address
      BY <2>3, <2>4, <3>3 DEF Specific
    <3> QED
      BY <2>3, <2>4, <3>4
  <2>5. CASE Addressed(Format(f.pgn)) /\ f.destination_address = {}
    BY <2>3, <2>5, SMT DEF Specific, Destination
  <2>6. CASE ~Addressed(Format(f.pgn))
    BY <2>3, <2>6
  <2> QED
    BY <2>4, <2>5, <2>6
<1> QED
  BY <1>1, InvariantHolds, PTL

(* nmea2000.py:18-45: parsing loses nothing of a 29-bit identifier but its  *)
(* reserved bit, and gives fields that can be sent again.                   *)
THEOREM ParsedFramesRebuild == Spec => []SeenRebuilds
<1>1. IInv => SeenRebuilds
  <2> SUFFICES ASSUME IInv, NEW o \in wire, NEW x \in seen
               PROVE  /\ Accepts(x)
                      /\ Build(x) = o.id - Bit25 * ((o.id \div Bit25) % 2)
    BY DEF SeenRebuilds
  <2>1. o.id \in Nat /\ o.id < Bit29
    BY DEF IInv
  <2>2. x = Parse(o.id)
    BY DEF IInv
  <2>3. PICK y \in Parts : o.id = Sum(y)
    BY <2>1, Decompose
  <2>4. /\ Accepts(x)
        /\ Build(x) = y.p * Bit26 + y.d * Bit24 + y.f * Bit16 + y.s * Bit8 + y.a
    BY <2>2, <2>3, ParseThenBuild
  <2>5. (o.id \div Bit25) % 2 = y.r
    BY <2>3, Extract
  <2>6. y.p * Bit26 + y.d * Bit24 + y.f * Bit16 + y.s * Bit8 + y.a = o.id - Bit25 * y.r
    BY <2>3, WithoutReserved
  <2> QED
    BY <2>4, <2>5, <2>6
<1> QED
  BY <1>1, InvariantHolds, PTL

---------------------------------------------------------------------------
(* CandumpLog: frames as lines of text.                                     *)

(* Under a log the identifiers make the steps of Nmea2000Id or none.        *)
LEMMA FramesBeneath == LogSpec => Spec
<1>1. LogInit => Init
  BY DEF LogInit
<1>2. [LogNext]_allVars => [Next]_vars
  <2> SUFFICES ASSUME [LogNext]_allVars PROVE [Next]_vars
    OBVIOUS
  <2>1. CASE NewFrame
    BY <2>1 DEF NewFrame, Next
  <2>2. CASE Hear
    BY <2>2 DEF Hear, Next
  <2>3. CASE Log
    BY <2>3 DEF Log
  <2>4. CASE Replay
    BY <2>4 DEF Replay
  <2>5. ASSUME NEW l \in Foreign, Find(l) PROVE UNCHANGED vars
    BY <2>5 DEF Find
  <2>6. CASE UNCHANGED allVars
    BY <2>6 DEF allVars
  <2> QED
    BY <2>1, <2>2, <2>3, <2>4, <2>5, <2>6 DEF LogNext
<1> QED
  BY <1>1, <1>2, PTL DEF LogSpec, Spec

(* nmea2000.py:48-89: what is proved of the identifiers holds beside a log. *)
THEOREM SentAreSeenBesideLog == LogSpec => []SentIsSeen
BY FramesBeneath, SentFramesAreSeen, PTL

(* nmea2000.py:18-45: and so does what is proved of parsing them.           *)
THEOREM ParsedRebuildBesideLog == LogSpec => []SeenRebuilds
BY FramesBeneath, ParsedFramesRebuild, PTL

\* The frame on the bus is one that the hardware can carry, the line is one
\* line, that of the frame if it was printed for it, and what was read was read
\* of that line.
IsFrame(o) == o.id \in Nat /\ o.extended \in BOOLEAN

Carried ==
    /\ payload \in Seq(Byte) /\ Len(payload) <= 8
    /\ \A o \in wire : IsFrame(o)
    /\ \A o1, o2 \in wire : o1 = o2

Lined ==
    /\ line \subseteq Line
    /\ \A l1, l2 \in line : l1 = l2
    /\ printed => \A l \in line, o \in wire :
                     l \in {ToCandumpLine(o, payload, FALSE), ScreenLine(o, payload)}

ReadOf == \A events \in replayed : \E l \in line : line = {l} /\ events = ToCanEvent(l)

SeenIsParsed ==
    seen # {} => \A o \in wire : seen = IF o.extended THEN {Parse(o.id)} ELSE {}

LogInv == Carried /\ Lined /\ ReadOf /\ SeenIsParsed

(* A frame that is printed makes a line.                                    *)
LEMMA PrintedLine ==
    ASSUME NEW o, IsFrame(o), NEW data \in Seq(Byte)
    PROVE  ToCandumpLine(o, data, FALSE) \in Line /\ ScreenLine(o, data) \in Line
<1>1. Len(data) \in Nat /\ 0 \in Nat /\ Digits(o) \in Nat /\ FALSE \in BOOLEAN
  BY DEF Digits
<1> QED
  BY <1>1 DEF ToCandumpLine, ScreenLine, Line, IsFrame

(* candump_parse.py:31-60: what is read of any line has no more bytes than  *)
(* its length says, and no odd digit but behind all of them.                *)
LEMMA CutToLength ==
    ASSUME NEW l \in Line, Matches(l)
    PROVE  /\ FromParts(l).data \in Seq(Byte)
           /\ Len(FromParts(l).data) <= FromParts(l).dlc
           /\ FromParts(l).odd \in BOOLEAN
           /\ FromParts(l).odd => FromParts(l).dlc = Len(FromParts(l).data)
<1>1. /\ l.bytes \in Seq(Byte) /\ l.declared \in Nat /\ Len(l.bytes) \in Nat
      /\ l.format \in {"hash", "bracket"} /\ l.odd \in BOOLEAN
  BY DEF Line
<1>2. Dlc(l) \in Nat
  BY <1>1 DEF Dlc
<1>3. /\ FromParts(l).dlc = Dlc(l)
      /\ FromParts(l).data =
           (IF Dlc(l) < Len(l.bytes) THEN SubSeq(l.bytes, 1, Dlc(l)) ELSE l.bytes)
      /\ FromParts(l).odd = l.odd
  BY DEF FromParts
<1>6. l.odd => Dlc(l) = Len(l.bytes)
  BY <1>1 DEF Matches, Dlc
<1>4. CASE Dlc(l) < Len(l.bytes)
  <2>1. SubSeq(l.bytes, 1, Dlc(l)) \in Seq(Byte) /\ Len(SubSeq(l.bytes, 1, Dlc(l))) = Dlc(l)
    BY <1>1, <1>2, <1>4
  <2> QED
    BY <1>1, <1>2, <1>3, <1>6, <1>4, <2>1
<1>5. CASE ~(Dlc(l) < Len(l.bytes))
  BY <1>1, <1>2, <1>3, <1>6, <1>5
<1> QED
  BY <1>4, <1>5

(* A line in the log's own format is read as the frame it was written of.   *)
LEMMA LogLineReads ==
    ASSUME NEW o, o.extended \in BOOLEAN, NEW data \in Seq(Byte), NEW odd \in BOOLEAN
    PROVE  ParseLine(ToCandumpLine(o, data, odd)) =
              {[id |-> o.id, extended |-> o.extended, dlc |-> Len(data), data |-> data,
                odd |-> odd]}
<1> DEFINE l == ToCandumpLine(o, data, odd)
<1>1. /\ l.format = "hash" /\ l.id = o.id /\ l.bytes = data /\ l.odd = odd
      /\ (l.digits > 3 <=> o.extended)
  BY DEF ToCandumpLine, Digits
<1> HIDE DEF l
<1>2. Matches(l) /\ Dlc(l) = Len(data) /\ ~(Dlc(l) < Len(l.bytes))
  <2>1. Len(data) \in Nat
    OBVIOUS
  <2> QED
    BY <1>1, <2>1 DEF Matches, Dlc
<1>3. (l.digits > 3) = o.extended
  BY <1>1
<1>4. FromParts(l) = [id |-> o.id, extended |-> o.extended, dlc |-> Len(data), data |-> data,
                      odd |-> odd]
  BY <1>1, <1>2, <1>3, Zenon DEF FromParts
<1>5. ParseLine(l) = {FromParts(l)}
  BY <1>2 DEF ParseLine
<1> QED
  BY <1>4, <1>5 DEF l

(* A line from candump's screen is read so too, unless it has no data.      *)
LEMMA ScreenLineReads ==
    ASSUME NEW o, o.extended \in BOOLEAN, NEW data \in Seq(Byte), Len(data) <= 8
    PROVE  ParseLine(ScreenLine(o, data)) =
              IF data = <<>> THEN {}
              ELSE {[id |-> o.id, extended |-> o.extended, dlc |-> Len(data), data |-> data,
                     odd |-> FALSE]}
<1> DEFINE l == ScreenLine(o, data)
<1>1. /\ l.format = "bracket" /\ l.id = o.id /\ l.bytes = data /\ l.declared = Len(data)
      /\ l.odd = FALSE
      /\ (l.digits > 3 <=> o.extended)
  BY DEF ScreenLine, Digits
<1> HIDE DEF l
<1>2. (Matches(l) <=> data # <<>>) /\ Dlc(l) = Len(data) /\ ~(Dlc(l) < Len(l.bytes))
  <2>1. Len(data) \in Nat
    OBVIOUS
  <2> QED
    BY <1>1, <2>1 DEF Matches, Dlc
<1>3. (l.digits > 3) = o.extended
  BY <1>1
<1>4. FromParts(l) = [id |-> o.id, extended |-> o.extended, dlc |-> Len(data), data |-> data,
                      odd |-> FALSE]
  BY <1>1, <1>2, <1>3, Zenon DEF FromParts
<1>5. ParseLine(l) = IF data = <<>> THEN {} ELSE {FromParts(l)}
  BY <1>2 DEF ParseLine
<1> QED
  BY <1>4, <1>5 DEF l

(* Before anything is logged the invariant holds.                           *)
LEMMA LogInvInit == LogInit => LogInv
BY DEF LogInit, Init, LogInv, Carried, Lined, ReadOf, SeenIsParsed, IsFrame, Byte

(* Every step keeps it: printing, finding and reading lines by what they do.*)
LEMMA LogInvStep == LogInv /\ IInv /\ IInv' /\ [LogNext]_allVars => LogInv'
<1> SUFFICES ASSUME LogInv, IInv, IInv', [LogNext]_allVars PROVE LogInv'
  OBVIOUS
<1>1. CASE NewFrame
  <2>1. payload' \in Seq(Byte) /\ Len(payload') <= 8
    BY <1>1, LogAssumption DEF NewFrame
  <2>2. \A o \in wire' : IsFrame(o)
    <3>1. CASE \E f \in Asked : Send(f)
      <4>1. \A o \in wire' : o.id \in Nat /\ o.extended = TRUE
        BY <3>1 DEF Send, IInv
      <4> QED
        BY <4>1 DEF IsFrame
    <3>2. CASE \E o \in Observed : Observe(o)
      BY <3>2, IdAssumption DEF Observe, FrameId, IsFrame
    <3> QED
      BY <1>1, <3>1, <3>2 DEF NewFrame
  <2>3. seen' = {} /\ line' = {} /\ replayed' = {} /\ printed' = FALSE
    BY <1>1 DEF NewFrame, Send, Observe
  <2> QED
    BY <2>1, <2>2, <2>3 DEF LogInv, Carried, Lined, ReadOf, SeenIsParsed, IInv
<1>2. CASE Hear
  <2>1. UNCHANGED <<wire, payload, line, printed, replayed>>
    BY <1>2 DEF Hear, Receive, logVars
  <2>2. SeenIsParsed'
    BY <1>2 DEF Hear, Receive, SeenIsParsed, IInv
  <2> QED
    BY <2>1, <2>2 DEF LogInv, Carried, Lined, ReadOf
<1>3. CASE Log
  <2>1. UNCHANGED <<wire, payload, seen>> /\ replayed' = {}
    BY <1>3 DEF Log, vars
  <2>2. Lined'
    <3>1. PICK o \in wire : line' \in {{ToCandumpLine(o, payload, FALSE)}, {ScreenLine(o, payload)}}
      BY <1>3 DEF Log
    <3>2. IsFrame(o) /\ payload \in Seq(Byte) /\ \A o1 \in wire : o1 = o
      BY DEF LogInv, Carried
    <3> QED
      <4>1. ToCandumpLine(o, payload, FALSE) \in Line /\ ScreenLine(o, payload) \in Line
        BY <3>2, PrintedLine
      <4> QED
        BY <2>1, <3>1, <3>2, <4>1 DEF Lined
  <2> QED
    BY <2>1, <2>2 DEF LogInv, Carried, ReadOf, SeenIsParsed
<1>4. ASSUME NEW l \in Foreign, Find(l) PROVE LogInv'
  <2>1. l \in Line
    BY LogAssumption
  <2> QED
    BY <1>4, <2>1 DEF Find, vars, LogInv, Carried, Lined, ReadOf, SeenIsParsed
<1>5. CASE Replay
  <2>1. UNCHANGED <<wire, payload, line, printed, seen>>
    BY <1>5 DEF Replay, vars
  <2>2. ReadOf'
    BY <1>5 DEF Replay, ReadOf, LogInv, Lined
  <2> QED
    BY <2>1, <2>2 DEF LogInv, Carried, Lined, SeenIsParsed
<1>6. CASE UNCHANGED allVars
  BY <1>6 DEF allVars, vars, logVars, LogInv, Carried, Lined, ReadOf, SeenIsParsed
<1> QED
  BY <1>1, <1>2, <1>3, <1>4, <1>5, <1>6 DEF LogNext

(* And so the log's invariant does.                                        *)
LEMMA LogInvariant == LogSpec => []LogInv
BY LogInvInit, LogInvStep, InvariantHolds, FramesBeneath, PTL DEF LogSpec

(* candump_parse.py:23-96, decoder.py:171-174: for every identifier and all *)
(* data a frame can carry, what was logged in either format and is read back*)
(* is the frame that was on the bus, and is seen as the listener sees it.   *)
THEOREM LoggedFramesReplay == LogSpec => []ReplayIsSeen
<1>1. LogInv => ReplayIsSeen
  <2> SUFFICES ASSUME LogInv, NEW l \in line, NEW o \in wire, NEW events \in replayed, printed
               PROVE  IF l.format = "bracket" /\ payload = <<>> THEN events = {}
                      ELSE \E e \in events :
                             /\ events = {e}
                             /\ e.frame = [id |-> o.id, extended |-> o.extended,
                                           dlc |-> Len(payload), data |-> payload, odd |-> FALSE]
                             /\ seen # {} => e.parsed = seen
    BY DEF ReplayIsSeen
  <2>1. /\ o.extended \in BOOLEAN /\ payload \in Seq(Byte) /\ Len(payload) <= 8
        /\ l = ToCandumpLine(o, payload, FALSE) \/ l = ScreenLine(o, payload)
        /\ events = ToCanEvent(l)
        /\ seen # {} => seen = IF o.extended THEN {Parse(o.id)} ELSE {}
    BY DEF LogInv, Carried, Lined, ReadOf, SeenIsParsed, IsFrame
  <2> DEFINE f == [id |-> o.id, extended |-> o.extended,
                   dlc |-> Len(payload), data |-> payload, odd |-> FALSE]
             e == [frame |-> f, parsed |-> IF o.extended THEN {Parse(o.id)} ELSE {}]
  <2>2. l.format = "bracket" <=> l = ScreenLine(o, payload)
    BY <2>1 DEF ToCandumpLine, ScreenLine
  <2>3. ParseLine(l) = IF l.format = "bracket" /\ payload = <<>> THEN {} ELSE {f}
    <3>1. ParseLine(ToCandumpLine(o, payload, FALSE)) = {f}
      <4>1. \A odd \in BOOLEAN :
               ParseLine(ToCandumpLine(o, payload, odd)) =
                  {[id |-> o.id, extended |-> o.extended, dlc |-> Len(payload),
                    data |-> payload, odd |-> odd]}
        BY <2>1, LogLineReads
      <4> QED
        BY <4>1
    <3>2. ParseLine(ScreenLine(o, payload)) = IF payload = <<>> THEN {} ELSE {f}
      BY <2>1, ScreenLineReads
    <3> QED
      BY <2>1, <2>2, <3>1, <3>2
  <2>4. f.extended = o.extended /\ f.id = o.id
    OBVIOUS
  <2> HIDE DEF f
  <2>5. CASE l.format = "bracket" /\ payload = <<>>
    BY <2>1, <2>3, <2>5 DEF ToCanEvent
  <2>6. CASE ~(l.format = "bracket" /\ payload = <<>>)
    <3>1. events = {e}
      BY <2>1, <2>3, <2>4, <2>6 DEF ToCanEvent
    <3>2. e.frame = f /\ (seen # {} => e.parsed = seen)
      BY <2>1
    <3> QED
      BY <2>6, <3>1, <3>2 DEF f
  <2> QED
    BY <2>5, <2>6
<1> QED
  BY <1>1, LogInvariant, PTL

(* candump_parse.py:31-60: of whatever line from elsewhere, also one with an *)
(* odd number of digits or a length of its own, the frame read of it has no *)
(* more bytes than its length says and an odd digit only behind all of them,*)
(* and is read again of what the decoder writes of it, unless data is       *)
(* missing.                                                                 *)
THEOREM ForeignLinesAreStable == LogSpec => []ReplayIsStable
<1>1. LogInv => ReplayIsStable
  <2> SUFFICES ASSUME LogInv, NEW events \in replayed, NEW e \in events
               PROVE  LET f == e.frame
                          again == ToCandumpLine([id |-> f.id, extended |-> f.extended],
                                                 f.data, f.odd)
                      IN  /\ Len(f.data) <= f.dlc
                          /\ f.odd => f.dlc = Len(f.data)
                          /\ f.dlc = Len(f.data) => ParseLine(again) = {f}
    BY DEF ReplayIsStable
  <2>1. PICK l \in Line : events = ToCanEvent(l)
    BY DEF LogInv, Lined, ReadOf
  <2> DEFINE f == e.frame
             o == [id |-> f.id, extended |-> f.extended]
  <2>2. Matches(l) /\ f = FromParts(l)
    BY <2>1 DEF ToCanEvent, ParseLine
  <2>3. /\ f.data \in Seq(Byte) /\ Len(f.data) <= f.dlc
        /\ f.odd \in BOOLEAN /\ (f.odd => f.dlc = Len(f.data))
    BY <2>2, CutToLength
  <2>4. /\ f.extended \in BOOLEAN
        /\ f = [id |-> f.id, extended |-> f.extended, dlc |-> f.dlc, data |-> f.data,
                odd |-> f.odd]
    BY <2>2 DEF FromParts
  <2>5. o.extended \in BOOLEAN /\ o.id = f.id /\ o.extended = f.extended
    BY <2>4
  <2> HIDE DEF f, o
  <2>6. ParseLine(ToCandumpLine(o, f.data, f.odd)) =
           {[id |-> o.id, extended |-> o.extended, dlc |-> Len(f.data), data |-> f.data,
             odd |-> f.odd]}
    BY <2>3, <2>5, LogLineReads
  <2>7. f.dlc = Len(f.data) => ParseLine(ToCandumpLine(o, f.data, f.odd)) = {f}
    BY <2>4, <2>5, <2>6
  <2> QED
    BY <2>3, <2>7 DEF f, o
<1> QED
  BY <1>1, LogInvariant, PTL
=============================================================================
