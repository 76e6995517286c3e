--------------------------- MODULE DecoderContract ---------------------------
(***************************************************************************)
(* What on_can_event may count on when it calls decode, whatever the       *)
(* analyzer and the other threads do: every frame is given one result, in  *)
(* turn: no fields, an exception, or the answer to this frame or an earlier*)
(* one that no frame was given before.  An exception leaves the fault      *)
(* latched, and nothing else does.                                         *)
(***************************************************************************)
EXTENDS Integers, Sequences

CONSTANTS MaxFrames,  \* bound on frames
          Undecoded, Raised

VARIABLES asked,      \* how many frames were handed to decode
          given,      \* what each of them came to
          faulted     \* is the fault latched?

Init == asked = 0 /\ given = <<>> /\ faulted = FALSE

Ask ==
    /\ asked = Len(given)
    /\ asked < MaxFrames
    /\ asked' = asked + 1
    /\ UNCHANGED <<given, faulted>>

Fresh == 1..asked \ { given[i] : i \in 1..Len(given) }

Give ==
    /\ asked = Len(given) + 1
    /\ \E result \in Fresh \cup {Undecoded, Raised} :
          /\ given' = Append(given, result)
          /\ faulted' = (faulted \/ result = Raised)
    /\ UNCHANGED asked

Next == Ask \/ Give

Spec == Init /\ [][Next]_<<asked, given, faulted>>

\* Every frame that was handed to decode is given its result.
Returns == WF_<<asked, given, faulted>>(Give)
=============================================================================
