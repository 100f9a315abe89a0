-------------------------- MODULE OutboundChannel --------------------------
(***************************************************************************)
(* What DeviceSession::send promises to its callers, whatever the threads  *)
(* that call it: the packets it accepted go out byte after byte, in the    *)
(* order it accepted them, each whole before the next begins; once a write *)
(* failed the stream is torn and not one more byte follows.                *)
(*                                                                         *)
(* A packet is known by its rank of acceptance, a byte by its packet and   *)
(* its offset in it.  What the bytes say does not matter here.             *)
(***************************************************************************)
EXTENDS Naturals, Sequences

CONSTANT Sizes          \* the lengths a packet can have, none of them 0

VARIABLES accepted,     \* accepted[k]: the length of the k-th packet accepted
          wire,         \* the bytes handed to the socket so far
          broken        \* a write failed

chanVars == <<accepted, wire, broken>>

Byte(k, b) == [pkt |-> k, off |-> b]

\* The byte that must follow the ones on the wire.
NextByte ==
  IF wire = <<>> THEN Byte(1, 1)
  ELSE LET last == wire[Len(wire)] IN
       IF last.off < accepted[last.pkt] THEN Byte(last.pkt, last.off + 1)
                                        ELSE Byte(last.pkt + 1, 1)

Init == accepted = <<>> /\ wire = <<>> /\ broken = FALSE

Accept == /\ \E size \in Sizes : accepted' = Append(accepted, size)
          /\ UNCHANGED <<wire, broken>>

Deliver == /\ ~broken
           /\ NextByte.pkt \in DOMAIN accepted
           /\ wire' = Append(wire, NextByte)
           /\ UNCHANGED <<accepted, broken>>

\* A write can only fail while there is something left to write.
Break == /\ ~broken
         /\ NextByte.pkt \in DOMAIN accepted
         /\ broken' = TRUE
         /\ UNCHANGED <<accepted, wire>>

Next == Accept \/ Deliver \/ Break

\* While the channel is whole, what was accepted keeps going out.
Spec == Init /\ [][Next]_chanVars /\ WF_chanVars(Deliver \/ Break)
=============================================================================
