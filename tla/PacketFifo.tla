----------------------------- MODULE PacketFifo -----------------------------
(***************************************************************************)
(* What the three transfer protocols of src/4_mac take send_packet and     *)
(* recv_packet for: packets come out as they went in, each once and, as    *)
(* long as nothing is thrown away, in order and without a gap.             *)
(***************************************************************************)
EXTENDS Integers, Sequences

CONSTANT MaxPackets     \* bound: packets sent

VARIABLES sent, returned, gaps

Init == sent = <<>> /\ returned = <<>> /\ gaps = FALSE

Send ==
    /\ Len(sent) < MaxPackets
    /\ sent' = Append(sent, Len(sent) + 1)
    /\ UNCHANGED <<returned, gaps>>

Return ==
    /\ \E i \in DOMAIN sent :
           /\ \A k \in DOMAIN returned : returned[k] # sent[i]
           /\ gaps \/ i = Len(returned) + 1
           /\ returned' = Append(returned, sent[i])
    /\ UNCHANGED <<sent, gaps>>

ThrowAway == gaps' = TRUE /\ UNCHANGED <<sent, returned>>

Next == Send \/ Return \/ ThrowAway

Spec == Init /\ [][Next]_<<sent, returned, gaps>>
=============================================================================
