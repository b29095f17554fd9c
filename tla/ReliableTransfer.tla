-------------------------- MODULE ReliableTransfer --------------------------
(***************************************************************************)
(* What a sliding-window transfer of one message promises, with no         *)
(* sequence numbers, no channels and no timers: the receiver collects the  *)
(* characters of the message in order and each once, the sender never runs *)
(* more than a window ahead of what it knows to be received, and what it    *)
(* takes for received has been received.  Characters are named by their    *)
(* position in the message.                                                *)
(***************************************************************************)
EXTENDS Integers, Sequences

CONSTANTS
    MaxLen,         \* longest message
    Window          \* how far the sender may run ahead

VARIABLES
    length,         \* length of the message
    offered,        \* characters handed to the network at least once
    delivered,      \* what the receiver has collected, in order of arrival
    confirmed,      \* characters the sender takes for received
    finished        \* the sender has declared the transfer complete

vars == <<length, offered, delivered, confirmed, finished>>

Init ==
    /\ length \in 0 .. MaxLen
    /\ offered = 0
    /\ delivered = <<>>
    /\ confirmed = 0
    /\ finished = FALSE

Offer ==
    /\ ~ finished
    /\ offered < length
    /\ offered - confirmed < Window
    /\ offered' = offered + 1
    /\ UNCHANGED <<length, delivered, confirmed, finished>>

Deliver ==
    /\ Len(delivered) < offered
    /\ delivered' = Append(delivered, Len(delivered) + 1)
    /\ UNCHANGED <<length, offered, confirmed, finished>>

Confirm(k) ==
    /\ ~ finished
    /\ k \in confirmed + 1 .. Len(delivered)
    /\ confirmed' = k
    /\ UNCHANGED <<length, offered, delivered, finished>>

Finish ==
    /\ ~ finished
    /\ confirmed = length
    /\ finished' = TRUE
    /\ UNCHANGED <<length, offered, delivered, confirmed>>

Next ==
    \/ Offer
    \/ Deliver
    \/ \E k \in 1 .. MaxLen : Confirm(k)
    \/ Finish

Spec == Init /\ [][Next]_vars
=============================================================================
