------------------------------ MODULE IpCommLink ------------------------------
(***************************************************************************)
(* The byte link on its own: the telephony side queues bytes in either     *)
(* class, the CP clocks bits out, the machine may be reset.  A byte is     *)
(* tagged with the class it was queued in; the tag is not in the code, it  *)
(* lets the refinement say which class the shift register serves.          *)
(***************************************************************************)
EXTENDS Naturals, Sequences

CONSTANTS
    Data,       \* byte values
    NoByte,
    OctetBits,
    MaxQueued   \* bound on the bytes waiting (the deques of the code have none)

Class == {"prio", "norm"}
Byte == [class : Class, data : Data]

INSTANCE IpComm

ASSUME NoByteAssumption == NoByte \notin Byte
ASSUME OctetBitsAssumption == OctetBits \in Nat \ {0}
ASSUME MaxQueuedAssumption == MaxQueued \in Nat

VARIABLE link

vars == link

Init == link = IdleLink

\* ipcomm_queue_rx_byte(data, priority)
Queued(l, b) == IF b.class = "prio" THEN QueuePrio(l, <<b>>) ELSE QueueNorm(l, <<b>>)

Queue(b) == /\ Pending(link) < MaxQueued
            /\ link' = Queued(link, b)

\* board_status_w, rising SCLK with a byte in the register
SclkRise == /\ link.shift # NoByte
            /\ link' = Clocked(link)

\* machine_reset
Reset == link' = IdleLink

Next == \/ \E b \in Byte : Queue(b)
        \/ SclkRise
        \/ Reset

\* The CP firmware polls RTS and keeps clocking while it is up.
Fairness == WF_vars(SclkRise)

Spec == Init /\ [][Next]_vars /\ Fairness

-------------------------------------------------------------------------------

\* The register, the bit counter and both queues keep their ranges.
TypeOK == link \in Link

\* No stranded byte, RTS exact (see IpComm): what the firmware's RTS polling rests on.
LinkInv == LinkOK(link)

OfClass(l, c) ==
    (IF l.shift # NoByte /\ l.shift.class = c THEN <<l.shift>> ELSE <<>>)
        \o (IF c = "prio" THEN l.prio ELSE l.norm)

Fifo == INSTANCE TwoClassFifo
            WITH Class <- Class, Data <- Byte,
                 inFlight <- [c \in Class |-> OfClass(link, c)],
                 request <- link.rts

\* Two queues, one register and a bit counter deliver what two loss-free FIFOs
\* deliver, under RTS: prime_ipcomm_rx_shift_from_queues loses, duplicates and
\* reorders nothing within a class whatever moment the bytes are queued at.
FifoSpec == Fifo!Spec

\* A normal byte enters the register only when no priority byte was waiting.
PriorityFirst ==
    [][link'.shift # link.shift /\ link'.shift # NoByte /\ link'.shift.class = "norm"
        => link'.prio = <<>>]_vars
===============================================================================
