-------------------------------- MODULE IpComm --------------------------------
(***************************************************************************)
(* The telephony-processor -> control-processor half of the CSI/O byte     *)
(* link (millennium_state.cpp), as operators on a link record:             *)
(*   prio, norm  m_ipcomm_rx_prio_bytes and m_ipcomm_rx_bytes              *)
(*   shift       m_ipcomm_rx_shift while m_ipcomm_have_rx_byte, NoByte     *)
(*               when there is none (the stale register value is never     *)
(*               read then)                                                *)
(*   bit         m_ipcomm_rx_bit, the next bit of shift to present         *)
(*   rts         m_ipcomm_rts_asserted, also driven to the keypad port     *)
(* IpCommLink makes a specification of it; TelephonyLink composes it with  *)
(* the two protocol parsers.                                               *)
(***************************************************************************)
EXTENDS Naturals, Sequences

CONSTANTS
    Byte,       \* what the queues carry
    NoByte,     \* the empty shift register
    OctetBits   \* bits per octet: 8 in the code

Link == [prio  : Seq(Byte),
         norm  : Seq(Byte),
         shift : Byte \cup {NoByte},
         bit   : 0 .. OctetBits - 1,
         rts   : BOOLEAN]

\* machine_reset: queues cleared, no byte in the register, RTS low.
IdleLink == [prio |-> <<>>, norm |-> <<>>, shift |-> NoByte, bit |-> 0, rts |-> FALSE]

Loaded(l, b) == [l EXCEPT !.shift = b, !.bit = 0, !.rts = TRUE]

\* Slips in prime_ipcomm_rx_shift_from_queues that the runs must notice: RTS left up on
\* an empty link, the occupied register overwritten, the normal queue served first.
PrimeKeepsRts(l) ==
    IF l.shift # NoByte THEN l
    ELSE IF l.prio # <<>> THEN [Loaded(l, Head(l.prio)) EXCEPT !.prio = Tail(@)]
    ELSE IF l.norm # <<>> THEN [Loaded(l, Head(l.norm)) EXCEPT !.norm = Tail(@)]
    ELSE l

PrimeOverwrites(l) ==
    IF l.prio # <<>> THEN [Loaded(l, Head(l.prio)) EXCEPT !.prio = Tail(@)]
    ELSE IF l.norm # <<>> THEN [Loaded(l, Head(l.norm)) EXCEPT !.norm = Tail(@)]
    ELSE IF l.shift # NoByte THEN l
    ELSE [l EXCEPT !.rts = FALSE]

PrimeNormFirst(l) ==
    IF l.shift # NoByte THEN l
    ELSE IF l.norm # <<>> THEN [Loaded(l, Head(l.norm)) EXCEPT !.norm = Tail(@)]
    ELSE IF l.prio # <<>> THEN [Loaded(l, Head(l.prio)) EXCEPT !.prio = Tail(@)]
    ELSE [l EXCEPT !.rts = FALSE]

\* prime_ipcomm_rx_shift_from_queues: an occupied register is left alone, the
\* priority queue goes first, and only an empty link drops RTS.
Prime(l) ==
    IF l.shift # NoByte THEN l
    ELSE IF l.prio # <<>> THEN [Loaded(l, Head(l.prio)) EXCEPT !.prio = Tail(@)]
    ELSE IF l.norm # <<>> THEN [Loaded(l, Head(l.norm)) EXCEPT !.norm = Tail(@)]
    ELSE [l EXCEPT !.rts = FALSE]

\* ipcomm_queue_rx_byte for each byte of bs in turn: once the first byte has
\* primed the register the others only append, so one Prime at the end is the same.
QueuePrio(l, bs) == Prime([l EXCEPT !.prio = @ \o bs])
QueueNormUnprimed(l, bs) == [l EXCEPT !.norm = @ \o bs]   \* a slip: no prime
QueueNorm(l, bs) == Prime([l EXCEPT !.norm = @ \o bs])

\* The eighth rising SCLK edge (board_status_w): the octet is complete, the
\* register is freed and refilled.
Shifted(l) == Prime([l EXCEPT !.shift = NoByte, !.bit = 0])

\* A slip: the bit counter compared with the number of bits, one edge late.
ClockedLate(l) ==
    IF l.bit = OctetBits THEN Shifted(l) ELSE [l EXCEPT !.bit = @ + 1]

\* One rising SCLK edge with a byte in the register.
Clocked(l) ==
    IF (l.bit + 1) % OctetBits = 0 THEN Shifted(l) ELSE [l EXCEPT !.bit = @ + 1]

\* ipcomm_pending_rx_count() = 0
Empty(l) == l.shift = NoByte /\ l.prio = <<>> /\ l.norm = <<>>

Pending(l) == Len(l.prio) + Len(l.norm) + (IF l.shift = NoByte THEN 0 ELSE 1)

\* What the CP will be handed next if nothing else is queued.
Stream(l) == (IF l.shift = NoByte THEN <<>> ELSE <<l.shift>>) \o l.prio \o l.norm

(***************************************************************************)
(* No byte is stranded behind an empty register, and RTS tells the CP      *)
(* exactly whether a byte is waiting: firmware that polls RTS never misses *)
(* a byte and never clocks an empty register.                              *)
(***************************************************************************)
NothingStranded(l) == l.shift = NoByte => l.prio = <<>> /\ l.norm = <<>>
RtsExact(l) == l.rts <=> l.shift # NoByte
LinkOK(l) == NothingStranded(l) /\ RtsExact(l)
===============================================================================
