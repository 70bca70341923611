----------------------------- MODULE CoinValidator -----------------------------
(***************************************************************************)
(* The coin validator (millennium_coin_model.cpp): a coin becomes a train  *)
(* of pulses on bit 0 of the status port, timed by the CPU's cycle count;  *)
(* nothing advances the train but the reads of the port.  The terminal     *)
(* firmware that samples the port, and the patron, are external.           *)
(***************************************************************************)
EXTENDS Naturals

CONSTANTS
    Denominations,          \* denominations_cents of the board profile
    Offered,                \* the cents a patron may insert (COINLINE_COIN_DENOM is free text)
    PulseWidth, PulseGap,   \* pulse_width_us and inter_pulse_gap_us, in ticks
    SamplePeriod            \* external: the longest time between two samples of the port

ASSUME CoinAssumption ==
    /\ Denominations \subseteq Nat
    /\ Offered \subseteq Nat
    /\ PulseWidth \in Nat \ {0}
    /\ PulseGap \in Nat \ {0}
    /\ SamplePeriod \in 1..(PulseWidth - 1)
    /\ SamplePeriod <= PulseGap

VARIABLES
    coin,       \* the model's latches and the train under way
    coinUi,     \* m_coin_ui_last: the switches as last polled
    sampler     \* external: the firmware's view of the pulse line

coinVars == <<coin, coinUi, sampler>>

\* m_protocol_timeout_count and m_protocol_reset_pulse_count only count.
CoinState == [disabled : BOOLEAN, jam : BOOLEAN, reject : BOOLEAN, emitting : BOOLEAN,
              pending : Nat, escrow : Nat, target : Nat,
              age : Nat]    \* cycles since m_train_start_cycle

CoinIdle == [disabled |-> FALSE, jam |-> FALSE, reject |-> FALSE, emitting |-> FALSE,
             pending |-> 0, escrow |-> 0, target |-> 0, age |-> 0]

CoinSwitches == {"insert", "reject", "jam"}

\* counted: rising edges sampled of the present train; whole: nothing has cut it.
Sampler == [line : BOOLEAN, counted : Nat, wait : 0..SamplePeriod, whole : BOOLEAN]

CoinInit == /\ coin = CoinIdle
            /\ coinUi = {}
            /\ sampler = [line |-> FALSE, counted |-> 0, wait |-> 0, whole |-> FALSE]
-----------------------------------------------------------------------------
\* Five cents a pulse; 0 stands for the code's -1.
PulsesOf(cents) == IF cents % 5 = 0 THEN cents \div 5 ELSE 0

Accepts(c, cents) == /\ ~c.disabled /\ ~c.jam
                     /\ cents \in Denominations
                     /\ PulsesOf(cents) > 0

\* A second coin takes over the train and the escrow of the first.
Insert(c, cents) ==
    IF Accepts(c, cents)
    THEN [c EXCEPT !.pending = cents, !.escrow = cents, !.target = PulsesOf(cents),
                   !.emitting = TRUE, !.age = 0, !.reject = FALSE]
    ELSE c

Dropped(c) == [c EXCEPT !.emitting = FALSE, !.pending = 0, !.escrow = 0, !.target = 0, !.age = 0]

RejectRoute(c) == [Dropped(c) EXCEPT !.reject = TRUE]

Jam(c) == [Dropped(c) EXCEPT !.jam = TRUE]

\* A slip: the gaps between the pulses are forgotten.
TrainLengthNoGap(n) == n * PulseWidth

TrainLength(n) == n * PulseWidth + (n - 1) * PulseGap

PulseLine(n, age) == \E i \in 0..(n - 1) : LET t0 == i * (PulseWidth + PulseGap)
                                           IN t0 <= age /\ age < t0 + PulseWidth

\* read_status looks at the train only while it is emitting and not jammed.
TrainSeen(c) == c.emitting /\ ~c.jam

TrainOver(c) == TrainSeen(c) /\ c.age >= TrainLength(c.target)

StatusPulse(c) == TrainSeen(c) /\ ~TrainOver(c) /\ PulseLine(c.target, c.age)

\* A train over is forgotten by the read that finds it so.
AfterRead(c) == IF TrainOver(c) THEN [c EXCEPT !.emitting = FALSE, !.pending = 0, !.age = 0] ELSE c

\* Bit 0 disables, bit 1 clears jam and reject, bit 2 clears reject.
Control(c, bits) == [c EXCEPT !.disabled = (0 \in bits),
                              !.jam = @ /\ 1 \notin bits,
                              !.reject = @ /\ 1 \notin bits /\ 2 \notin bits]

ProtocolCommands == {"wake", "sleep", "learn_escrow", "collect_escrow", "refund_escrow", "reset_fault"}

\* enable_acceptance does what wake does; poll_status and checksum_request change nothing.
Commanded(c, cmd) ==
    CASE cmd = "wake" -> [c EXCEPT !.disabled = FALSE]
      [] cmd = "sleep" -> [c EXCEPT !.disabled = TRUE]
      [] cmd = "learn_escrow" -> [c EXCEPT !.jam = FALSE, !.reject = FALSE, !.escrow = 0]
      [] cmd = "collect_escrow" -> [c EXCEPT !.escrow = 0]
      [] cmd = "refund_escrow" -> [c EXCEPT !.escrow = 0, !.reject = (@ \/ c.escrow > 0)]
      [] cmd = "reset_fault" -> [c EXCEPT !.jam = FALSE, !.reject = FALSE]
-----------------------------------------------------------------------------
\* poll_coin_ui: only a switch newly closed acts, and insert, reject, jam act in this order.
\* A coin accepted starts a train, which the firmware counts if it knows the line to be low.
PollCoinUi(closed, cents) ==
    LET rise == closed \ coinUi
        inserted == IF "insert" \in rise THEN Insert(coin, cents) ELSE coin
        rejected == IF "reject" \in rise THEN RejectRoute(inserted) ELSE inserted
        starts == "insert" \in rise /\ Accepts(coin, cents)
    IN /\ coinUi' = closed
       /\ coin' = (IF "jam" \in rise THEN Jam(rejected) ELSE rejected)
       /\ sampler' = [sampler EXCEPT
                        !.counted = IF starts THEN 0 ELSE @,
                        !.whole = coin'.emitting /\ (IF starts THEN ~sampler.line ELSE @)]

CoinStatusRead ==
    /\ coin' = AfterRead(coin)
    /\ sampler' = [line |-> StatusPulse(coin),
                   counted |-> IF sampler.whole /\ StatusPulse(coin) /\ ~sampler.line
                               THEN sampler.counted + 1 ELSE sampler.counted,
                   wait |-> 0,
                   whole |-> sampler.whole /\ ~TrainOver(coin)]
    /\ UNCHANGED coinUi

CoinControlWrite(bits) ==
    /\ coin' = Control(coin, bits)
    /\ UNCHANGED <<coinUi, sampler>>

CoinCommand(cmd) ==
    /\ coin' = Commanded(coin, cmd)
    /\ UNCHANGED <<coinUi, sampler>>

\* A validator that does not answer counts as jammed; its train is hidden and runs on.
CoinTimeout ==
    /\ coin' = [coin EXCEPT !.jam = TRUE]
    /\ sampler' = [sampler EXCEPT !.whole = FALSE]
    /\ UNCHANGED coinUi

CoinReset ==
    /\ coin' = CoinIdle
    /\ sampler' = [sampler EXCEPT !.whole = FALSE]
    /\ UNCHANGED coinUi

\* A tick of the CPU clock, which the firmware's sampling keeps up with.
CoinTick ==
    /\ sampler.wait < SamplePeriod
    /\ sampler' = [sampler EXCEPT !.wait = @ + 1]
    /\ coin' = [coin EXCEPT !.age = IF coin.emitting /\ @ < TrainLength(coin.target) THEN @ + 1 ELSE @]
    /\ UNCHANGED coinUi

CoinNext ==
    \/ \E closed \in SUBSET CoinSwitches :
          \E cents \in IF "insert" \in closed THEN Offered ELSE {0} : PollCoinUi(closed, cents)
    \/ CoinStatusRead
    \/ \E bits \in SUBSET (0..2) : CoinControlWrite(bits)
    \/ \E cmd \in ProtocolCommands : CoinCommand(cmd)
    \/ CoinTimeout
    \/ CoinReset
    \/ CoinTick

CoinSpec == CoinInit /\ [][CoinNext]_coinVars
-----------------------------------------------------------------------------
\* The latches, the train and the escrow have their types, and a train under way is one of
\* a whole number of pulses for a coin the profile allows.
CoinTypeOK ==
    /\ coin \in CoinState
    /\ coinUi \subseteq CoinSwitches
    /\ sampler \in Sampler
    /\ coin.emitting => /\ coin.pending \in Denominations
                        /\ coin.target = PulsesOf(coin.pending)
                        /\ coin.target > 0
    /\ ~coin.emitting => coin.pending = 0 /\ coin.age = 0
    /\ coin.escrow \in Denominations \cup {0}

\* A train that nothing cut and that began on a line known to be low has, when it is over,
\* shown a firmware that samples once per pulse and gap exactly its number of rising edges.
PulsesCounted == TrainOver(coin) /\ sampler.whole => sampler.counted = coin.target
===============================================================================
