------------------------------- MODULE SmartCard -------------------------------
(***************************************************************************)
(* The smart card slot (millennium_smartcard_model.cpp) behind port 0xC2:  *)
(* a FIFO that takes the answer to reset (ATR) at the first read after the *)
(* card's delay, and two-byte commands that a memory card answers.  The    *)
(* terminal firmware and the patron are external.                          *)
(***************************************************************************)
EXTENDS Naturals, Sequences

CONSTANTS
    CardFixtures,       \* the card files: protocol, atr, memory, locked (requires_authorization)
    CommandBytes,       \* the bytes the firmware may write
    AtrDelay,           \* atr_delay_us, in ticks
    MaxWritten,         \* bound: bytes written in one session of a card
    MaxReads            \* bound: bytes read in one session of a card

Byte == 0..255

CardFixture == [protocol : {"memory", "sync", "cpu"}, atr : Seq(Byte), memory : Seq(Byte), locked : BOOLEAN]

ASSUME SmartCardAssumption ==
    /\ CardFixtures \subseteq CardFixture
    /\ CardFixtures # {}
    /\ CommandBytes \subseteq Byte
    /\ AtrDelay \in Nat
    /\ MaxWritten \in Nat
    /\ MaxReads \in Nat

NoByte == 256           \* the 0xff of an empty FIFO, told apart from a byte 0xff

VARIABLES
    slot,       \* the model
    dialogue    \* external: what the firmware wrote and read since the card was inserted or reset

smartVars == <<slot, dialogue>>

\* m_atr_pending stays empty and m_reset_pending is never read.
Slot == [present : BOOLEAN, fixture : CardFixture, rx : Seq(Byte), atrDone : BOOLEAN,
         block : 0..AtrDelay,                       \* ticks up to m_block_until_cycle
         cmdPhase : BOOLEAN, cmd0 : Byte,
         selected : {"none", "t0", "t1", "sync"}, authorized : BOOLEAN]

\* early: how many bytes were taken before the ATR entered the FIFO; torn: an earlier card
\* left half a command, or a bad card file has wiped this card.
Dialogue == [taken : Seq(Byte), early : Nat, got : Seq(Byte), torn : BOOLEAN]

NoDialogue(torn) == [taken |-> <<>>, early |-> 0, got |-> <<>>, torn |-> torn]

SmartInit ==
    /\ \E f \in CardFixtures :
         slot = [present |-> FALSE, fixture |-> f, rx |-> <<>>, atrDone |-> FALSE, block |-> 0,
                 cmdPhase |-> FALSE, cmd0 |-> 0, selected |-> "none", authorized |-> FALSE]
    /\ dialogue = NoDialogue(FALSE)
-----------------------------------------------------------------------------
IsReadCommand(b) == b \div 16 = 11

MemoryCell(f, b) == f.memory[1 + (b % Len(f.memory))]

Takes(s) == (s.fixture.locked => s.authorized) /\ s.present /\ s.fixture.protocol = "memory"

\* The second byte answers the first.
CommandTaken(s, b) ==
    IF ~s.cmdPhase
    THEN [s EXCEPT !.cmd0 = b, !.cmdPhase = TRUE]
    ELSE [s EXCEPT !.cmdPhase = FALSE,
                   !.rx = IF IsReadCommand(s.cmd0) /\ s.fixture.memory # <<>>
                          THEN Append(@, MemoryCell(s.fixture, b)) ELSE @]

\* What read_fifo finds: the ATR goes behind whatever the FIFO already holds.
WithAtr(s) == IF s.atrDone THEN s ELSE [s EXCEPT !.rx = @ \o s.fixture.atr, !.atrDone = TRUE]

PresenceBits(y) == (y % 2) + ((y \div 2) % 2) + ((y \div 4) % 2)

\* Whether an interface byte TDi of the ATR, found by following the presence bits, offers T=1.
OffersT1(atr) ==
    LET from[cursor \in Nat, y \in 0..15] ==
          LET at == cursor + PresenceBits(y)
              tdi == atr[at + 1]
          IN IF y < 8 \/ at >= Len(atr) THEN FALSE
             ELSE tdi % 16 = 1 \/ from[at + 1, tdi \div 16]
    IN from[2, atr[2] \div 16]

\* negotiate_protocol; "none" is a refusal, which leaves the selection alone.
Negotiated(f, probe) ==
    IF f.protocol = "memory" THEN "t0"
    ELSE IF f.protocol = "sync" THEN "sync"
    ELSE IF Len(f.atr) < 2 \/ f.atr[1] \notin {59, 63} THEN (IF probe THEN "sync" ELSE "none")
    ELSE IF OffersT1(f.atr) THEN "t1" ELSE "t0"
-----------------------------------------------------------------------------
\* poll_card_ui: the fixture is read again, then the card goes in.  The command phase is kept.
InsertCard(f) ==
    /\ slot' = [slot EXCEPT !.present = TRUE, !.fixture = f, !.rx = <<>>, !.atrDone = FALSE, !.block = AtrDelay]
    /\ dialogue' = NoDialogue(slot.cmdPhase)

BlankFixture(protocol) == [protocol |-> protocol, atr |-> <<>>, memory |-> <<>>, locked |-> FALSE]

\* A card file without a valid ATR: no card goes in, and one already in loses its fixture.
BadCardFile(protocol) ==
    /\ slot' = [slot EXCEPT !.fixture = BlankFixture(protocol)]
    /\ dialogue' = [dialogue EXCEPT !.torn = TRUE]

\* Also what device_reset does.
RemoveCard ==
    /\ slot' = [slot EXCEPT !.present = FALSE, !.rx = <<>>, !.atrDone = FALSE,
                            !.selected = "none", !.authorized = FALSE]
    /\ dialogue' = NoDialogue(slot.cmdPhase)

NotifyReset ==
    /\ slot.present
    /\ slot' = [slot EXCEPT !.rx = <<>>, !.atrDone = FALSE, !.block = AtrDelay, !.cmdPhase = FALSE]
    /\ dialogue' = NoDialogue(FALSE)

ReadFifo ==
    LET ready == slot.present /\ slot.block = 0
        filled == IF ready THEN WithAtr(slot) ELSE slot
    IN /\ Len(dialogue.got) < MaxReads
       /\ slot' = IF ready /\ filled.rx # <<>> THEN [filled EXCEPT !.rx = Tail(@)] ELSE filled
       /\ dialogue' = [dialogue EXCEPT
                         !.early = IF ready /\ ~slot.atrDone THEN Len(dialogue.taken) ELSE @,
                         !.got = IF ready /\ filled.rx # <<>> THEN Append(@, Head(filled.rx)) ELSE @]

\* mach_pio_w: every write to the port is a command byte.
CardCommand(b) ==
    /\ Len(dialogue.taken) < MaxWritten
    /\ slot' = IF Takes(slot) THEN CommandTaken(slot, b) ELSE slot
    /\ dialogue' = IF Takes(slot) THEN [dialogue EXCEPT !.taken = Append(@, b)] ELSE dialogue

Negotiate(probe) ==
    /\ slot' = IF slot.present /\ Negotiated(slot.fixture, probe) # "none"
               THEN [slot EXCEPT !.selected = Negotiated(slot.fixture, probe)] ELSE slot
    /\ UNCHANGED dialogue

Authorize(granted) ==
    /\ slot' = [slot EXCEPT !.authorized = granted]
    /\ UNCHANGED dialogue

SmartTick ==
    /\ slot.block > 0
    /\ slot' = [slot EXCEPT !.block = @ - 1]
    /\ UNCHANGED dialogue

SmartNext ==
    \/ \E f \in CardFixtures : InsertCard(f)
    \/ \E f \in CardFixtures : BadCardFile(f.protocol)
    \/ RemoveCard
    \/ NotifyReset
    \/ ReadFifo
    \/ \E b \in CommandBytes : CardCommand(b)
    \/ \E probe \in BOOLEAN : Negotiate(probe)
    \/ \E granted \in BOOLEAN : Authorize(granted)
    \/ SmartTick

SmartSpec == SmartInit /\ [][SmartNext]_smartVars
-----------------------------------------------------------------------------
\* The slot has its type, holds nothing without a card, and shows the ATR as sent only when it was due.
SmartTypeOK ==
    /\ slot \in Slot
    /\ dialogue \in Dialogue
    /\ ~slot.present => slot.rx = <<>> /\ ~slot.atrDone /\ slot.selected = "none"
    /\ slot.atrDone => slot.block = 0

\* What a memory card answers to the bytes it took: one answer at the end of each read pair.
CardAnswers(f, taken) ==
    LET after[n \in 0..Len(taken)] ==
          IF n = 0 THEN <<>>
          ELSE IF n % 2 = 0 /\ IsReadCommand(taken[n - 1])
          THEN Append(after[n - 1], MemoryCell(f, taken[n]))
          ELSE after[n - 1]
    IN IF f.memory = <<>> THEN <<>> ELSE after[Len(taken)]

\* The bytes a firmware has read and those still in the FIFO are the whole ATR, exactly once,
\* and one answer per command, in the order asked, unless an earlier card left half a command
\* or a bad card file wiped the card.
AnswersInOrder ==
    LET all == CardAnswers(slot.fixture, dialogue.taken)
        before == Len(CardAnswers(slot.fixture, SubSeq(dialogue.taken, 1, dialogue.early)))
    IN slot.present /\ ~dialogue.torn =>
         dialogue.got \o slot.rx =
           IF slot.atrDone
           THEN SubSeq(all, 1, before) \o slot.fixture.atr \o SubSeq(all, before + 1, Len(all))
           ELSE all
===============================================================================
