------------------------------ MODULE VoiceDecode ------------------------------
(***************************************************************************)
(* A phrase of the voice ROM (decode_phrase in millennium_voiceware.cpp    *)
(* and the lookup it shares with the chip's path): a phrase number selects *)
(* a message of the latched bank, and the message's commands become blocks *)
(* of samples.  Each step of the model is one turn of the command loop.    *)
(* A message is the octets from its mode octet to the end of its window.   *)
(***************************************************************************)
EXTENDS Integers, Sequences, FiniteSets

CONSTANTS
    Rom,            \* the segments of a chip: [magic, messages], the messages octet sequences
    Phrases,        \* bound: the phrase octets the firmware writes
    FixedNibbles    \* samples of a fixed block: 256

ASSUME VoiceDecodeAssumption ==
    /\ Rom \in Seq([magic : BOOLEAN, messages : Seq(Seq(0..255))])
    /\ Phrases \subseteq 0..255
    /\ FixedNibbles \in Nat \ {0} /\ FixedNibbles % 2 = 0

VARIABLES
    voice   \* the decode under way

voiceVars == <<voice>>

\* The messages before a segment; segments without the magic, or
\* with a count beyond 128, are passed over.
MessagesIn(seg) == IF Rom[seg].magic THEN Len(Rom[seg].messages) ELSE 0

PhrasesBefore(seg) ==
    LET upTo[s \in 0..(seg - 1)] == IF s = 0 THEN 0 ELSE upTo[s - 1] + MessagesIn(s)
    IN upTo[seg - 1]

\* lookup_phrase_for_upd7759: phrases count on through the chip, and only the segment of the
\* latched bank may hold the one asked for; 0 where there is none.
LookupIndex(bank, phrase) ==
    LET local == phrase - PhrasesBefore(bank) + 1
    IN IF Rom[bank].magic /\ local \in DOMAIN Rom[bank].messages /\ Rom[bank].messages[local][1] = 0
       THEN local ELSE 0

\* In the spec mode a phrase is an index into its segment.
MessageIndex(mode, bank, phrase) ==
    IF mode = "reference" THEN LookupIndex(bank, phrase)
    ELSE IF Rom[bank].magic /\ phrase < Len(Rom[bank].messages) /\ Rom[bank].messages[phrase + 1][1] = 0
    THEN phrase + 1 ELSE 0
-----------------------------------------------------------------------------
\* k_upd7759_step: the sizes of nibbles 0..7; 8..15 are the same below zero.
StepTable == <<
    <<0, 0, 1, 2, 3, 5, 7, 10>>,          <<0, 1, 2, 3, 4, 6, 8, 13>>,
    <<0, 1, 2, 4, 5, 7, 10, 15>>,         <<0, 1, 3, 4, 6, 9, 13, 19>>,
    <<0, 2, 3, 5, 8, 11, 15, 23>>,        <<0, 2, 4, 7, 10, 14, 19, 29>>,
    <<0, 3, 5, 8, 12, 16, 22, 33>>,       <<1, 4, 7, 10, 15, 20, 29, 43>>,
    <<1, 4, 8, 13, 18, 25, 35, 53>>,      <<1, 6, 10, 16, 22, 31, 43, 64>>,
    <<2, 7, 12, 19, 27, 37, 51, 76>>,     <<2, 9, 16, 24, 34, 46, 64, 96>>,
    <<3, 11, 19, 29, 41, 57, 79, 117>>,   <<4, 13, 24, 36, 50, 69, 96, 143>>,
    <<4, 16, 29, 44, 62, 85, 118, 175>>,  <<6, 20, 36, 54, 76, 104, 144, 214>> >>

\* k_upd7759_state.
StateTable == <<-1, -1, 0, 0, 1, 2, 2, 3>>

ClampTo(n, low, high) == IF n < low THEN low ELSE IF n > high THEN high ELSE n

\* append_nibble.
NextAdpcm(a, nibble) ==
    LET size == StepTable[a.state + 1][(nibble % 8) + 1]
    IN [state |-> ClampTo(a.state + StateTable[(nibble % 8) + 1], 0, 15),
        sample |-> a.sample + IF nibble >= 8 THEN -size ELSE size]

\* The high nibble of an octet comes first.
NibbleAt(bytes, k) == LET b == bytes[(k + 1) \div 2] IN IF k % 2 = 1 THEN b \div 16 ELSE b % 16

AfterNibbles(a, bytes, n) ==
    LET after[k \in 0..n] == IF k = 0 THEN a ELSE NextAdpcm(after[k - 1], NibbleAt(bytes, k))
    IN after[n]

\* rate_from_header, and the rounding of append_linear_resampled to 48 kHz.
RateFromHeader(op) == 160000 \div ((op % 64) + 1)
Resampled(n, rate) == (2 * n * 48000 + rate) \div (2 * rate)
-----------------------------------------------------------------------------
FreshPredictor == [state |-> 0, sample |-> 0]

Adpcm == [state : 0..15, sample : Int]

\* A block as it is heard: its samples at 48 kHz and the predictor after it.
Block == [kind : {"silence", "fixed", "variable", "repeat"}, samples : Nat, after : Adpcm]

VoiceInit ==
    \E mode \in {"reference", "spec"}, bank \in DOMAIN Rom, phrase \in Phrases :
        LET i == MessageIndex(mode, bank, phrase)
        IN voice = [mode |-> mode, bank |-> bank, phrase |-> phrase,
                    bytes |-> IF i = 0 THEN <<>> ELSE Rom[bank].messages[i], at |-> 2,
                    adpcm |-> FreshPredictor, repeats |-> 0, loop |-> 0, blocks |-> <<>>,
                    state |-> IF i = 0 THEN "failed" ELSE "running"]

\* A loop of the spec mode starts each of its turns at the same command.
Turn == IF voice.repeats > 0 THEN [voice EXCEPT !.repeats = @ - 1, !.at = voice.loop] ELSE voice

Readable(n) == n <= Len(voice.bytes)

Op == voice.bytes[Turn.at]

InClass(low, high) == voice.state = "running" /\ Readable(Turn.at) /\ Op \in low..high

Emit(v, block, next) == voice' = [v EXCEPT !.blocks = Append(@, block), !.adpcm = block.after, !.at = next]

EndMarker == InClass(0, 0) /\ voice' = [Turn EXCEPT !.at = @ + 1, !.state = "played"]

\* A reference silence keeps the predictor, a silence of the spec mode resets it.
Silence ==
    /\ InClass(1, 63)
    /\ IF voice.mode = "reference"
       THEN Emit(Turn, [kind |-> "silence", samples |-> Resampled(Op * 8, 8000), after |-> voice.adpcm],
                 Turn.at + 1)
       ELSE Emit(Turn, [kind |-> "silence", samples |-> Resampled(256 * (Op + 1), 160000), after |-> FreshPredictor],
                 Turn.at + 1)

\* decode_block_payload and decode_nibble_block: n nibbles from the octets at first on.
Payload(n, first) ==
    AfterNibbles(IF voice.mode = "spec" THEN FreshPredictor ELSE voice.adpcm,
                 SubSeq(voice.bytes, first, first + (n + 1) \div 2 - 1), n)

BlockRate == IF voice.mode = "reference" THEN 8000 ELSE RateFromHeader(Op)

FixedBlock ==
    /\ InClass(64, 127)
    /\ Readable(Turn.at + FixedNibbles \div 2)
    /\ Emit(Turn, [kind |-> "fixed", samples |-> Resampled(FixedNibbles, BlockRate),
                   after |-> Payload(FixedNibbles, Turn.at + 1)],
            Turn.at + 1 + FixedNibbles \div 2)

\* The operand of a variable block is one less than its nibbles.
Nibbles == voice.bytes[Turn.at + 1] + 1

PayloadReadable == Readable(Turn.at + 1) /\ Readable(Turn.at + 1 + (Nibbles + 1) \div 2)

VariableBlock ==
    /\ InClass(128, 191)
    /\ PayloadReadable
    /\ Emit(Turn, [kind |-> "variable", samples |-> Resampled(Nibbles, BlockRate),
                   after |-> Payload(Nibbles, Turn.at + 2)],
            Turn.at + 2 + (Nibbles + 1) \div 2)

\* The reference mode repeats an inline payload, the spec mode the command that follows.
RepeatBlock ==
    /\ InClass(192, 255)
    /\ IF voice.mode = "reference"
       THEN /\ PayloadReadable
            /\ Emit(Turn, [kind |-> "repeat", after |-> Payload(Nibbles, Turn.at + 2),
                           samples |-> (((Op \div 8) % 8) + 1) * Resampled(Nibbles, 8000)],
                    Turn.at + 2 + (Nibbles + 1) \div 2)
       ELSE voice' = [Turn EXCEPT !.repeats = (Op % 8) + 1, !.loop = Turn.at + 1, !.at = Turn.at + 1]

\* A command or its payload beyond the window: false, with the blocks so far in the buffer.
RunsOut ==
    /\ voice.state = "running"
    /\ \/ ~Readable(Turn.at)
       \/ Op \in 64..127 /\ ~Readable(Turn.at + FixedNibbles \div 2)
       \/ Op \in 128..191 /\ ~PayloadReadable
       \/ Op \in 192..255 /\ voice.mode = "reference" /\ ~PayloadReadable
    /\ voice' = [voice EXCEPT !.state = "failed"]

DecodeDone == voice.state \in {"played", "failed"} /\ UNCHANGED voice

VoiceNext == \/ EndMarker \/ Silence \/ FixedBlock \/ VariableBlock \/ RepeatBlock \/ RunsOut \/ DecodeDone

VoiceSpec == VoiceInit /\ [][VoiceNext]_voiceVars
-----------------------------------------------------------------------------
\* The decode has its type: no index leaves the step table.
VoiceTypeOK ==
    voice \in [mode : {"reference", "spec"}, bank : DOMAIN Rom, phrase : Phrases, bytes : Seq(0..255),
               at : Nat, adpcm : Adpcm, repeats : 0..8, loop : Nat, blocks : Seq(Block),
               state : {"running", "played", "failed"}]

SizeOf(op, operand) ==
    IF op < 64 THEN 1
    ELSE IF op < 128 THEN 1 + FixedNibbles \div 2
    ELSE 2 + (operand + 2) \div 2

\* Where the command after the one at p begins; the end marker and the end of the window
\* have none after them.
NextStart(bytes, p) ==
    IF p > Len(bytes) \/ bytes[p] = 0 THEN p
    ELSE p + SizeOf(bytes[p], IF p < Len(bytes) THEN bytes[p + 1] ELSE 0)

\* The position of the n-th command of a message, read in a line.
CommandStart(bytes, n) ==
    LET start[k \in 0..n] == IF k = 0 THEN 2 ELSE NextStart(bytes, start[k - 1])
    IN start[n]

CommandStarts(bytes) == {CommandStart(bytes, n) : n \in 0..Len(bytes)}

\* In the mode in use every command the loop reads begins where the one before it ends; a
\* phrase that plays has one block for each of them; and a phrase number means one message,
\* in whichever banks it is asked for.
PhrasesReadInLine ==
    /\ voice.mode = "reference" =>
         /\ voice.bytes # <<>> /\ voice.state = "running" => voice.at \in CommandStarts(voice.bytes)
         /\ voice.state = "played" => Len(voice.blocks) = Cardinality({c \in CommandStarts(voice.bytes) : c < voice.at - 1})
    /\ \A p \in Phrases : \A b, c \in DOMAIN Rom : LookupIndex(b, p) # 0 /\ LookupIndex(c, p) # 0 => b = c
===============================================================================
