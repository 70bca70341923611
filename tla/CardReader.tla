------------------------------ MODULE CardReader ------------------------------
(***************************************************************************)
(* The magnetic card reader (millennium_card_model.cpp): a swipe shows the *)
(* track's bits one after the other, timed by the CPU's cycle count, with  *)
(* no latch and no strobe.  The patron, the card file and the terminal     *)
(* firmware, which samples each bit cell once, are external.               *)
(***************************************************************************)
EXTENDS Naturals, Sequences, FiniteSets

CONSTANTS
    TrackBodies,        \* payload_body of the card files
    LrcErrors,          \* values of force_lrc_error among the card files
    CellTicks,          \* ticks per bit at the bit rates of the card files
    DefaultCell,        \* and at the default rate
    SensorFaults        \* combinations of stuck path sensors

\* A character is its eight bits, b0 first.
Char == [0..7 -> {0, 1}]

Ascii(n) == [b \in 0..7 |-> (n \div 2^b) % 2]

ASSUME CardReaderAssumption ==
    /\ TrackBodies \subseteq Seq(Char)
    /\ TrackBodies # {}
    /\ LrcErrors \subseteq BOOLEAN
    /\ LrcErrors # {}
    /\ CellTicks \subseteq Nat \ {0}
    /\ CellTicks # {}
    /\ DefaultCell \in Nat \ {0}
    /\ SensorFaults \subseteq SUBSET {"cp", "cfs"}

VARIABLES
    reader,     \* the model: fixture, bits, swipe
    head        \* external: what the firmware sampled of the present swipe

cardVars == <<reader, head>>

Reader == [track : Seq(Char), forced : BOOLEAN,     \* payload with its LRC; force_lrc_error
           cell : Nat \ {0},                        \* cycles_per_bit
           bits : Seq({0, 1}), lrcOk : BOOLEAN,
           armed : BOOLEAN, age : Nat,              \* cycles since m_swipe_start_cycle
           stuck : SUBSET {"cp", "cfs"}]

\* whole: one sample per cell so far, of one card, at one speed.
HeadSamples == [got : Seq({0, 1}), whole : BOOLEAN]
-----------------------------------------------------------------------------
Lrc(body) == [b \in 0..7 |-> Cardinality({i \in DOMAIN body : body[i][b] = 1}) % 2]

\* XOR with 0x5a.
Spoilt(c) == [b \in 0..7 |-> IF b \in {1, 3, 4, 6} THEN 1 - c[b] ELSE c[b]]

TrackXorOk(track) == Lrc(track) = [b \in 0..7 |-> 0]

BitsOf(track) == [k \in 1..(8 * Len(track)) |-> track[((k - 1) \div 8) + 1][(k - 1) % 8]]

Track(body, forced) == Append(body, IF forced THEN Spoilt(Lrc(body)) ELSE Lrc(body))

\* parse_fixture_json of a good file; what belongs to the swipe stays.
FixtureLoaded(r, body, forced, cell) ==
    [r EXCEPT !.track = Track(body, forced), !.forced = forced, !.cell = cell,
              !.bits = BitsOf(Track(body, forced)), !.lrcOk = TrackXorOk(Track(body, forced))]

BitIndex(r) == r.age \div r.cell

Showing(r) == r.armed /\ r.bits # <<>>

\* data_byte and card_data_r: with no swipe the line reads as a one.
DataBit(r) == IF Showing(r) /\ BitIndex(r) < Len(r.bits) THEN r.bits[BitIndex(r) + 1] ELSE 1

\* status_bits; "reading" stands for 0x02 and 0x04.
StatusBits(r) ==
    (IF r.track # <<>> THEN {"present"} ELSE {})
        \cup (IF r.lrcOk THEN {} ELSE {"lrc_error"})
        \cup (IF Showing(r) THEN {IF BitIndex(r) < Len(r.bits) THEN "reading" ELSE "done"} ELSE {})
        \cup r.stuck

\* decode_track2_ascii on a whole track; Found is string_view::find, from 1, 0 for npos.
Found(s, c) == LET at == {i \in DOMAIN s : s[i] = c}
               IN IF at = {} THEN 0 ELSE CHOOSE i \in at : \A j \in at : i <= j

Digits == {Ascii(n) : n \in 48..57}
Separator == Ascii(61)
StartSentinel == Ascii(59)
EndSentinel == Ascii(63)

DecodeTrack2(track, requireLrc, parityError) ==
    LET body == IF requireLrc /\ Len(track) > 1 THEN SubSeq(track, 1, Len(track) - 1) ELSE track
        start == Found(body, StartSentinel)
        end == Found(body, EndSentinel)
        payload == SubSeq(body, start + 1, end - 1)
        sep == Found(payload, Separator)
    IN IF track = <<>> THEN "missing_start_sentinel"
       ELSE IF requireLrc /\ ~TrackXorOk(track) THEN "lrc_failed"
       ELSE IF start = 0 THEN "missing_start_sentinel"
       ELSE IF end <= start THEN "missing_end_sentinel"
       ELSE IF payload = <<>> \/ sep = 1 THEN "empty_pan"
       ELSE IF \E i \in DOMAIN payload : payload[i] \notin Digits \cup {Separator} THEN "illegal_character"
       ELSE IF parityError THEN "parity_failed"
       ELSE "none"

\* The firmware's own assembly of the samples into characters.
CharsOf(bits) == [i \in 1..(Len(bits) \div 8) |-> [b \in 0..7 |-> bits[8 * (i - 1) + b + 1]]]
-----------------------------------------------------------------------------
NoSwipe == [got |-> <<>>, whole |-> FALSE]

CardInit ==
    /\ reader = [track |-> <<>>, forced |-> FALSE, cell |-> DefaultCell, bits |-> <<>>, lrcOk |-> FALSE,
                 armed |-> FALSE, age |-> 0, stuck |-> {}]
    /\ head = NoSwipe

\* poll_card_ui with a readable file: the fixture is replaced and the swipe starts at once.
SwipeCard(body, forced, cell) ==
    /\ reader' = [FixtureLoaded(reader, body, forced, cell) EXCEPT !.armed = TRUE, !.age = 0]
    /\ head' = [got |-> <<>>, whole |-> TRUE]

\* A file without payload_body, or with one and a bit rate of zero, which leaves no LRC behind
\* the body: the bits and the swipe go on, at the default rate.
BadTrackFile(track) ==
    /\ reader' = [reader EXCEPT !.track = track, !.forced = FALSE, !.cell = DefaultCell]
    /\ head' = NoSwipe

AbortSwipe ==
    /\ reader' = [reader EXCEPT !.armed = FALSE, !.age = 0]
    /\ head' = NoSwipe

SetPathSensors(stuck) ==
    /\ reader' = [reader EXCEPT !.stuck = stuck]
    /\ UNCHANGED head

SampledCell == Len(head.got) > BitIndex(reader)

ReadDataBit ==
    /\ head.whole
    /\ "reading" \in StatusBits(reader)
    /\ ~SampledCell
    /\ head' = [head EXCEPT !.got = Append(@, DataBit(reader))]
    /\ UNCHANGED reader

\* The clock; the firmware has sampled a cell before it ends.
CardTick ==
    /\ "reading" \in StatusBits(reader)
    /\ head.whole /\ reader.age % reader.cell = reader.cell - 1 => SampledCell
    /\ reader' = [reader EXCEPT !.age = @ + 1]
    /\ UNCHANGED head

CardNext ==
    \/ \E body \in TrackBodies, forced \in LrcErrors, cell \in CellTicks : SwipeCard(body, forced, cell)
    \/ \E track \in TrackBodies \cup {<<>>} : BadTrackFile(track)
    \/ AbortSwipe
    \/ \E stuck \in SensorFaults : SetPathSensors(stuck)
    \/ ReadDataBit
    \/ CardTick

CardSpec == CardInit /\ [][CardNext]_cardVars
-----------------------------------------------------------------------------
\* The reader has its type, and its bits and LRC flag are always those of one and the same track.
CardTypeOK ==
    /\ reader \in Reader
    /\ head \in HeadSamples
    /\ reader.lrcOk = (reader.bits # <<>> /\ TrackXorOk(CharsOf(reader.bits)))

\* A firmware that has sampled a whole swipe holds the card's track: what it decodes, and
\* whether the LRC holds, is what the card file says and what the status port tells.
SwipeReadWhole ==
    head.whole /\ "done" \in StatusBits(reader) =>
        LET track == CharsOf(head.got)
        IN /\ track = reader.track
           /\ TrackXorOk(track) <=> ~reader.forced
           /\ ("lrc_error" \in StatusBits(reader)) <=> DecodeTrack2(track, TRUE, FALSE) = "lrc_failed"
===============================================================================
