------------------------------- MODULE Voiceware -------------------------------
(***************************************************************************)
(* The voice device (millennium_voiceware.cpp), its two ways to play a     *)
(* phrase, the two ways the firmware strobes one (port 0x61 and bit 7 of   *)
(* PIO port B) and the completion interrupt the driver polls for.  The     *)
(* uPD7759 is external: a chip that is busy until its phrase ends.  What a *)
(* phrase decodes to is VoiceDecode's; here it is a number of pieces.      *)
(***************************************************************************)
EXTENDS Naturals

CONSTANTS
    Banks,      \* bound: ROM banks the firmware latches, 0 among them
    PhraseSet,  \* bound: phrase octets
    Pieces,     \* decode_phrase: the pieces of sound of a phrase in a bank, 0 for no such message
    Broken      \* the phrases whose message runs out of its window, in each bank

ASSUME VoicewareAssumption ==
    /\ 0 \in Banks /\ Banks \subseteq 0..15
    /\ 0 \in PhraseSet /\ PhraseSet \subseteq 0..254
    /\ Pieces \in [Banks -> [PhraseSet -> Nat]]
    /\ Broken \in [Banks -> SUBSET PhraseSet]

VARIABLES
    policy,     \* the environment's choices: core, retrigger, fallback
    vw,         \* the device
    chipBusy,   \* external: the uPD7759 is shifting a phrase out
    routeVoice, \* the audio route's voice-active flag
    intp,       \* the driver's: m_voicew_prev_upd_idle, m_voicew_int0_asserted and the PIO-B strobe
    refused     \* history: a phrase without a message was strobed since the last start

voicewareVars == <<policy, vw, chipBusy, routeVoice, intp, refused>>

\* m_last_chip_bank and m_voice_pb_last_phrase while there is none.
NoBank == 255

Device == [reset : BOOLEAN, latched : BOOLEAN, bank : Banks, chipBank : Banks \cup {NoBank},
           phrase : PhraseSet, pcm : Nat, playing : BOOLEAN, had : BOOLEAN]

DeviceReset == [reset |-> FALSE, latched |-> FALSE, bank |-> 0, chipBank |-> NoBank,
                phrase |-> 0, pcm |-> 0, playing |-> FALSE, had |-> FALSE]

\* strobe is bit 7 of the last octet for port B, last the phrase it strobed; ready is the cooldown.
Driver == [prevIdle : BOOLEAN, int0 : BOOLEAN, wasActive : BOOLEAN, marks : SUBSET {"M5V", "M5A", "M5C"},
           strobe : BOOLEAN, last : PhraseSet \cup {NoBank}, ready : BOOLEAN]

\* machine_reset; m_voice_pb_prev starts as 0xff.
DriverReset == [prevIdle |-> TRUE, int0 |-> FALSE, wasActive |-> FALSE, marks |-> {},
                strobe |-> TRUE, last |-> NoBank, ready |-> TRUE]

VoicewareInit ==
    /\ policy \in [core : BOOLEAN, allow : BOOLEAN, fallback : BOOLEAN]
    /\ vw = DeviceReset
    /\ chipBusy = FALSE
    /\ routeVoice = FALSE
    /\ intp = DriverReset
    /\ refused = FALSE

\* playing(), after the stream is brought up to date.
Playing(d, busy) == IF policy.core THEN ~d.reset /\ busy ELSE d.playing
-----------------------------------------------------------------------------
\* apply_rom_bank_from_latch: a change of bank resets the chip.
BankApplied(d) == [d EXCEPT !.chipBank = d.bank]
BusyAfterBank(d, busy) == busy /\ d.chipBank = d.bank

WriteBank(b) ==
    LET d == [vw EXCEPT !.bank = b, !.latched = TRUE]
    IN /\ vw' = IF vw.reset THEN d ELSE BankApplied(d)
       /\ chipBusy' = IF vw.reset THEN chipBusy ELSE BusyAfterBank(d, chipBusy)

\* write_hw_control, behind the driver's voice pieces of hw_cntl_w: the device takes bit 3 set
\* for reset, the driver takes bit 3 clear for it and drops the interrupt then.
HwControl(bit3) ==
    /\ vw' = IF bit3
             THEN [vw EXCEPT !.reset = TRUE, !.latched = FALSE, !.chipBank = NoBank, !.playing = FALSE, !.pcm = 0]
             ELSE IF vw.reset /\ vw.latched THEN BankApplied([vw EXCEPT !.reset = FALSE])
             ELSE [vw EXCEPT !.reset = FALSE]
    /\ chipBusy' = IF bit3 THEN FALSE
                   ELSE IF vw.reset /\ vw.latched THEN BusyAfterBank(vw, chipBusy) ELSE chipBusy
    /\ routeVoice' = IF bit3 THEN FALSE ELSE routeVoice
    /\ intp' = IF bit3 THEN intp ELSE [intp EXCEPT !.int0 = FALSE]
    /\ UNCHANGED <<policy, refused>>

\* decode_phrase leaves a broken message's pieces in the buffer, and a missing one the old phrase's.
Decodes(d, p) == Pieces[d.bank][p] > 0 /\ p \notin Broken[d.bank]
BufferAfter(d, p) == IF Pieces[d.bank][p] = 0 THEN d.pcm ELSE Pieces[d.bank][p]

SoftwareStart(d, p, busy) ==
    /\ vw' = [d EXCEPT !.phrase = p, !.playing = Decodes(d, p), !.pcm = BufferAfter(d, p)]
    /\ chipBusy' = busy
    /\ routeVoice' = Decodes(d, p)
    /\ refused' = ~Decodes(d, p)

\* The chip's path: port_w and the start strobe; a failed lookup stops nothing.
ChipStart(d, p, busy) ==
    IF Pieces[d.bank][p] > 0
    THEN /\ vw' = [d EXCEPT !.phrase = p, !.playing = FALSE, !.pcm = 0]
         /\ chipBusy' = TRUE
         /\ routeVoice' = TRUE
         /\ refused' = FALSE
    ELSE IF policy.fallback THEN SoftwareStart(d, p, busy)
    ELSE /\ vw' = [d EXCEPT !.phrase = p, !.playing = FALSE, !.pcm = 0]
         /\ chipBusy' = busy
         /\ routeVoice' = FALSE
         /\ refused' = TRUE

WritePhrase(p, bankBefore) ==
    LET d == BankApplied(IF bankBefore.latched THEN bankBefore ELSE [bankBefore EXCEPT !.bank = 0, !.latched = TRUE])
        busy == BusyAfterBank([d EXCEPT !.chipBank = bankBefore.chipBank], chipBusy)
    IN IF vw.reset
       THEN vw' = [bankBefore EXCEPT !.phrase = p] /\ UNCHANGED <<chipBusy, routeVoice, refused>>
       ELSE IF ~policy.allow /\ Playing(d, busy) /\ p = vw.phrase
       THEN vw' = d /\ chipBusy' = busy /\ routeVoice' = TRUE /\ refused' = FALSE
       ELSE IF policy.core THEN ChipStart(d, p, busy) ELSE SoftwareStart(d, p, busy)

\* A slip: the interrupt of the phrase before stays asserted.
PhraseWriteKeepsInt0(p) ==
    /\ intp' = [intp EXCEPT !.marks = @ \cup {"M5V", "M5A"}]
    /\ WritePhrase(p, vw)
    /\ UNCHANGED policy

\* voiceware_phrase_w: a write to port 0x61.
PhraseWrite(p) ==
    /\ intp' = [intp EXCEPT !.int0 = FALSE, !.marks = @ \cup {"M5V", "M5A"}]
    /\ WritePhrase(p, vw)
    /\ UNCHANGED policy

\* pio_keypad_w: with the EEPROM selected an octet for port B is only its clock.
PortBSelected(bit7) ==
    /\ intp' = [intp EXCEPT !.strobe = bit7]
    /\ UNCHANGED <<policy, vw, chipBusy, routeVoice, refused>>

\* Otherwise it latches a bank, and a falling bit 7 strobes the phrase of its low bits unless
\* it is the last one or comes too soon; 0x3f may repeat, here any phrase.
PortBLatch(b, bit7) ==
    /\ intp.strobe /\ ~bit7 /\ intp.ready => intp.last # NoBank
    /\ WriteBank(b)
    /\ intp' = [intp EXCEPT !.strobe = bit7]
    /\ UNCHANGED <<policy, routeVoice, refused>>

PortBStrobe(b, p) ==
    /\ intp.strobe /\ intp.ready
    /\ intp' = [intp EXCEPT !.strobe = FALSE, !.last = p, !.ready = FALSE,
                            !.int0 = FALSE, !.marks = @ \cup {"M5V", "M5A"}]
    /\ WritePhrase(p, [vw EXCEPT !.bank = b, !.latched = TRUE])
    /\ UNCHANGED policy

\* voiceware_phrase_r: the octet read is the fault, idle or busy level.
PhraseRead ==
    LET idle == IF policy.core THEN vw.reset \/ ~chipBusy ELSE ~vw.playing
        active == Playing(vw, chipBusy)
    IN /\ vw' = [vw EXCEPT !.had = ~idle]
       /\ routeVoice' = IF vw.had /\ idle THEN FALSE ELSE routeVoice
       /\ intp' = [intp EXCEPT !.wasActive = active,
                               !.marks = IF intp.wasActive /\ ~active THEN @ \cup {"M5C"} ELSE @]
       /\ UNCHANGED <<policy, chipBusy, refused>>

\* sound_stream_update: the buffer is played whatever m_decoder_playing says.
StreamUpdate ==
    /\ ~policy.core
    /\ vw' = IF vw.pcm > 0 THEN [vw EXCEPT !.pcm = @ - 1] ELSE [vw EXCEPT !.playing = FALSE]
    /\ UNCHANGED <<policy, chipBusy, routeVoice, intp, refused>>

\* The chip reaches the end of its phrase.
ChipEnds ==
    /\ chipBusy
    /\ chipBusy' = FALSE
    /\ UNCHANGED <<policy, vw, routeVoice, intp, refused>>

\* poll_voice_segment_done_pulse_int0 asserts on a change from playing to idle.
PollInt0 ==
    LET idle == ~Playing(vw, chipBusy)
        done == ~intp.prevIdle /\ idle /\ ~intp.int0
    IN /\ intp' = [intp EXCEPT !.prevIdle = idle, !.int0 = @ \/ done,
                               !.marks = IF done THEN @ \cup {"M5C"} ELSE @]
       /\ UNCHANGED <<policy, vw, chipBusy, routeVoice, refused>>

\* The cooldown of 20000 cycles since the last strobe of port B passes.
CooldownPasses ==
    /\ intp' = [intp EXCEPT !.ready = TRUE]
    /\ UNCHANGED <<policy, vw, chipBusy, routeVoice, refused>>

\* A machine reset, with the reset of the devices.
VoicewareReset ==
    /\ vw' = DeviceReset
    /\ chipBusy' = FALSE
    /\ routeVoice' = FALSE
    /\ intp' = DriverReset
    /\ refused' = FALSE
    /\ UNCHANGED policy

VoicewareNext ==
    \/ \E bit \in BOOLEAN : HwControl(bit) \/ PortBSelected(bit)
    \/ \E p \in PhraseSet : PhraseWrite(p)
    \/ \E b \in Banks, bit7 \in BOOLEAN : PortBLatch(b, bit7)
    \/ \E b \in Banks, p \in PhraseSet : PortBStrobe(b, p)
    \/ PhraseRead
    \/ StreamUpdate
    \/ ChipEnds
    \/ PollInt0
    \/ CooldownPasses
    \/ VoicewareReset

VoicewareSpec == VoicewareInit /\ [][VoicewareNext]_voicewareVars
-----------------------------------------------------------------------------
\* The device, the driver's part and the history have their types.
VoicewareTypeOK ==
    /\ policy \in [core : BOOLEAN, allow : BOOLEAN, fallback : BOOLEAN]
    /\ vw \in Device
    /\ chipBusy \in BOOLEAN /\ routeVoice \in BOOLEAN
    /\ intp \in Driver
    /\ refused \in BOOLEAN

\* A completion interrupt that stands means that nothing plays; and while a phrase plays the
\* route knows of it, unless a later phrase was refused over it.
VoiceInStep ==
    /\ intp.int0 => ~Playing(vw, chipBusy)
    /\ Playing(vw, chipBusy) => routeVoice \/ refused
===============================================================================
