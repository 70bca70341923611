------------------------------- MODULE NccFrame -------------------------------
(***************************************************************************)
(* The framing of the NCC host protocol (millennium_modem_ncc.cpp), byte   *)
(* by byte: encode, the CRC-16 and the strict decoder, with a modem line   *)
(* that damages a frame on its way.  The line is external.                 *)
(***************************************************************************)
EXTENDS Octets, Sequences

CONSTANT Frames     \* the frames sent: records with control, termId, payload

Bytes8 == 0..255

ASSUME NccFrameAssumption ==
    Frames \subseteq [control : Bytes8, termId : [1..5 -> Bytes8], payload : Seq(Bytes8)]

VARIABLES
    sentFrame,  \* the frame given to encode
    wire,       \* its bytes on the line
    damaged     \* external: the line has done its worst

nccVars == <<sentFrame, wire, damaged>>

Stx == 2
Etx == 3
MaxPacket == 256
MaxPayload == 245
Overhead == 8       \* what count covers besides the payload: control, terminal id, CRC
-----------------------------------------------------------------------------
Xor(a, b) == XorByte(a % 256, b % 256) + 256 * XorByte(a \div 256, b \div 256)

\* A shift to the right, and 0xA001 if a one went out.
CrcShift(crc) == IF crc % 2 = 0 THEN crc \div 2 ELSE Xor(crc \div 2, 40961)

\* What eight shifts make of a low byte; the high byte only moves down.
CrcTable == [low \in Bytes8 |->
                LET shifted[k \in 0..8] == IF k = 0 THEN low ELSE CrcShift(shifted[k - 1])
                IN shifted[8]]

CrcStep(crc, byte) == Xor(crc \div 256, CrcTable[XorByte(crc % 256, byte)])

Crc(bytes) ==
    LET after[k \in 0..Len(bytes)] == IF k = 0 THEN 65535 ELSE CrcStep(after[k - 1], bytes[k])
    IN after[Len(bytes)]

\* Low byte first.
CrcBytes(bytes) == LET crc == Crc(bytes) IN <<crc % 256, crc \div 256>>

\* encode: an empty sequence stands for a refusal.
Encode(f) ==
    LET body == <<f.control, (Overhead + Len(f.payload)) % 256>> \o f.termId \o f.payload
    IN IF Len(f.payload) > MaxPayload THEN <<>>
       ELSE <<Stx>> \o body \o CrcBytes(body) \o <<Etx>>

\* The decoder's checks, in its order; "ok" accepts.
Verdict(w) ==
    IF Len(w) < Overhead + 3 THEN "frame too short"
    ELSE IF Len(w) > MaxPacket THEN "frame too large"
    ELSE IF w[1] # Stx THEN "missing STX"
    ELSE IF w[Len(w)] # Etx THEN "missing ETX"
    ELSE IF w[3] < Overhead THEN "invalid count"
    ELSE IF Len(w) # w[3] + 3 THEN "count mismatch"
    ELSE IF CrcBytes(SubSeq(w, 2, Len(w) - 3)) # SubSeq(w, Len(w) - 2, Len(w) - 1) THEN "crc mismatch"
    ELSE "ok"

FrameFields(w) == [control |-> w[2], termId |-> SubSeq(w, 4, 8), payload |-> SubSeq(w, 9, Len(w) - 3)]
-----------------------------------------------------------------------------
NccFrameInit == /\ sentFrame \in Frames
                /\ wire = Encode(sentFrame)
                /\ damaged = FALSE

Damage(w) == /\ ~damaged
             /\ wire # <<>>
             /\ wire' = w
             /\ damaged' = TRUE
             /\ UNCHANGED sentFrame

\* Noise within one byte.
Garble(at, byte) == Damage([wire EXCEPT ![at] = byte])

LoseByte(at) == Damage(SubSeq(wire, 1, at - 1) \o SubSeq(wire, at + 1, Len(wire)))

RepeatByte(at) == Damage(SubSeq(wire, 1, at) \o SubSeq(wire, at, Len(wire)))

CutOff(at) == Damage(SubSeq(wire, 1, at - 1))

\* The next frame is made and sent.
SendFrame == /\ \E f \in Frames : sentFrame' = f /\ wire' = Encode(f)
             /\ damaged' = FALSE

NccFrameNext ==
    \/ \E at \in 1..Len(wire) : \/ \E byte \in Bytes8 : Garble(at, byte)
                                \/ LoseByte(at)
                                \/ RepeatByte(at)
                                \/ CutOff(at)
    \/ SendFrame

NccFrameSpec == NccFrameInit /\ [][NccFrameNext]_nccVars
-----------------------------------------------------------------------------
\* The line carries bytes.
NccFrameTypeOK ==
    /\ sentFrame \in Frames
    /\ wire \in Seq(Bytes8)
    /\ damaged \in BOOLEAN

\* The decoder gives back every frame encode makes, and refuses one with a byte changed, a
\* byte lost or doubled, or its end cut off, unless the bytes are the same.
DecodeExact ==
    wire # <<>> =>
        /\ ~damaged => Verdict(wire) = "ok"
        /\ Verdict(wire) = "ok" => FrameFields(wire) = sentFrame
===============================================================================
