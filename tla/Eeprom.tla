-------------------------------- MODULE Eeprom --------------------------------
(***************************************************************************)
(* The board's serial EEPROM (millennium_microwire_93c66.cpp), bit by bit  *)
(* on the rising edges of SK, the NVRAM that mirrors it, and the image     *)
(* that outlives a session.  An address and a word are sequences of bits,  *)
(* most significant first.  The terminal firmware is external: a host      *)
(* that clocks out one command after the other, may drop chip select at    *)
(* any point, and samples DO before each edge of a read.                   *)
(***************************************************************************)
EXTENDS Naturals, Sequences

CONSTANTS
    AddrBits, DataBits,     \* 8 and 16 in the code
    EwenAddrs,              \* the address fields that make opcode 4 a write enable
    Backed,                 \* the words the configured NVRAM is large enough to mirror
    Marks,                  \* the validity words a saved image must hold
    Commands                \* the commands the host may issue

Bit == {0, 1}
Addr == [1..AddrBits -> Bit]
Word == [1..DataBits -> Bit]
Ones == [i \in 1..DataBits |-> 1]
Zeros == [i \in 1..DataBits |-> 0]

\* k_body_bits: two opcode bits, the address, one bit more; START comes before.
BodyBits == AddrBits + 3

\* Opcode 4 with any address that is not in EwenAddrs is "other".
Command == {c \in [op : {"read", "write", "erase", "enable", "other"}, addr : Addr, data : Word] :
                /\ c.op = "enable" => c.addr \in EwenAddrs
                /\ c.op = "other" => c.addr \notin EwenAddrs}

Image == [Backed -> Word]

ASSUME EepromAssumption ==
    /\ AddrBits \in Nat \ {0}
    /\ DataBits \in Nat \ {0}
    /\ EwenAddrs \subseteq Addr
    /\ Backed \subseteq Addr
    /\ DOMAIN Marks \subseteq Backed
    /\ Marks \in [DOMAIN Marks -> Word]
    /\ Commands \subseteq Command
    /\ Commands # {}

VARIABLES
    cs,         \* m_cs
    chip,       \* the decoder: phase, bits since START, address, counters
    enabled,    \* m_write_enabled
    mem,        \* m_mem, by word
    nvram,      \* the NVRAM bytes that mirror it, by word
    saved,      \* the image file of the last clean exit
    host        \* external: the command, the edges clocked of it, the samples of DO

eepromVars == <<cs, chip, enabled, mem, nvram, saved, host>>

Chip == [phase : {"idle", "wait_start", "command_stream", "read_word_out", "write_word_in"},
         sr : Seq(Bit), addr : Addr, readIdx : Nat, accum : Seq(Bit), commit : BOOLEAN, do : Bit]

\* The decoder at rest.  set_chip_select keeps the address, reset() clears it.
IdleChip(a) == [phase |-> "idle", sr |-> <<>>, addr |-> a, readIdx |-> 0,
                accum |-> <<>>, commit |-> FALSE, do |-> 1]

ResetChip == IdleChip([i \in 1..AddrBits |-> 0])

-------------------------------------------------------------------------------
\* The NVRAM image.

\* recover_default_cleared; the factory image is the same
Defaults == [a \in Backed |-> IF a \in DOMAIN Marks THEN Marks[a] ELSE Zeros]

\* nvram_read: an image without its validity words is replaced
Trusted(image) == IF \A a \in DOMAIN Marks : image[a] = Marks[a] THEN image ELSE Defaults

\* sync_microwire_from_nvram; read_nvram answers 0xff beyond its size
Contents(image) == [a \in Addr |-> IF a \in Backed THEN image[a] ELSE Ones]

-------------------------------------------------------------------------------
\* The host.

FrameLength(c) == 1 + BodyBits + (CASE c.op = "write" -> DataBits
                                    [] c.op = "read" -> DataBits + 1
                                    [] OTHER -> 0)

OpcodeBits(op) == CASE op = "read" -> <<1, 0>>
                    [] op = "write" -> <<0, 1>>
                    [] op = "erase" -> <<1, 1>>
                    [] OTHER -> <<0, 0>>

\* The level of DI at the i-th edge of a command.
FrameBit(c, i) == CASE i = 1 -> 1
                    [] i \in 2..3 -> OpcodeBits(c.op)[i - 1]
                    [] i \in 4..BodyBits -> c.addr[i - 3]
                    [] c.op = "write" /\ i > BodyBits + 1 -> c.data[i - BodyBits - 1]
                    [] OTHER -> 0

Busy == host.edges < FrameLength(host.cmd)
DI == FrameBit(host.cmd, host.edges + 1)
Sampling == host.cmd.op = "read" /\ host.edges > BodyBits

Sampled == IF Sampling THEN Append(host.got, chip.do) ELSE host.got
HostDone == [host EXCEPT !.edges = FrameLength(host.cmd), !.got = <<>>]

Begin == /\ cs /\ ~Busy
         /\ \E c \in Commands : host' = [cmd |-> c, edges |-> 0, got |-> <<>>]
         /\ UNCHANGED <<cs, chip, enabled, mem, nvram, saved>>

\* notify_port_b_clock, a rising edge while selected
Edge == /\ cs /\ Busy
        /\ host' = [host EXCEPT !.edges = @ + 1, !.got = Sampled]
        /\ UNCHANGED <<cs, saved>>

-------------------------------------------------------------------------------
\* The decoder, one action per case of notify_port_b_clock.

Keeps == UNCHANGED <<enabled, mem, nvram>>

StartBit == /\ chip.phase \in {"idle", "wait_start"}
            /\ Edge
            /\ chip' = IF DI = 1 THEN [chip EXCEPT !.phase = "command_stream", !.sr = <<>>]
                                 ELSE [chip EXCEPT !.phase = "wait_start"]
            /\ Keeps

\* The register is seeded with START and its last bit is dropped from the body: the
\* opcode is START and the first two bits after it, never less than 4.
ShiftedIn == Append(chip.sr, DI)
Opcode == 4 + 2 * ShiftedIn[1] + ShiftedIn[2]
AddrField == [i \in 1..AddrBits |-> ShiftedIn[i + 2]]
IsEwen == Opcode = 4 /\ AddrField \in EwenAddrs

CommandBit == /\ chip.phase = "command_stream"
              /\ Len(ShiftedIn) < BodyBits
              /\ Edge
              /\ chip' = [chip EXCEPT !.sr = ShiftedIn]
              /\ Keeps

CommandComplete == /\ chip.phase = "command_stream"
                   /\ Len(ShiftedIn) = BodyBits
                   /\ Edge

Decoded == [chip EXCEPT !.sr = ShiftedIn, !.addr = AddrField]

Ewen == /\ CommandComplete /\ IsEwen
        /\ enabled' = TRUE
        /\ chip' = [Decoded EXCEPT !.phase = "wait_start", !.do = 1]
        /\ UNCHANGED <<mem, nvram>>

BeginRead == /\ CommandComplete /\ Opcode = 6
             /\ chip' = [Decoded EXCEPT !.phase = "read_word_out", !.readIdx = 0, !.do = 1]
             /\ Keeps

\* Slips: data follows only an enabled write; EWEN is not asked for.
WriteOpcodeEnabledOnly ==
    IF enabled THEN [Decoded EXCEPT !.phase = "write_word_in", !.accum = <<>>, !.commit = TRUE]
               ELSE [Decoded EXCEPT !.phase = "wait_start"]
WriteOpcodeUngated == [Decoded EXCEPT !.phase = "write_word_in", !.accum = <<>>, !.commit = TRUE]

\* Whether the write will be committed is settled here; the data is shifted in anyway.
WriteOpcode == [Decoded EXCEPT !.phase = "write_word_in", !.accum = <<>>, !.commit = enabled]

BeginWrite == /\ CommandComplete /\ Opcode = 5
              /\ chip' = WriteOpcode
              /\ Keeps

\* The mirror callback: a write beyond the NVRAM's size is refused, and nobody asks.
Mirrored(a, w) == IF a \in Backed THEN [nvram EXCEPT ![a] = w] ELSE nvram

\* A slip: only writes are mirrored.
EraseWordUnmirrored == /\ CommandComplete /\ Opcode = 7 /\ enabled
                       /\ mem' = [mem EXCEPT ![AddrField] = Ones]
                       /\ chip' = [Decoded EXCEPT !.phase = "wait_start"]
                       /\ UNCHANGED <<enabled, nvram>>

EraseWord == /\ CommandComplete /\ Opcode = 7 /\ enabled
             /\ mem' = [mem EXCEPT ![AddrField] = Ones]
             /\ nvram' = Mirrored(AddrField, Ones)
             /\ chip' = [Decoded EXCEPT !.phase = "wait_start"]
             /\ UNCHANGED enabled

Ignored == /\ CommandComplete
           /\ \/ Opcode = 7 /\ ~enabled
              \/ Opcode = 4 /\ ~IsEwen
           /\ chip' = [Decoded EXCEPT !.phase = "wait_start", !.do = 1]
           /\ Keeps

\* The k-th edge puts the k-th bit on DO; one edge more ends the read.
ReadEdge ==
    /\ chip.phase = "read_word_out"
    /\ Edge
    /\ LET k == chip.readIdx + 1
       IN chip' = IF k = DataBits + 1
                  THEN [chip EXCEPT !.readIdx = k, !.phase = "wait_start", !.do = 1]
                  ELSE [chip EXCEPT !.readIdx = k, !.do = mem[chip.addr][k]]
    /\ Keeps

WriteBit == /\ chip.phase = "write_word_in"
            /\ Len(chip.accum) + 1 < DataBits
            /\ Edge
            /\ chip' = [chip EXCEPT !.accum = Append(@, DI)]
            /\ Keeps

AfterWrite == [chip EXCEPT !.phase = "wait_start", !.accum = <<>>, !.commit = FALSE]

WriteWord == /\ chip.phase = "write_word_in"
             /\ Len(chip.accum) + 1 = DataBits
             /\ Edge
             /\ LET w == Append(chip.accum, DI)
                IN IF chip.commit
                   THEN /\ mem' = [mem EXCEPT ![chip.addr] = w]
                        /\ nvram' = Mirrored(chip.addr, w)
                   ELSE UNCHANGED <<mem, nvram>>
             /\ chip' = AfterWrite
             /\ UNCHANGED enabled

-------------------------------------------------------------------------------
\* Chip select, resets and sessions.

SelectRise == /\ ~cs
              /\ cs' = TRUE
              /\ chip' = [IdleChip(chip.addr) EXCEPT !.phase = "wait_start"]
              /\ UNCHANGED <<enabled, mem, nvram, saved, host>>

\* The host may leave out the last edge of a read: the sample before it is the last.
SelectFall == /\ cs
              /\ cs' = FALSE
              /\ chip' = IdleChip(chip.addr)
              /\ host' = IF ~Busy THEN host
                         ELSE IF Sampling /\ host.edges + 1 = FrameLength(host.cmd)
                         THEN [HostDone EXCEPT !.got = Sampled]
                         ELSE HostDone
              /\ UNCHANGED <<enabled, mem, nvram, saved>>

\* sync_microwire_from_nvram; machine_reset leaves chip select low
Synced(image) == /\ cs' = FALSE
                 /\ chip' = ResetChip
                 /\ enabled' = FALSE
                 /\ mem' = Contents(image)
                 /\ host' = HostDone

MachineReset == /\ Synced(nvram)
                /\ UNCHANGED <<nvram, saved>>

\* A clean exit writes the image; a crash leaves the one before.  Then nvram_read.
NewSession == /\ saved' \in {nvram, saved}
              /\ nvram' = Trusted(saved')
              /\ Synced(nvram')

EepromInit == /\ saved = Defaults
              /\ nvram = Defaults
              /\ mem = Contents(Defaults)
              /\ cs = FALSE
              /\ chip = ResetChip
              /\ enabled = FALSE
              /\ \E c \in Commands : host = [cmd |-> c, edges |-> FrameLength(c), got |-> <<>>]

Clock == StartBit \/ CommandBit \/ Ewen \/ BeginRead \/ BeginWrite \/ EraseWord \/ Ignored
            \/ ReadEdge \/ WriteBit \/ WriteWord

EepromNext == Begin \/ Clock \/ SelectRise \/ SelectFall \/ MachineReset \/ NewSession

EepromSpec == EepromInit /\ [][EepromNext]_eepromVars

-------------------------------------------------------------------------------

\* Every register keeps its width, and the frame position its range.
EepromTypeOK ==
    /\ cs \in BOOLEAN
    /\ chip \in Chip
    /\ Len(chip.sr) <= BodyBits /\ chip.readIdx <= DataBits + 1 /\ Len(chip.accum) < DataBits
    /\ enabled \in BOOLEAN
    /\ mem \in [Addr -> Word]
    /\ nvram \in Image
    /\ saved \in Image
    /\ host \in [cmd : Command, edges : Nat, got : Seq(Bit)]
    /\ host.edges <= FrameLength(host.cmd)

\* The chip and the host agree where a command ends: a selected chip waits for START exactly
\* while the host is between commands, also after a write it refused.
InStep == cs => (chip.phase = "wait_start" <=> ~Busy \/ host.edges = 0)

\* The EEPROM never holds a word that the next reset would take back, except where the
\* NVRAM is too small: every path that writes m_mem runs the mirror callback.
MirrorAgrees == \A a \in Backed : mem[a] = nvram[a]

\* What the host makes of a completed read: its samples without the dummy bit.
Answer == IF ~Busy /\ Len(host.got) = DataBits + 1 THEN Tail(host.got) ELSE <<>>

Store == INSTANCE WordStore
             WITH Command <- Commands, Erased <- Ones, NoAnswer <- <<>>, Kept <- Backed,
                  Default <- Defaults,
                  cmd <- host.cmd, busy <- Busy, answer <- Answer

\* The bit-serial decoder with its NVRAM mirror implements a store of words: commands are
\* atomic however chip select, resets, exits and crashes cut them short, a refused
\* write changes nothing, a read returns the whole word, sessions start from the last
\* trusted image.
StoreSpec == Store!Spec

===============================================================================
