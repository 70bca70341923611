------------------------------ MODULE NvramImage ------------------------------
(***************************************************************************)
(* The battery-backed regions and the two forms they are kept in: the blob   *)
(* MAME's machinery saves when a session ends, and the JSON envelope a       *)
(* session without a blob starts from.  nvBlob and nvEnvelope are on disk.    *)
(***************************************************************************)
EXTENDS Naturals, Sequences, FiniteSetsExt, SequencesExt

CONSTANTS
  NvramSize, TableSize, DlaSize,   \* octets of the regions in the board profile
  Octets,                          \* bound: the octets written, and
  WriteAt                          \* where in the NVRAM (octet 1 is at offset 0)

ASSUME NvramAssumption ==
  /\ NvramSize \in Nat \ {0} /\ TableSize \in Nat \ {0} /\ DlaSize \in Nat \ {0}
  /\ Octets \subseteq 0..255 /\ WriteAt \subseteq 1..NvramSize

VARIABLES nv, nvBlob, nvEnvelope
nvVars == <<nv, nvBlob, nvEnvelope>>

ZeroOctets(n) == [i \in 1..n |-> 0]
Regions == [nvram : Seq(0..255), table : Seq(0..255), dla : Seq(0..255)]
NoFile == [nvram |-> <<>>, table |-> <<>>, dla |-> <<>>]
Sum8(octets) == LET sum[i \in 0..Len(octets)] == IF i = 0 THEN 0 ELSE sum[i - 1] + octets[i]
                IN sum[Len(octets)] % 256

NvramTypeOK ==
  /\ nv \in [regions : Regions, mismatch : BOOLEAN, summed : BOOLEAN, sum : 0..255,
             start : {"none", "blob", "envelope", "foreign", "default", "refused"}]
  /\ nvBlob \in Regions
  /\ nvEnvelope \in [octets : Seq(0..255), sum : 0..255, present : BOOLEAN]

(* configure: the regions of the profile, cleared. *)
Cleared(start) ==
  [regions |-> [nvram |-> ZeroOctets(NvramSize), table |-> ZeroOctets(TableSize),
                dla |-> ZeroOctets(DlaSize)],
   mismatch |-> FALSE, summed |-> FALSE, sum |-> 0, start |-> start]

NvramInit == /\ nv = Cleared("none") /\ nvBlob = NoFile
             /\ nvEnvelope = [octets |-> <<>>, sum |-> 0, present |-> FALSE]

Summed(n) == [n EXCEPT !.summed = TRUE, !.sum = Sum8(n.regions.nvram)]

(* The validity words at the offsets 0, 30 and 40: 0xA5C4, 0x1F2E, 0x5A3B.  *)
SentinelAt == {1, 2, 31, 32, 41, 42}
Sentinel(i) == CASE i = 1 -> 196 [] i = 2 -> 165 [] i = 31 -> 46
                 [] i = 32 -> 31 [] i = 41 -> 59 [] i = 42 -> 90
                 [] OTHER -> 0
HoldsSentinels(octets) == Len(octets) >= 42 /\ \A i \in SentinelAt : octets[i] = Sentinel(i)
Seeded(n) == [i \in 1..n |-> IF n >= 42 THEN Sentinel(i) ELSE 0]

(* recover_default_cleared: zeros but for the validity words, where they fit. *)
Recovered(n) == Summed([n EXCEPT !.regions.nvram = Seeded(Len(@)), !.mismatch = FALSE])

NvramWrite ==
  /\ nv.start # "none"
  /\ \E i \in WriteAt, v \in Octets :
        /\ i <= Len(nv.regions.nvram)           \* else refused, and logged
        /\ nv' = Summed([nv EXCEPT !.regions.nvram[i] = v])
  /\ UNCHANGED <<nvBlob, nvEnvelope>>

TableWrite ==
  /\ nv.start # "none"
  /\ \E v \in Octets :
        \/ /\ nv.regions.table # <<>>
           /\ nv' = [nv EXCEPT !.regions.table[1] = v]
        \/ /\ nv.regions.dla # <<>>
           /\ nv' = [nv EXCEPT !.regions.dla[1] = v]
  /\ UNCHANGED <<nvBlob, nvEnvelope>>

(* The end of a session writes the blob; a crash does not. *)
SessionEnds ==
  /\ nv.start # "none"
  /\ \/ nvBlob' = nv.regions
     \/ UNCHANGED nvBlob
  /\ nv' = Cleared("none")
  /\ UNCHANGED nvEnvelope

(* A session starts from the blob.  One of another profile is refused after  *)
(* it has been taken; one without the validity words keeps its table and DLA *)
(* regions, and its NVRAM gives way to the defaults.                         *)
Fits(regions) == /\ Len(regions.nvram) = NvramSize /\ Len(regions.table) = TableSize
                 /\ Len(regions.dla) = DlaSize
StartFromBlob ==
  /\ nv.start = "none" /\ nvBlob # NoFile
  /\ LET taken == [Cleared("blob") EXCEPT !.regions = nvBlob]
     IN nv' = IF ~Fits(nvBlob) THEN [Cleared("refused") EXCEPT !.regions = nvBlob]
              ELSE IF HoldsSentinels(nvBlob.nvram) THEN Summed(taken)
              ELSE Recovered(taken)
  /\ UNCHANGED <<nvBlob, nvEnvelope>>

(* A file that is no blob is refused before anything is taken from it, and   *)
(* one saved under another profile after.                                   *)
StartFromOtherBlob ==
  /\ nv.start = "none"
  /\ \/ nv' = Cleared("refused")
     \/ nv' = [Cleared("refused") EXCEPT !.regions.nvram = ZeroOctets(NvramSize - 1)]
  /\ UNCHANGED <<nvBlob, nvEnvelope>>

(* The envelope takes whole groups of three octets back: base64_decode drops *)
(* the group that the encoder padded, and the region is filled up with 0.    *)
Unpacked(octets) == [i \in 1..Len(octets) |->
                       IF i <= 3 * (Len(octets) \div 3) THEN octets[i] ELSE 0]

SaveEnvelope ==
  /\ nv.start # "none" /\ Len(nv.regions.nvram) = NvramSize
  /\ nvEnvelope' = [octets |-> nv.regions.nvram, sum |-> Sum8(nv.regions.nvram),
                    present |-> TRUE]
  /\ UNCHANGED <<nv, nvBlob>>

StartFromEnvelope ==
  /\ nv.start = "none" /\ nvEnvelope.present
  /\ LET octets == Unpacked(nvEnvelope.octets)
     IN nv' = [Cleared("envelope") EXCEPT
                 !.regions.nvram = octets,
                 !.mismatch = Sum8(octets) # nvEnvelope.sum]
  /\ UNCHANGED <<nvBlob, nvEnvelope>>

(* An envelope from elsewhere: refused for its header, before anything is    *)
(* taken; for a character that is not base64, which leaves no NVRAM at all;  *)
(* or for its checksum field or algorithm, with its octets taken.  Otherwise *)
(* it is accepted, and a sum that does not match (there may be none to match)*)
(* is only noted.                                                            *)
StartFromOtherEnvelope ==
  /\ nv.start = "none"
  /\ \/ nv' = Cleared("refused")
     \/ nv' = [Cleared("refused") EXCEPT !.regions.nvram = <<>>]
     \/ \E octets \in {ZeroOctets(NvramSize), Seeded(NvramSize)} :   \* bound: its contents
           \/ nv' = [Cleared("refused") EXCEPT !.regions.nvram = octets]
           \/ \E mismatch \in BOOLEAN :
                nv' = [Cleared("foreign") EXCEPT !.regions.nvram = octets, !.mismatch = mismatch]
  /\ UNCHANGED <<nvBlob, nvEnvelope>>

(* An envelope with no data, or no envelope, starts from the defaults.       *)
StartFromDefault ==
  /\ nv.start = "none"
  /\ nv' = Recovered(Cleared("default"))
  /\ UNCHANGED <<nvBlob, nvEnvelope>>

NvramNext ==
  \/ NvramWrite \/ TableWrite \/ SessionEnds \/ StartFromBlob \/ StartFromOtherBlob
  \/ SaveEnvelope \/ StartFromEnvelope \/ StartFromOtherEnvelope
  \/ StartFromDefault

NvramSpec == NvramInit /\ [][NvramNext]_nvVars

(***************************************************************************)
(* Whatever sessions wrote, lost or started from, the checksum kept beside   *)
(* the NVRAM is that of its contents, and a session that accepted its image  *)
(* has regions of the size the profile gives.                               *)
(***************************************************************************)
SumHonest ==
  /\ nv.summed => nv.sum = Sum8(nv.regions.nvram)
  /\ nv.start \in {"blob", "envelope", "foreign", "default"} => Fits(nv.regions)

(***************************************************************************)
(* A session that starts from a saved envelope finds no checksum mismatch:   *)
(* specs/nvram-storage-device.spec.md takes a saved image back to "loaded".  *)
(***************************************************************************)
EnvelopeReloads == nv.start = "envelope" => ~nv.mismatch
=============================================================================
