---------------------------- MODULE SecurityInputs ----------------------------
(***************************************************************************)
(* The lock, door, vault and service lines behind their debounce: the      *)
(* model sees the lines only when the firmware reads them.  The lines and  *)
(* the moments of the reads are external.                                  *)
(***************************************************************************)
EXTENDS Integers, Sequences

CONSTANTS
    SecurityLines,      \* the input lines
    DebounceCycles,     \* debounce_cycles of the board profile
    MaxSecurityReads    \* bound: reads of a behaviour

ASSUME SecurityAssumption == DebounceCycles \in Nat /\ MaxSecurityReads \in Nat

VARIABLES
    security,   \* millennium_security_model, with the cycles since m_last_change_cycle
    closed,     \* the lines that are closed
    samples     \* the lines of each read since the reset, and when it was made

securityVars == <<security, closed, samples>>

SecurityReset == [stable |-> {}, lastRaw |-> {}, since |-> DebounceCycles]

SecurityInit == /\ security = SecurityReset
                /\ closed = {}
                /\ samples = <<>>

\* read_lines
ReadLines(s, raw) ==
    LET seen == IF raw = s.lastRaw THEN s ELSE [s EXCEPT !.lastRaw = raw, !.since = 0]
    IN IF seen.since >= DebounceCycles THEN [seen EXCEPT !.stable = raw] ELSE seen

\* n cycles after the last read, or after the reset.
Later(n) == IF samples = <<>> THEN n ELSE samples[Len(samples)].at + n
Since(n) == IF security.since + n < DebounceCycles THEN security.since + n ELSE DebounceCycles

\* The firmware reads the port; beyond the debounce all gaps between reads are alike.
SecurityRead(n) ==
    /\ Len(samples) < MaxSecurityReads
    /\ security' = ReadLines([security EXCEPT !.since = Since(n)], closed)
    /\ samples' = Append(samples, [lines |-> closed, at |-> Later(n)])
    /\ UNCHANGED closed

LinesMove == /\ closed' \in SUBSET SecurityLines
             /\ UNCHANGED <<security, samples>>

SecurityDeviceReset == /\ security' = SecurityReset
                       /\ samples' = <<>>
                       /\ UNCHANGED closed

SecurityNext == \/ \E n \in 1..(DebounceCycles + 1) : SecurityRead(n)
                \/ LinesMove
                \/ SecurityDeviceReset

SecuritySpec == SecurityInit /\ [][SecurityNext]_securityVars
-------------------------------------------------------------------------------
\* The debounce, the lines and the reads have their types.
SecurityTypeOK ==
    /\ security \in [stable : SUBSET SecurityLines, lastRaw : SUBSET SecurityLines,
                     since : 0..DebounceCycles]
    /\ closed \subseteq SecurityLines
    /\ samples \in Seq([lines : SUBSET SecurityLines, at : Nat])

\* Reads i to j saw the same lines over at least the debounce.
Steady(i, j) ==
    /\ \A k \in i..j : samples[k].lines = samples[i].lines
    /\ samples[j].at - samples[i].at >= DebounceCycles

SteadyReads == {j \in DOMAIN samples : \E i \in 1..j : Steady(i, j)}

\* What is reported is what a stretch of reads last saw, without a change, for the whole
\* debounce; until there is one, open lines.  Names read_lines.
LinesSettled ==
    /\ SteadyReads = {} => security.stable = {}
    /\ \A j \in SteadyReads : (\A k \in SteadyReads : k <= j) => security.stable = samples[j].lines
===============================================================================
