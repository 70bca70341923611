----------------------------- MODULE KeypadScan -----------------------------
(***************************************************************************)
(* The keypad matrix behind the 8255: the strobe latch on port B, the row   *)
(* lines on port A, and the counters that decide when the firmware is taken  *)
(* to be scanning.                                                          *)
(*                                                                          *)
(* The matrix is Lines x Lines.  Port B has a low and a high bank of        *)
(* strobes, each the set of the lines driven (active low); the high bank    *)
(* wins.  The firmware reads through the device, which passes an empty      *)
(* matrix: keys reach the CP by the telephony processor.  The model's own   *)
(* tests read it with keys held, which is the action KeypadModelRead.       *)
(***************************************************************************)
EXTENDS Naturals, FiniteSets

CONSTANTS
  Lines,          \* the rows, and the columns, of the matrix
  ScanReads,      \* port A reads before a scan can be reported
  ScanDeltas,     \* strobe changes before a scan can be reported
  MaxScanReads    \* bound: port A reads counted

ASSUME KeypadAssumption ==
  /\ Lines \subseteq Nat /\ IsFiniteSet(Lines) /\ Lines # {}
  /\ ScanReads \in Nat \ {0} /\ ScanDeltas \in Nat \ {0}
  /\ MaxScanReads \in Nat

VARIABLE keypad
keypadVars == <<keypad>>

Strobes == [low : SUBSET Lines, high : SUBSET Lines]
NoStrobe == [low |-> {}, high |-> {}]
Keys == Lines \X Lines          \* row, column

KeypadTypeOK ==
  keypad \in [strobe : Strobes, lastStrobe : Strobes, reads : 0..MaxScanReads,
              deltas : 0..MaxScanReads, scanPending : BOOLEAN, scanSeen : BOOLEAN,
              held : SUBSET Keys, rows : SUBSET Lines]

KeypadReset ==
  [strobe |-> NoStrobe, lastStrobe |-> NoStrobe, reads |-> 0, deltas |-> 0,
   scanPending |-> FALSE, scanSeen |-> FALSE, held |-> {}, rows |-> {}]

KeypadInit == keypad = KeypadReset

(* The columns port A answers for: the lowest strobe of the high bank, else *)
(* of the low bank, else all of them.                                       *)
LowestLine(s) == CHOOSE c \in s : \A d \in s : c <= d
ActiveColumns(b) ==
  IF b.high # {} THEN {LowestLine(b.high)}
  ELSE IF b.low # {} THEN {LowestLine(b.low)}
  ELSE Lines

(* The row lines pulled low. *)
RowLines(b, keys) == {r \in Lines : \E c \in ActiveColumns(b) : <<r, c>> \in keys}

(* Every read of port A is counted, whoever makes it. *)
ObserveScan(k) ==
  LET moved  == k.strobe # k.lastStrobe
      deltas == IF moved THEN k.deltas + 1 ELSE k.deltas
      due    == /\ ~k.scanSeen
                /\ k.reads + 1 >= ScanReads
                /\ deltas >= ScanDeltas
  IN [k EXCEPT !.reads = @ + 1, !.lastStrobe = k.strobe, !.deltas = deltas,
               !.scanPending = @ \/ due, !.scanSeen = @ \/ due]

KeypadReadRows(keys) ==
  /\ keypad.reads < MaxScanReads
  /\ keypad' = [ObserveScan(keypad) EXCEPT
                  !.held = keys, !.rows = RowLines(keypad.strobe, keys)]

(* The firmware's read of port A: the matrix reads empty. *)
KeypadPioRead == KeypadReadRows({})

(* The same read with keys held, as the model's tests make it. *)
KeypadModelRead == \E keys \in SUBSET Keys : keys # {} /\ Cardinality(keys) <= 2
                                             /\ KeypadReadRows(keys)

(* Port B drives the strobes; the rows are sampled only by the next read. *)
KeypadStrobe == \E b \in Strobes : keypad' = [keypad EXCEPT !.strobe = b,
                                                            !.held = {}, !.rows = {}]

KeypadConsumeScan == /\ keypad.scanPending
                     /\ keypad' = [keypad EXCEPT !.scanPending = FALSE]

KeypadDeviceReset == keypad' = KeypadReset

KeypadNext == \/ KeypadPioRead \/ KeypadModelRead \/ KeypadStrobe
              \/ KeypadConsumeScan \/ KeypadDeviceReset

KeypadSpec == KeypadInit /\ [][KeypadNext]_keypadVars

(* The bank of strobes in use. *)
ActiveBank == IF keypad.strobe.high # {} THEN keypad.strobe.high ELSE keypad.strobe.low

(***************************************************************************)
(* A row line that is low has a held key in it, and a strobe of one column  *)
(* misses no key of that column, whatever was read or driven before; and a  *)
(* scan is reported once per reset, never before the firmware has moved     *)
(* the strobe often enough.  Names what read_port_a and observe_scan do.    *)
(***************************************************************************)
RowsSound ==
  /\ \A r \in keypad.rows : \E c \in Lines : <<r, c>> \in keypad.held
  /\ \A key \in keypad.held :
        ActiveBank = {key[2]} => key[1] \in keypad.rows
  /\ keypad.scanPending => keypad.scanSeen /\ keypad.deltas >= ScanDeltas
=============================================================================
