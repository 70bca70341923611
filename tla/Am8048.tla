------------------------------- MODULE Am8048 -------------------------------
(***************************************************************************)
(* The 8048 core that runs the telephony program.  The program is not        *)
(* modelled here: each step is any instruction whose control effect          *)
(* differs, at any address.  What is kept is what the core adds around the   *)
(* program: interrupt entry, the wrapping return stack, the bank flag that   *)
(* rides on it, the timer's request, and the idle and stop modes; and, by    *)
(* themselves at the end, the adder and the decimal adjust.                  *)
(*                                                                          *)
(* coreFrames is a history: the returns the program is owed, in order, with  *)
(* the bank each must find.  coreSpoiled counts the oldest of them that a    *)
(* deeper call has overwritten.                                              *)
(***************************************************************************)
EXTENDS Naturals, FiniteSets, SequencesExt

CONSTANTS
  ProgramSize,   \* addresses of the program memory (4096)
  Labels,        \* bound: the addresses the program jumps to
  StackDepth,    \* entries of the return stack (8)
  MaxFrames8048, \* bound: returns owed at once
  MaxExecuted,   \* bound: instructions run
  StopOnStopTcnt \* the environment variable that makes STOP TCNT stop the core

ASSUME CoreAssumption ==
  /\ ProgramSize \in Nat /\ ProgramSize > 7
  /\ Labels \subseteq 0..(ProgramSize - 1)
  /\ StackDepth \in Nat \ {0}
  /\ MaxFrames8048 \in Nat /\ MaxExecuted \in Nat /\ StopOnStopTcnt \in BOOLEAN

VARIABLES core, coreFrames, coreSpoiled, coreExecuted
coreVars == <<core, coreFrames, coreSpoiled, coreExecuted>>

ExternalVector == 3
TimerVector == 7
Addresses == 0..(ProgramSize - 1)
Return == [pc : Addresses, bank : BOOLEAN]
Owed == [pc : Addresses, bank : BOOLEAN, irq : BOOLEAN]

CoreTypeOK ==
  /\ core \in [pc : Addresses, bank : BOOLEAN, sp : 0..(StackDepth - 1),
               stack : [0..(StackDepth - 1) -> Return],
               inIrq : BOOLEAN, extEnabled : BOOLEAN, timerEnabled : BOOLEAN,
               timerDue : BOOLEAN, timerOn : BOOLEAN, idle : BOOLEAN,
               stopped : BOOLEAN, ext : BOOLEAN]
  /\ coreFrames \in Seq(Owed) /\ Len(coreFrames) <= MaxFrames8048
  /\ coreSpoiled \in 0..Len(coreFrames)
  /\ coreExecuted \in 0..MaxExecuted

CoreReset ==
  [pc |-> 0, bank |-> FALSE, sp |-> 0,
   stack |-> [i \in 0..(StackDepth - 1) |-> [pc |-> 0, bank |-> FALSE]],
   inIrq |-> FALSE, extEnabled |-> FALSE, timerEnabled |-> FALSE,
   timerDue |-> FALSE, timerOn |-> FALSE, idle |-> FALSE, stopped |-> FALSE,
   ext |-> FALSE]

CoreInit == /\ core = CoreReset
            /\ coreFrames = <<>> /\ coreSpoiled = 0 /\ coreExecuted = 0

Push(c) == [c EXCEPT !.stack[c.sp] = [pc |-> c.pc, bank |-> c.bank],
                     !.sp = (c.sp + 1) % StackDepth]

(* A slip: the bank is left with the routine that used it. *)
PopPcOnly(c, whole) ==
  LET sp == (c.sp + StackDepth - 1) % StackDepth
  IN [c EXCEPT !.sp = sp, !.pc = c.stack[sp].pc]

(* RETR brings the bank back, RET leaves the one in use. *)
Pop(c, whole) ==
  LET sp  == (c.sp + StackDepth - 1) % StackDepth
      top == c.stack[sp]
  IN [c EXCEPT !.sp = sp, !.pc = top.pc, !.bank = IF whole THEN top.bank ELSE @]

(* The interrupt taken before this instruction, if any: the level of the     *)
(* external line goes before the timer, and a disabled timer forgets.        *)
Settled(c) == [c EXCEPT !.timerDue = @ /\ c.timerEnabled]
ExternalTaken(c) == ~c.inIrq /\ c.extEnabled /\ c.ext
TimerTaken(c) == ~c.inIrq /\ ~ExternalTaken(c) /\ c.timerEnabled /\ c.timerDue
Taken(c) == ExternalTaken(c) \/ TimerTaken(c)
Entered(c) ==
  IF ~Taken(c) THEN c
  ELSE [Push(c) EXCEPT !.pc = IF ExternalTaken(c) THEN ExternalVector ELSE TimerVector,
                       !.timerDue = @ /\ ExternalTaken(c),
                       !.inIrq = TRUE, !.idle = FALSE, !.stopped = FALSE]

(* A running timer, or counter of T1 edges, may overflow in any instruction. *)
Cycled(c) == {c} \cup IF c.timerOn THEN {[c EXCEPT !.timerDue = TRUE]} ELSE {}

Fetched(c, octets) == [c EXCEPT !.pc = (@ + octets) % ProgramSize]

(* What the entry of an interrupt adds to the returns owed. *)
FramesAfterEntry(c) ==
  IF Taken(c) THEN Append(coreFrames, [pc |-> c.pc, bank |-> c.bank, irq |-> TRUE])
              ELSE coreFrames
OwedNow == FramesAfterEntry(Settled(core))

(* The deepest the stack has been in this step overwrites its oldest ends.   *)
Larger(a, b) == IF a > b THEN a ELSE b
Overwritten(left) ==
  LET deepest == Larger(Len(left), Len(OwedNow))
      spoiled == IF deepest > StackDepth THEN Larger(coreSpoiled, deepest - StackDepth)
                                         ELSE coreSpoiled
  IN IF spoiled > Len(left) THEN Len(left) ELSE spoiled

(* Runs one instruction: c is the core with the interrupt entered, owed the  *)
(* returns then due; d and left are what the instruction makes of them.      *)
Executes(d, left) ==
  /\ core' \in Cycled(d)
  /\ Len(left) <= MaxFrames8048
  /\ coreFrames' = left
  /\ coreSpoiled' = Overwritten(left)
  /\ coreExecuted < MaxExecuted /\ coreExecuted' = coreExecuted + 1

Awake == LET c == Entered(Settled(core)) IN ~c.idle /\ ~c.stopped
Now == Entered(Settled(core))

(* Instructions whose only effect on control is to go on. *)
CoreGo == Awake /\ Executes(Fetched(Now, 1), OwedNow)

(* Those that jump, always or on a condition. *)
CoreJump ==
  /\ Awake
  /\ \E target \in Labels : Executes([Fetched(Now, 2) EXCEPT !.pc = target], OwedNow)

CoreFlag ==
  /\ Awake
  /\ LET c == Fetched(Now, 1) IN
     \E d \in {[c EXCEPT !.extEnabled = TRUE], [c EXCEPT !.extEnabled = FALSE],
               [c EXCEPT !.timerEnabled = TRUE], [c EXCEPT !.timerEnabled = FALSE],
               [c EXCEPT !.bank = TRUE], [c EXCEPT !.bank = FALSE],
               [c EXCEPT !.timerOn = TRUE],
               [c EXCEPT !.timerOn = FALSE, !.stopped = StopOnStopTcnt],
               [c EXCEPT !.idle = TRUE]} :
        Executes(d, OwedNow)

(* CALL is pushed after its operand is fetched. *)
CoreCall ==
  /\ Awake
  /\ LET c == Fetched(Now, 2)
         frame == [pc |-> c.pc, bank |-> c.bank, irq |-> FALSE]
     IN \E target \in Labels :
           Executes([Push(c) EXCEPT !.pc = target], Append(OwedNow, frame))

(* Routines return the way they were entered: the program ends an interrupt  *)
(* routine with RETR and a subroutine with RET.                              *)
CoreReturn ==
  /\ Awake /\ OwedNow # <<>> /\ ~Last(OwedNow).irq
  /\ Executes(Pop(Now, FALSE), Front(OwedNow))
CoreReturnFromIrq ==
  /\ Awake /\ OwedNow # <<>> /\ Last(OwedNow).irq
  /\ Executes([Pop(Now, TRUE) EXCEPT !.inIrq = FALSE], Front(OwedNow))

CoreSleep ==
  /\ ~Awake
  /\ core' \in IF Now.stopped THEN {Now} ELSE Cycled(Now)
  /\ UNCHANGED <<coreFrames, coreSpoiled, coreExecuted>>

(* The external interrupt line, moved by the telephony wrapper. *)
CoreWire == /\ core' = [core EXCEPT !.ext = ~@]
             /\ UNCHANGED <<coreFrames, coreSpoiled, coreExecuted>>

CoreRestart == /\ core' = CoreReset
               /\ coreFrames' = <<>> /\ coreSpoiled' = 0 /\ coreExecuted' = 0

CoreNext == \/ CoreGo \/ CoreJump \/ CoreFlag \/ CoreCall \/ CoreReturn \/ CoreReturnFromIrq
            \/ CoreSleep \/ CoreWire \/ CoreRestart

CoreSpec == CoreInit /\ [][CoreNext]_coreVars

(***************************************************************************)
(* Interrupts do not nest, and every routine that a deeper call has not      *)
(* overwritten returns to where it was called or interrupted; an interrupted *)
(* routine finds its register bank again.  Names push_state, pop_state and   *)
(* the interrupt entry of execute_one.                                       *)
(***************************************************************************)
ReturnsKept ==
  /\ core.inIrq <=> \E i \in DOMAIN coreFrames : coreFrames[i].irq
  /\ Cardinality({i \in DOMAIN coreFrames : coreFrames[i].irq}) <= 1
  /\ \A i \in (coreSpoiled + 1)..Len(coreFrames) :
        LET slot == core.stack[(core.sp + (StackDepth * MaxFrames8048)
                                 - (Len(coreFrames) - i + 1)) % StackDepth]
        IN slot = [pc |-> coreFrames[i].pc, bank |-> coreFrames[i].bank]

(***************************************************************************)
(* The processor, whose stack pointer wraps, implements returns to any       *)
(* depth: whatever calls, interrupts and returns follow each other, also an  *)
(* interrupt that ends in the step it comes in, a routine ends where it was  *)
(* left and the end of an interrupt brings back the bank, and a return is    *)
(* lost only to StackDepth newer ones.  Names execute_one.                   *)
(***************************************************************************)
Routines == INSTANCE ReturnStack
             WITH Size <- ProgramSize, Depth <- StackDepth,
                  Vectors <- {ExternalVector, TimerVector},
                  pc <- core.pc, bank <- core.bank, owed <- coreFrames, lost <- coreSpoiled

ReturnsSpec == Routines!Spec
-----------------------------------------------------------------------------
(***************************************************************************)
(* The adder with its two carries, and the decimal adjust.  The add with     *)
(* carry forms argument plus carry first, in eight bits, and takes the       *)
(* nibble carry from that: with an argument ending in F and the carry set    *)
(* the nibble carry is lost.  No decimal argument ends in F.                 *)
(***************************************************************************)
CONSTANT Decimals      \* bound: the two-digit decimal octets added
ASSUME DecimalAssumption ==
  \A v \in Decimals : v \in 0..255 /\ v % 16 <= 9 /\ v \div 16 <= 9

VARIABLE alu
aluVars == <<alu>>

AluTypeOK == alu \in [a : 0..255, carry : BOOLEAN, half : BOOLEAN, due : 0..199,
                      adjusted : BOOLEAN]

OfBit(b) == IF b THEN 1 ELSE 0
DecimalValue(v) == (10 * (v \div 16)) + (v % 16)

AluInit == \E v \in Decimals, c \in BOOLEAN :
             alu = [a |-> v, carry |-> c, half |-> FALSE,
                    due |-> DecimalValue(v) + (100 * OfBit(c)), adjusted |-> TRUE]

Bit3(n) == (n \div 8) % 2 = 1

(* The nibble carry as the code works it out: of bit 3 of both terms and of  *)
(* the sum.                                                                 *)
HalfCarry(a, b, sum) == \/ Bit3(a) /\ Bit3(b)
                        \/ Bit3(a) /\ ~Bit3(sum)
                        \/ Bit3(b) /\ ~Bit3(sum)

Added(v, c) ==
  LET sum == alu.a + v + OfBit(c)
  IN [alu EXCEPT !.a = sum % 256, !.carry = sum > 255,
                 !.half = HalfCarry(alu.a, (v + OfBit(c)) % 256, sum),
                 !.due = DecimalValue(alu.a) + DecimalValue(v) + OfBit(c),
                 !.adjusted = FALSE]

AluAdd  == alu.adjusted /\ \E v \in Decimals : alu' = Added(v, FALSE)
AluAddc == alu.adjusted /\ \E v \in Decimals : alu' = Added(v, alu.carry)

Adjusted ==
  LET low    == alu.a % 16
      high   == alu.a \div 16
      sixes  == alu.half \/ low > 9
      tens   == alu.carry \/ high > 9 \/ (low > 9 /\ high = 9)
      adjust == (IF sixes THEN 6 ELSE 0) + (IF tens THEN 96 ELSE 0)
  IN [alu EXCEPT !.a = (@ + adjust) % 256, !.carry = @ \/ tens, !.adjusted = TRUE]

AluDecimalAdjust == ~alu.adjusted /\ alu' = Adjusted

AluNext == AluAdd \/ AluAddc \/ AluDecimalAdjust
AluSpec == AluInit /\ [][AluNext]_aluVars

(***************************************************************************)
(* An add, with or without carry, and the decimal adjust after it leave the  *)
(* decimal sum of the two numbers in A and the carry, although the nibble    *)
(* carry is worked out from argument and carry together.                     *)
(***************************************************************************)
DecimalExact ==
  alu.adjusted => DecimalValue(alu.a) + (100 * OfBit(alu.carry)) = alu.due
=============================================================================
