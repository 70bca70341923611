------------------------------ MODULE ReturnStack ------------------------------
(***************************************************************************)
(* What the telephony program may rely on from its processor: routines     *)
(* that end where they were called or interrupted, with the register bank  *)
(* of an interrupted one restored, to any depth, except that a return with *)
(* Depth newer ones above it may be lost.  An interrupt comes before any   *)
(* instruction, but never inside an interrupt.  There is no stack here:    *)
(* the returns owed are a sequence.                                        *)
(***************************************************************************)
EXTENDS Naturals, SequencesExt

CONSTANTS
    Size,       \* addresses of the program memory
    Depth,      \* returns that are never lost
    Vectors     \* where interrupts go

VARIABLES
    pc, bank,   \* where the program is, and the register bank it uses
    owed,       \* the returns owed, oldest first
    lost        \* how many of the oldest are lost

vars == <<pc, bank, owed, lost>>

Init == pc = 0 /\ bank = FALSE /\ owed = <<>> /\ lost = 0

Interruptible == \A i \in 1..Len(owed) : ~owed[i].irq

\* Where the next instruction is, and the returns owed then: there may be an interrupt first.
Starts == {[at |-> pc, owed |-> owed]} \cup
          {[at |-> v, owed |-> Append(owed, [pc |-> pc, bank |-> bank, irq |-> TRUE])] :
              v \in IF Interruptible THEN Vectors ELSE {}}

\* After the step the returns f are owed.  Those lost are among the oldest, and another is lost
\* only to Depth newer ones; deepest is the most that were owed on the way.
Owes(f, deepest) ==
    /\ owed' = f
    /\ lost' \in 0..Len(f)
    /\ lost' > lost => lost' + Depth <= deepest

\* An instruction of the routine the program is in, which may change banks.
Runs == \E s \in Starts :
    /\ Owes(s.owed, Len(s.owed))
    /\ pc' \in 0..(Size - 1) /\ bank' \in BOOLEAN

\* A call takes two addresses; its return is owed to the one behind them.
Calls == \E s \in Starts :
    /\ LET back == [pc |-> (s.at + 2) % Size, bank |-> bank, irq |-> FALSE]
       IN Owes(Append(s.owed, back), Len(s.owed) + 1)
    /\ pc' \in 0..(Size - 1) /\ bank' = bank

\* The newest return.  Only the end of an interrupt brings a bank back.
Returns == \E s \in Starts :
    /\ s.owed # <<>>
    /\ Owes(Front(s.owed), Len(s.owed))
    /\ pc' \in 0..(Size - 1) /\ bank' \in BOOLEAN
    /\ ~Last(s.owed).irq => bank' = bank
    /\ Len(s.owed) > lost => /\ pc' = Last(s.owed).pc
                             /\ Last(s.owed).irq => bank' = Last(s.owed).bank

Restarts == pc' = 0 /\ bank' = FALSE /\ owed' = <<>> /\ lost' = 0

Next == Runs \/ Calls \/ Returns \/ Restarts

Spec == Init /\ [][Next]_vars
===============================================================================
