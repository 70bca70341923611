------------------------------- MODULE WordStore -------------------------------
(***************************************************************************)
(* What the terminal firmware may rely on from the board's EEPROM: words   *)
(* that a command reads, writes or erases as a whole, or not at all if the *)
(* command is cut short; writes that take effect only once enabled; and    *)
(* contents that outlive resets and, up to the last clean exit, sessions.  *)
(***************************************************************************)
CONSTANTS
    Addr, Word, Command,    \* Command: records with fields op, addr, data
    Erased,                 \* the word an erase leaves
    NoAnswer,
    Kept,                   \* the words that outlive a reset; the others come back erased
    Marks,                  \* the words a saved image must hold to be trusted
    Default                 \* the words that replace an image without its marks

VARIABLES
    mem,        \* the words
    enabled,    \* writes take effect
    saved,      \* the kept words at the last clean exit
    cmd, busy,  \* the command begun last, and whether it is still under way
    answer      \* the word a completed read returned

vars == <<mem, enabled, saved, cmd, busy, answer>>

Restored(image) == [a \in Addr |-> IF a \in Kept THEN image[a] ELSE Erased]

Trusted(image) == \A a \in DOMAIN Marks : image[a] = Marks[a]

Init == /\ mem = Restored(Default)
        /\ enabled = FALSE
        /\ saved = Default
        /\ cmd \in Command
        /\ busy = FALSE
        /\ answer = NoAnswer

Begin(c) == /\ ~busy
            /\ cmd' = c
            /\ busy' = TRUE
            /\ answer' = NoAnswer
            /\ UNCHANGED <<mem, enabled, saved>>

\* The whole effect of the command, in one step.
Execute ==
    /\ busy
    /\ busy' = FALSE
    /\ mem' = CASE cmd.op = "write" /\ enabled -> [mem EXCEPT ![cmd.addr] = cmd.data]
                [] cmd.op = "erase" /\ enabled -> [mem EXCEPT ![cmd.addr] = Erased]
                [] OTHER -> mem
    /\ enabled' = (enabled \/ cmd.op = "enable")
    /\ answer' = IF cmd.op = "read" THEN mem[cmd.addr] ELSE NoAnswer
    /\ UNCHANGED <<saved, cmd>>

Abort == /\ busy
         /\ busy' = FALSE
         /\ UNCHANGED <<mem, enabled, saved, cmd, answer>>

Interrupted == /\ enabled' = FALSE
               /\ busy' = FALSE
               /\ answer' = NoAnswer
               /\ UNCHANGED cmd

Reset == /\ Interrupted
         /\ mem' = Restored(mem)
         /\ UNCHANGED saved

\* A session ends, cleanly or not, and the next one starts from what was saved.
NewSession == /\ Interrupted
              /\ saved' \in {saved, [a \in Kept |-> mem[a]]}
              /\ mem' = Restored(IF Trusted(saved') THEN saved' ELSE Default)

Next == (\E c \in Command : Begin(c)) \/ Execute \/ Abort \/ Reset \/ NewSession

Spec == Init /\ [][Next]_vars
===============================================================================
