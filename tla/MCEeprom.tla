------------------------------- MODULE MCEeprom -------------------------------
(***************************************************************************)
(* Eeprom with two address bits and two data bits: word 00 holds a         *)
(* validity mark, 01 is an ordinary word, 10 lies beyond a small NVRAM.    *)
(***************************************************************************)
EXTENDS Eeprom

Mark == <<1, 0>>
Other == <<0, 1>>

MCEwenAddrs == {<<1, 1>>}
MCBacked == {<<0, 0>>, <<0, 1>>}
MCMarks == [a \in {<<0, 0>>} |-> Mark]

\* Every opcode; words that tell the bit order; the mark can be erased and rewritten.
MCCommands ==
    {[op |-> "read", addr |-> a, data |-> Zeros] : a \in MCBacked}
        \cup {[op |-> "write", addr |-> a, data |-> w] : a \in MCBacked \cup {<<1, 0>>}, w \in {Mark}}
        \cup {[op |-> "write", addr |-> <<0, 1>>, data |-> Other],
              [op |-> "erase", addr |-> <<0, 0>>, data |-> Zeros],
              [op |-> "enable", addr |-> <<1, 1>>, data |-> Zeros],
              [op |-> "other", addr |-> <<0, 1>>, data |-> Zeros]}
===============================================================================
