------------------------------ MODULE SerialLinks ------------------------------
(***************************************************************************)
(* The two links the CP clocks bit by bit: the bytes from the telephony    *)
(* processor and the Microwire EEPROM.  Each implements an abstract        *)
(* object, a pair of FIFOs and a store of words.  They share no state, so  *)
(* a behaviour exercises one of them, chosen at the start.                 *)
(***************************************************************************)
EXTENDS IpCommLink, MCEeprom

VARIABLE clocked    \* the link this behaviour exercises

serialVars == <<clocked, vars, eepromVars>>

SerialInit == /\ clocked \in {"ipcomm", "microwire"}
              /\ Init
              /\ EepromInit
              /\ clocked = "ipcomm" => host.cmd = CHOOSE c \in Commands : TRUE

SerialNext == \/ clocked = "ipcomm" /\ Next /\ UNCHANGED <<clocked, eepromVars>>
              \/ clocked = "microwire" /\ EepromNext /\ UNCHANGED <<clocked, vars>>

\* The CP firmware polls RTS and keeps clocking while it is up.
RtsServed == clocked = "ipcomm" /\ SclkRise /\ UNCHANGED <<clocked, eepromVars>>

SerialSpec == SerialInit /\ [][SerialNext]_serialVars /\ WF_serialVars(RtsServed)

\* Both links keep their types.
SerialTypeOK == TypeOK /\ EepromTypeOK
===============================================================================
