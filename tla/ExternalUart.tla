----------------------------- MODULE ExternalUart -----------------------------
(***************************************************************************)
(* The external UART at ports 0xE0-0xE7 (millennium_state.cpp), a 16550    *)
(* loop-back: MCR drives the modem status lines.  Nothing ever fills its   *)
(* receive queue.  The terminal firmware is external.                      *)
(***************************************************************************)
EXTENDS Naturals

CONSTANT MaxWrites      \* bound: MCR writes counted between two reads of MSR

ASSUME ExternalUartAssumption == MaxWrites \in Nat \ {0}

VARIABLES
    uart,       \* the registers in use
    msrReader   \* external: the lines at the last read of MSR and the writes to MCR since

uartVars == <<uart, msrReader>>

ModemLines == {"cts", "dcd"}

\* m_ext_uart_shadow: LCR bit 7, IER bit 3, the lines and deltas of MSR, IIR as last computed.
Uart == [dlab : BOOLEAN, msiOn : BOOLEAN, lines : SUBSET ModemLines, delta : SUBSET ModemLines,
         iir : {"none", "modem_status"}]

MsrReader == [lines : SUBSET ModemLines, writes : 0..MaxWrites, forged : BOOLEAN]

\* MSR comes up 0xb0, both lines on, with MCR at zero.
UartInit ==
    /\ uart = [dlab |-> FALSE, msiOn |-> FALSE, lines |-> ModemLines, delta |-> {}, iir |-> "none"]
    /\ msrReader = [lines |-> ModemLines, writes |-> 0, forged |-> FALSE]

\* recompute_iir: no data is ever waiting.
Iir(u) == IF u.msiOn /\ u.delta # {} THEN "modem_status" ELSE "none"

Recomputed(u) == [u EXCEPT !.iir = Iir(u)]

Changed(a, b) == (a \ b) \cup (b \ a)
-----------------------------------------------------------------------------
\* A slip: IIR keeps what it said before the mask changed.
UartWriteIerStale(msi) ==
    /\ uart' = [uart EXCEPT !.msiOn = msi]
    /\ UNCHANGED msrReader

\* With DLAB set this is the divisor's high byte, and it lands in IER all the same.
UartWriteIer(msi) ==
    /\ uart' = Recomputed([uart EXCEPT !.msiOn = msi])
    /\ UNCHANGED msrReader

UartWriteLcr(dlab) ==
    /\ uart' = Recomputed([uart EXCEPT !.dlab = dlab])
    /\ UNCHANGED msrReader

\* DTR gives CTS and RTS gives DCD; the deltas of an earlier write are not kept.
UartWriteMcr(lines) ==
    /\ msrReader.writes < MaxWrites
    /\ uart' = Recomputed([uart EXCEPT !.lines = lines, !.delta = Changed(lines, uart.lines)])
    /\ msrReader' = [msrReader EXCEPT !.writes = @ + 1]

\* MSR is not read-only.
UartWriteMsr(lines, delta) ==
    /\ uart' = Recomputed([uart EXCEPT !.lines = lines, !.delta = delta])
    /\ msrReader' = [msrReader EXCEPT !.forged = TRUE]

\* A slip: the deltas outlive their reading.
UartReadMsrKeepsDelta ==
    /\ uart' = Recomputed(uart)
    /\ msrReader' = [lines |-> uart.lines, writes |-> 0, forged |-> FALSE]

UartReadMsr ==
    /\ uart' = Recomputed([uart EXCEPT !.delta = {}])
    /\ msrReader' = [lines |-> uart.lines, writes |-> 0, forged |-> FALSE]

\* THR, the divisor latch and the other reads leave all of this alone.
UartOther ==
    /\ uart' = Recomputed(uart)
    /\ UNCHANGED msrReader

UartReset ==
    /\ uart' = [dlab |-> FALSE, msiOn |-> FALSE, lines |-> ModemLines, delta |-> {}, iir |-> "none"]
    /\ msrReader' = [lines |-> ModemLines, writes |-> 0, forged |-> FALSE]

UartNext ==
    \/ \E v \in BOOLEAN : UartWriteIer(v) \/ UartWriteLcr(v)
    \/ \E lines \in SUBSET ModemLines : UartWriteMcr(lines)
    \/ \E lines, delta \in SUBSET ModemLines : UartWriteMsr(lines, delta)
    \/ UartReadMsr
    \/ UartOther
    \/ UartReset

UartSpec == UartInit /\ [][UartNext]_uartVars
-----------------------------------------------------------------------------
\* The registers have their types, and a pending modem status interrupt has a cause.
UartTypeOK ==
    /\ uart \in Uart
    /\ msrReader \in MsrReader
    /\ uart.iir = Iir(uart)

\* A firmware that reads MSR after every write of MCR misses no change: the deltas are then
\* exactly the lines that differ from what it read before, and the interrupt says so.
DeltaOfOneWrite ==
    msrReader.writes <= 1 /\ ~msrReader.forged =>
        /\ uart.delta = Changed(uart.lines, msrReader.lines)
        /\ uart.msiOn => (uart.iir = "modem_status" <=> uart.lines # msrReader.lines)
===============================================================================
