------------------------------ MODULE Supervision ------------------------------
(***************************************************************************)
(* Disconnect supervision (millennium_supervision_fsm.cpp): line status    *)
(* codes, the modem's carrier and the timing windows become at most one    *)
(* disconnect event, which only a reset makes possible again.  The codes,  *)
(* the carrier polled once a frame and the watchdog come from outside.     *)
(***************************************************************************)
EXTENDS Naturals, Sequences

CONSTANTS
    WinkTicks, DeferTicks, CutoffTicks,     \* timing_windows; 0 switches a window off
    MaxHeard,                               \* bound: codes heard since the last reset
    MaxTicks                                \* bound: ticks of the timer counted

ASSUME SupervisionAssumption ==
    /\ WinkTicks \in Nat /\ DeferTicks \in Nat /\ CutoffTicks \in Nat
    /\ MaxHeard \in Nat /\ MaxTicks \in Nat

VARIABLES
    fsm,        \* the machine
    heard,      \* history: the profile's codes and the rises and falls of carrier since the reset
    emitted     \* history: the events emitted since the reset, status codes passed on left out

supervisionVars == <<fsm, heard, emitted>>

\* 0x66, 0x64, 0x68, 0x6a; "status" stands for the six other codes of the profile.
LineCodes == {"connection", "interruption", "reversal0", "reversal1", "status"}

Disconnects == {"normal_disconnect", "cpc", "timeout"}

Fsm == [carrier : BOOLEAN, connected : BOOLEAN, interrupted : BOOLEAN, rev0 : BOOLEAN, gone : BOOLEAN,
        armed : BOOLEAN, ticks : Nat, wink : BOOLEAN, defer : BOOLEAN]

FsmReset == [carrier |-> FALSE, connected |-> FALSE, interrupted |-> FALSE, rev0 |-> FALSE, gone |-> FALSE,
             armed |-> FALSE, ticks |-> 0, wink |-> FALSE, defer |-> FALSE]

SupervisionInit == fsm = FsmReset /\ heard = <<>> /\ emitted = <<>>

\* The disconnect events of one call, m_disconnect_emitted once one has gone out.
Disconnect(kind, when) == IF when /\ ~fsm.gone THEN <<kind>> ELSE <<>>
-----------------------------------------------------------------------------
\* A slip: an interruption counts before any connection.
StepStatusUnconnected(code) ==
    LET cpc == code = "reversal1" /\ fsm.rev0
    IN /\ Len(heard) < MaxHeard
       /\ fsm' = [fsm EXCEPT !.connected = @ \/ code = "connection",
                             !.interrupted = @ \/ code = "interruption",
                             !.rev0 = code = "reversal0" \/ (@ /\ code # "reversal1"),
                             !.gone = @ \/ cpc]
       /\ heard' = Append(heard, code)
       /\ emitted' = emitted \o Disconnect("cpc", cpc)

StepStatus(code) ==
    LET cpc == code = "reversal1" /\ fsm.rev0
    IN /\ Len(heard) < MaxHeard
       /\ fsm' = [fsm EXCEPT !.connected = @ \/ code = "connection",
                             !.interrupted = @ \/ (code = "interruption" /\ fsm.connected),
                             !.rev0 = code = "reversal0" \/ (@ /\ code # "reversal1"),
                             !.gone = @ \/ cpc]
       /\ heard' = Append(heard, code)
       /\ emitted' = emitted \o Disconnect("cpc", cpc)

StepCarrier(up) ==
    LET normal == ~up /\ fsm.carrier /\ fsm.connected /\ fsm.interrupted
    IN /\ up # fsm.carrier => Len(heard) < MaxHeard
       /\ fsm' = [fsm EXCEPT !.carrier = up, !.gone = @ \/ normal]
       /\ heard' = IF up = fsm.carrier THEN heard ELSE Append(heard, IF up THEN "carrier" ELSE "carrier_lost")
       /\ emitted' = emitted \o Disconnect("normal_disconnect", normal)

\* The timeout event goes out at every firing, the disconnect with the first.
StepWatchdog ==
    /\ fsm' = [fsm EXCEPT !.gone = TRUE]
    /\ emitted' = emitted \o Disconnect("timeout", TRUE)
    /\ UNCHANGED heard

ArmTimer ==
    /\ fsm' = [fsm EXCEPT !.armed = TRUE, !.ticks = 0, !.wink = FALSE, !.defer = FALSE]
    /\ UNCHANGED <<heard, emitted>>

\* step_clock_tick: a timer that finds the disconnect already gone stays armed.
TimerTick ==
    LET n == fsm.ticks + 1
        wink == WinkTicks # 0 /\ ~fsm.wink /\ n >= WinkTicks
        defer == DeferTicks # 0 /\ ~fsm.defer /\ n >= DeferTicks
        cutoff == CutoffTicks # 0 /\ n >= CutoffTicks /\ ~fsm.gone
    IN /\ fsm.armed
       /\ fsm.ticks < MaxTicks
       /\ fsm' = [fsm EXCEPT !.ticks = n, !.wink = @ \/ wink, !.defer = @ \/ defer,
                             !.gone = @ \/ cutoff, !.armed = ~cutoff]
       /\ emitted' = emitted \o Disconnect("timeout", cutoff)
       /\ UNCHANGED heard

SupervisionReset == fsm' = FsmReset /\ heard' = <<>> /\ emitted' = <<>>

SupervisionNext ==
    \/ \E code \in LineCodes : StepStatus(code)
    \/ \E up \in BOOLEAN : StepCarrier(up)
    \/ StepWatchdog
    \/ ArmTimer
    \/ TimerTick
    \/ SupervisionReset

SupervisionSpec == SupervisionInit /\ [][SupervisionNext]_supervisionVars
-----------------------------------------------------------------------------
\* The machine and its histories have their types.
SupervisionTypeOK ==
    /\ fsm \in Fsm
    /\ heard \in Seq(LineCodes \cup {"carrier", "carrier_lost"})
    /\ emitted \in Seq(Disconnects)

\* heard holds a, and later b.
Then(a, b) == \E i, j \in DOMAIN heard : i < j /\ heard[i] = a /\ heard[j] = b

\* Between two resets the machine tells of one disconnect at most.  A reversal disconnect
\* takes a second reversal after a first, a normal one a connection, then an interruption,
\* and carrier that came and went; and a call whose cutoff ran out is never left standing.
DisconnectEarned ==
    /\ Len(emitted) <= 1
    /\ fsm.gone <=> emitted # <<>>
    /\ emitted = <<"cpc">> => Then("reversal0", "reversal1")
    /\ emitted = <<"normal_disconnect">> =>
         Then("connection", "interruption") /\ Then("carrier", "carrier_lost")
    /\ fsm.armed /\ CutoffTicks # 0 /\ fsm.ticks >= CutoffTicks => emitted # <<>>
===============================================================================
