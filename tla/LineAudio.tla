------------------------------- MODULE LineAudio -------------------------------
(***************************************************************************)
(* The modem and the audio route: line events move the modem, the display  *)
(* refresh polls its carrier, and the route follows the carrier, the hook, *)
(* the voice prompts and the commands written to the external UART, with a *)
(* trace row for each change.  The line and the terminal firmware are      *)
(* external.                                                               *)
(***************************************************************************)
EXTENDS Naturals, Sequences, FiniteSetsExt

CONSTANTS
    EstablishedCalls,       \* the five CALL_ESTAB states
    MaxGain,                \* the highest receive level, 3 in the code
    ModemFixtures           \* line scripts: sequences of "bytes", line events and "bad" lines

\* The commands of the control byte that name no call.
RouteCommands == {"tx_mute", "tx_unmute", "rx_mute", "rx_unmute", "sidetone_on", "sidetone_off",
                  "gain_down", "gain_up", "gain_preset", "no_mux_state"}

ASSUME LineAudioAssumption ==
    /\ EstablishedCalls \cap ({"idle", "dialing"} \cup RouteCommands) = {}
    /\ EstablishedCalls # {}
    /\ MaxGain \in Nat

VARIABLES
    modem,      \* millennium_modem_model
    lastDcd,    \* m_last_modem_dcd
    route,      \* composite_state, m_voice_active and the strings of the last rows
    log         \* the route and the mutes a reader of the trace has seen last

lineVars == <<modem, lastDcd, route, log>>

LineEvents == {"carrier_lost", "ringing", "busy", "no_answer", "noisy_line", "connected", "dialing", "idle"}

ASSUME LineAudioFixtures == ModemFixtures \subseteq Seq(LineEvents \cup {"bytes", "bad"})

Calls == {"idle", "dialing"} \cup EstablishedCalls

Modem == [state : LineEvents, dcd : BOOLEAN, dtr : BOOLEAN, rts : BOOLEAN]

Mutes == [tx : BOOLEAN, rx : BOOLEAN]

Routes == {"off_hook_prompt", "idle", "dialing", "call_connected"}

Route == [call : Calls, mute : Mutes, sidetoneOff : BOOLEAN, hookOff : BOOLEAN, prompt : BOOLEAN,
          carrier : BOOLEAN, gain : 0..MaxGain, prevRoute : Routes, prevMute : Mutes]

Established(call) == call \in EstablishedCalls

RouteOf(r) == IF r.hookOff /\ r.prompt THEN "off_hook_prompt"
              ELSE IF Established(r.call) THEN "call_connected" ELSE r.call

Open == [tx |-> FALSE, rx |-> FALSE]

IdleRoute == [call |-> "idle", mute |-> Open, sidetoneOff |-> FALSE, hookOff |-> FALSE, prompt |-> FALSE,
              carrier |-> FALSE, gain |-> 0, prevRoute |-> "idle", prevMute |-> Open]

IdleModem(dtr) == [state |-> "idle", dcd |-> FALSE, dtr |-> dtr, rts |-> FALSE]

IdleLog == [route |-> "idle", mute |-> Open]

LineInit == /\ modem = IdleModem(FALSE)
            /\ lastDcd = FALSE
            /\ route = IdleRoute
            /\ log = IdleLog
-----------------------------------------------------------------------------
(* The trace: a row goes out if its string changed, and both strings are   *)
(* remembered.  A pair is the route state and the log.                     *)

Remembered(r) == [r EXCEPT !.prevRoute = RouteOf(r), !.prevMute = r.mute]

EmitRoute(p) == IF RouteOf(p[1]) = p[1].prevRoute THEN p
                ELSE <<Remembered(p[1]), [p[2] EXCEPT !.route = RouteOf(p[1])]>>

\* A slip: the row goes out and its string is not remembered.
EmitMuteForgets(p) == IF p[1].mute = p[1].prevMute THEN p
                      ELSE <<p[1], [p[2] EXCEPT !.mute = p[1].mute]>>

EmitMute(p) == IF p[1].mute = p[1].prevMute THEN p
               ELSE <<Remembered(p[1]), [p[2] EXCEPT !.mute = p[1].mute]>>

RouteEffects == RouteCommands \cup Calls

\* apply_effect; the highest preset stands for the four.
Effect(r, e) ==
    CASE e = "tx_mute" -> [r EXCEPT !.mute.tx = TRUE]
      [] e = "tx_unmute" -> [r EXCEPT !.mute.tx = FALSE]
      [] e = "rx_mute" -> [r EXCEPT !.mute.rx = TRUE]
      [] e = "rx_unmute" -> [r EXCEPT !.mute.rx = FALSE]
      [] e = "sidetone_on" -> [r EXCEPT !.sidetoneOff = TRUE]
      [] e = "sidetone_off" -> [r EXCEPT !.sidetoneOff = FALSE]
      [] e = "gain_down" -> [r EXCEPT !.gain = IF @ > 0 THEN @ - 1 ELSE @]
      [] e = "gain_up" -> [r EXCEPT !.gain = IF @ < MaxGain THEN @ + 1 ELSE @]
      [] e = "gain_preset" -> [r EXCEPT !.gain = MaxGain]
      [] e \in Calls -> [r EXCEPT !.call = e]
      [] OTHER -> r

Applied(p, e) == EmitRoute(EmitMute(<<Effect(p[1], e), p[2]>>))

\* A prompt that starts or ends in a call reopens the earpiece, muted or not.
Conditioned(p, voice) ==
    Applied(Applied(Applied(p, "rx_mute"), IF voice THEN "sidetone_off" ELSE "sidetone_on"), "rx_unmute")

RouteBecomes(p) == route' = p[1] /\ log' = p[2]
-----------------------------------------------------------------------------
\* inject_event: only the end of the carrier and the return to idle drop DCD.
AfterEvent(m, e) == [m EXCEPT !.state = e, !.dcd = IF e = "connected" THEN TRUE
                                                   ELSE @ /\ e \notin {"carrier_lost", "idle"}]

\* The stages of a call, which the first lines of bytes stand for.
CleanConnect == <<"dialing", "ringing", "connected">>

\* replay_fixture_text: the lines before a bad one stand, and the last event decides.
AfterReplay(m, lines) ==
    LET good == {k \in DOMAIN lines : \A j \in 1..k : lines[j] # "bad"}
        nth(k) == Cardinality({j \in 1..k : lines[j] = "bytes"})
        events == {k \in good : lines[k] # "bytes" \/ nth(k) <= 3}
        event(k) == IF lines[k] = "bytes" THEN CleanConnect[nth(k)] ELSE lines[k]
        turns == {k \in events : event(k) \in {"connected", "carrier_lost", "idle"}}
    IN [m EXCEPT !.state = IF events = {} THEN @ ELSE event(Max(events)),
                 !.dcd = IF turns = {} THEN @ ELSE event(Max(turns)) = "connected"]

LineEvent(e) ==
    /\ modem' = AfterEvent(modem, e)
    /\ UNCHANGED <<lastDcd, route, log>>

ReplayFixture(lines) ==
    /\ modem' = AfterReplay(modem, lines)
    /\ UNCHANGED <<lastDcd, route, log>>

SetDtr(v) ==
    /\ modem' = IF ~v /\ modem.state # "connected"
                THEN [modem EXCEPT !.dtr = FALSE, !.state = "idle", !.dcd = FALSE]
                ELSE [modem EXCEPT !.dtr = v]
    /\ UNCHANGED <<lastDcd, route, log>>

SetRts(v) ==
    /\ modem' = [modem EXCEPT !.rts = v]
    /\ UNCHANGED <<lastDcd, route, log>>

\* screen_update, once a frame: a change of carrier that is back by then goes unseen.
ScreenUpdate ==
    /\ lastDcd' = modem.dcd
    /\ IF modem.dcd # lastDcd
       THEN RouteBecomes(EmitRoute(<<[route EXCEPT
                                        !.carrier = modem.dcd,
                                        !.call = IF ~modem.dcd /\ Established(@) THEN "idle" ELSE @], log>>))
       ELSE UNCHANGED <<route, log>>
    /\ UNCHANGED modem

NotifyHook(off) ==
    /\ RouteBecomes(EmitRoute(<<[route EXCEPT !.hookOff = off], log>>))
    /\ UNCHANGED <<modem, lastDcd>>

NotifyVoice(active) ==
    LET told == EmitRoute(<<[route EXCEPT !.prompt = active], log>>)
    IN /\ RouteBecomes(IF active # route.prompt /\ route.carrier /\ Established(route.call)
                       THEN Conditioned(told, active) ELSE told)
       /\ UNCHANGED <<modem, lastDcd>>

\* host_to_processor_byte, for a byte that is a command; any other is only traced.
HostCommand(e) ==
    /\ RouteBecomes(Applied(<<route, log>>, e))
    /\ UNCHANGED <<modem, lastDcd>>

\* machine_reset with the resets of the devices; DTR is the one line that survives.
LineReset ==
    /\ modem' = IdleModem(modem.dtr)
    /\ lastDcd' = FALSE
    /\ route' = IdleRoute
    /\ log' = IdleLog

LineNext ==
    \/ \E e \in LineEvents : LineEvent(e)
    \/ \E lines \in ModemFixtures : ReplayFixture(lines)
    \/ \E v \in BOOLEAN : SetDtr(v) \/ SetRts(v)
    \/ ScreenUpdate
    \/ \E off \in BOOLEAN : NotifyHook(off)
    \/ \E active \in BOOLEAN : NotifyVoice(active)
    \/ \E e \in RouteEffects : HostCommand(e)
    \/ LineReset

LineSpec == LineInit /\ [][LineNext]_lineVars
-----------------------------------------------------------------------------
\* The modem and the route have their types.
LineTypeOK ==
    /\ modem \in Modem
    /\ lastDcd \in BOOLEAN
    /\ route \in Route
    /\ log \in [route : Routes, mute : Mutes]

\* The rows of the trace, the strings the next row starts from and the state never part, and
\* the route holds the carrier as last polled.
RouteTold ==
    /\ log = [route |-> RouteOf(route), mute |-> route.mute]
    /\ route.prevRoute = log.route /\ route.prevMute = log.mute
    /\ route.carrier = lastDcd
===============================================================================
