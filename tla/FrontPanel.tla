------------------------------ MODULE FrontPanel ------------------------------
(***************************************************************************)
(* The two halves of tp_process_front_panel_events, keys and hook, behind  *)
(* one HOST_POLL.  They share no state but the CP they report to, so a     *)
(* behaviour exercises one of them, chosen at the start.                   *)
(***************************************************************************)
EXTENDS MCDialKeys, HookSwitch

VARIABLE half       \* the half this behaviour exercises

panelVars == <<half, vars, hookVars>>

PanelInit == /\ half \in {"keys", "hook"}
             /\ Init
             /\ HookInit
             /\ half = "keys" => ~offhook /\ line

KeysPolled == half = "keys" /\ HostPoll(FALSE) /\ UNCHANGED <<half, hookVars>>
HookPolled == half = "hook" /\ HookPoll /\ UNCHANGED <<half, vars>>

PanelNext == \/ half = "keys" /\ Next /\ UNCHANGED <<half, hookVars>>
             \/ half = "hook" /\ HookNext /\ UNCHANGED <<half, vars>>

\* HOST_POLL reschedules itself.
PanelSpec == PanelInit /\ [][PanelNext]_panelVars /\ WF_panelVars(KeysPolled) /\ WF_panelVars(HookPolled)

\* Both halves keep their types.
PanelTypeOK == TypeOK /\ HookTypeOK
===============================================================================
