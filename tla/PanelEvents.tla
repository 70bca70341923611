----------------------------- MODULE PanelEvents -----------------------------
(***************************************************************************)
(* What the ten-millisecond poll makes of the inputs DialKeys and          *)
(* HookSwitch leave out: soft keys with their debounce, the keys that have *)
(* no release code, and line reversals; and the policy that keeps a code   *)
(* from the CP.                                                            *)
(*                                                                         *)
(* panel.out is what the last poll queued for the CP.  reports and steady  *)
(* are histories: how often a soft key was reported since it was last up,  *)
(* and for how many polls the soft keys have read the same.                *)
(***************************************************************************)
EXTENDS Naturals, FiniteSets

CONSTANTS
    SoftKeys,        \* the soft keys of the display
    EdgeKeys,        \* keys told of when pressed, as far as the policy tells them apart
    Reversals,       \* the reversals of the line that are told
    Policies,        \* bound: the policies a board profile is tried with
    PollPeriod,      \* milliseconds from poll to poll (10)
    SoftDebounce     \* milliseconds a soft key must read the same (25)

\* The policy of the board profile, and whether codes it absorbs are kept from the CP at all.
Policy == [userIf : BOOLEAN, protects : BOOLEAN, protectsDial : BOOLEAN, overlay : BOOLEAN,
           absorbs : BOOLEAN]

\* Every input has a code of its own.
ASSUME PanelAssumption ==
    /\ IsFiniteSet(SoftKeys) /\ SoftKeys \cap (EdgeKeys \cup Reversals) = {}
    /\ EdgeKeys \subseteq {"dial", "language", "next_call", "volume"}
    /\ Policies \subseteq Policy
    /\ PollPeriod \in Nat \ {0} /\ SoftDebounce \in Nat \ {0}

VARIABLES panel, uiPolicy
panelEventVars == <<panel, uiPolicy>>

PanelCodes == SoftKeys \cup EdgeKeys \cup Reversals

NotWaiting == SoftDebounce + 1
PollsToSettle == (SoftDebounce + PollPeriod - 1) \div PollPeriod

PanelEventsTypeOK ==
    /\ uiPolicy \in Policy
    /\ panel \in [raw : SUBSET SoftKeys, stable : SUBSET SoftKeys, wait : 0..NotWaiting,
                  last : SUBSET SoftKeys, illegal : BOOLEAN,
                  held : SUBSET EdgeKeys, reversed : SUBSET Reversals,
                  hook : BOOLEAN, onHook : BOOLEAN, guard : BOOLEAN, out : SUBSET PanelCodes,
                  reports : [SoftKeys -> 0..2], steady : 0..PollsToSettle]

\* Soft keys held at the reset count as stable and told.
PanelEventsInit ==
    /\ uiPolicy \in Policies
    /\ \E raw \in SUBSET SoftKeys :
         panel = [raw |-> raw, stable |-> raw, wait |-> NotWaiting, last |-> raw, illegal |-> FALSE,
                  held |-> {}, reversed |-> {}, hook |-> TRUE, onHook |-> TRUE, guard |-> FALSE,
                  out |-> {}, reports |-> [k \in SoftKeys |-> 0], steady |-> 0]

\* Soft keys that changed start a wait; the first poll after it takes what they read.
Debounced(p, raw) ==
    IF raw # p.raw THEN [p EXCEPT !.raw = raw, !.wait = SoftDebounce, !.steady = 0]
    ELSE LET left == IF p.wait <= PollPeriod THEN 0 ELSE p.wait - PollPeriod
             q    == [p EXCEPT !.steady = IF @ < PollsToSettle THEN @ + 1 ELSE @]
         IN IF p.wait = NotWaiting THEN q
            ELSE IF left = 0 THEN [q EXCEPT !.stable = raw, !.wait = NotWaiting]
            ELSE [q EXCEPT !.wait = left]

\* Nothing is reported while two soft keys are down, and what was down then is not reported later.
Illegal(p) == Cardinality(p.stable) > 1
\* A slip: a chord is reported key by key.
SoftPressedAny(p) == p.stable \ p.last

SoftPressed(p) == IF Illegal(p) THEN {} ELSE p.stable \ p.last

\* Off hook, and not within the time a hook change takes to be routed.
Routed(p) == ~p.onHook /\ ~p.guard
Absorbed(p, code) ==
    \/ code = "dial" /\ uiPolicy.protectsDial
    \/ code \in {"language", "next_call"} /\ uiPolicy.protects
    \/ code \in {"language", "next_call"} /\ uiPolicy.userIf /\ Routed(p) /\ uiPolicy.overlay
    \/ code \in SoftKeys /\ uiPolicy.protects
Queued(p, code) == ~(Absorbed(p, code) /\ uiPolicy.absorbs)

Polled(raw, held, reversed, suppressed) ==
    LET p        == Debounced(panel, raw)
        pressed  == held \ panel.held
        turned   == IF suppressed THEN {} ELSE reversed \ panel.reversed
        reported == {c \in pressed \cup SoftPressed(p) \cup turned : Queued(p, c)}
    IN [p EXCEPT !.illegal = Illegal(p), !.last = p.stable, !.held = held,
                 !.reversed = reversed, !.out = reported,
                 !.reports = [k \in SoftKeys |->
                    IF k \notin p.stable THEN 0
                    ELSE IF k \in reported /\ p.reports[k] < 2 THEN p.reports[k] + 1
                    ELSE p.reports[k]]]

\* A poll meets whatever the patron and the line have done since the last one.
PanelPollEvents ==
    /\ \E raw \in SUBSET SoftKeys, held \in SUBSET EdgeKeys,
          reversed \in SUBSET Reversals, suppressed \in BOOLEAN :
          panel' = Polled(raw, held, reversed, suppressed)
    /\ UNCHANGED uiPolicy

\* A hook change is routed, and its new state holds, only when it has stood for a while.
HookMoves == /\ panel' = [panel EXCEPT !.hook = ~@, !.guard = TRUE, !.out = {}]
             /\ UNCHANGED uiPolicy
HookRouted == /\ panel.guard
              /\ panel' = [panel EXCEPT !.guard = FALSE, !.onHook = panel.hook, !.out = {}]
              /\ UNCHANGED uiPolicy

PanelEventsNext == PanelPollEvents \/ HookMoves \/ HookRouted
PanelEventsSpec == PanelEventsInit /\ [][PanelEventsNext]_panelEventVars

\* A soft key is reported at most once while it is down, only when it was down alone and had read
\* the same for the whole debounce; and with the protection on, no soft action reaches the CP.
\* Names tp_process_front_panel_events and user_io_cp_policy_absorb_tp_opcode.
SoftKeysHonest ==
    \A k \in SoftKeys :
        /\ panel.reports[k] <= 1
        /\ k \in panel.out => panel.raw = {k} /\ panel.steady = PollsToSettle
        /\ k \in panel.out => ~(uiPolicy.protects /\ uiPolicy.absorbs)
===============================================================================
