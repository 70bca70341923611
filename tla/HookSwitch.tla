------------------------------- MODULE HookSwitch -------------------------------
(***************************************************************************)
(* The hook switch on its way to the CP (millennium_keypad_model.cpp and   *)
(* tp_process_front_panel_events, legacy backend): the sampler's debounce, *)
(* the guard that drops a transition too close to the one before, the      *)
(* abuse guard that turns rapid hooking into a line interruption, and the  *)
(* hook state of the telephony side with its stabilisation.                *)
(*                                                                         *)
(* The user moves the switch between polls, and the CP's relay commands    *)
(* overrule it on the telephony side; HOST_POLL is the clock, and all      *)
(* times are counted in polls (10 ms apart in the code, the first after    *)
(* 5).  Line reversals only report their edge and are left out.            *)
(***************************************************************************)
EXTENDS Integers

CONSTANTS
    Debounce,       \* polls a sample must persist (debounce_cycles, far below a poll: 1)
    Gap,            \* transitions closer than 40 ms are dropped
    AbuseWindow,    \* transitions closer than 300 ms are rapid,
    AbuseLimit,     \* and so many in a row are abuse: 6
    Stabilise,      \* 120 ms until the telephony side believes its hook state
    Dwell,          \* how long the user leaves the switch alone at least
    MaxMoves,       \* bound on the user's moves and the line's
    MaxRelays       \* bound on the CP's relay commands

ASSUME HookTimeAssumption ==
    /\ Debounce \in Nat /\ Gap \in Nat /\ AbuseWindow \in Nat /\ Stabilise \in Nat \ {0}
    /\ Gap <= AbuseWindow
ASSUME AbuseAssumption == AbuseLimit \in Nat \ {0, 1}
ASSUME UserAssumption == Dwell \in Nat /\ MaxMoves \in Nat /\ MaxRelays \in Nat

VARIABLES
    offhook,    \* the switch, and
    still,      \* for how many polls it has been there
    line,       \* LINECTRL bit 0: the line is connected
    sample,     \* the sampler: m_hook_raw, its age, m_hook_stable
    seen,       \* hook bit and line bit at the last poll (m_last_tp_ui_...)
    since,      \* polls since the last accepted transition
    rapid,      \* m_tp_ui_abuse_rapid_hook_transition_accum
    tel,        \* m_tel_hook_onhook, ..._stable and m_tel_hook_stabilize_until_cycle
    hookTold,   \* history: the hook and line states last reported to the CP, and the hook
                \* state known to it, from such a report or from its own relay command
    moves,      \* what remains of MaxMoves
    relays      \* what remains of MaxRelays

hookVars == <<offhook, still, line, sample, seen, since, rapid, tel, hookTold, moves, relays>>

Aged(age, limit) == IF age >= limit THEN limit ELSE age + 1

\* Long enough ago for every guard; also before the first transition.
LongAgo == AbuseWindow

\* machine_reset, with the handset wherever it is.
HookInit ==
    /\ offhook \in BOOLEAN /\ still = 0
    /\ line \in BOOLEAN
    /\ sample = [raw |-> FALSE, age |-> 0, stable |-> FALSE]
    /\ seen = [offhook |-> FALSE, line |-> line]
    /\ since = LongAgo /\ rapid = 0
    /\ tel = [onhook |-> TRUE, stable |-> TRUE, wait |-> 0]
    /\ hookTold = [onhook |-> TRUE, known |-> TRUE, line |-> line, abused |-> FALSE]
    /\ moves = MaxMoves /\ relays = MaxRelays

MoveHook ==
    /\ moves > 0 /\ still = Dwell
    /\ moves' = moves - 1
    /\ offhook' = ~offhook
    /\ still' = 0
    /\ UNCHANGED <<line, sample, seen, since, rapid, tel, hookTold, relays>>

MoveLine ==
    /\ moves > 0
    /\ moves' = moves - 1
    /\ line' = ~line
    /\ UNCHANGED <<offhook, still, sample, seen, since, rapid, tel, hookTold, relays>>

\* apply_hook_debounce, step polls after the call before it
Sampled(step) ==
    LET age == IF sample.raw # offhook THEN 0
               ELSE IF step = 1 THEN Aged(sample.age, Debounce) ELSE sample.age
    IN  [raw |-> offhook, age |-> age,
         stable |-> IF age >= Debounce THEN offhook ELSE sample.stable]

\* The CP's key query (0x3A) samples the switch too.
KeyQuery ==
    /\ sample' = Sampled(0)
    /\ UNCHANGED <<offhook, still, line, seen, since, rapid, tel, hookTold, moves, relays>>

\* A slip: a move back to the believed state ignored.
SetTelHookOneWay(t, onhook, wait) ==
    IF t.stable = onhook THEN t ELSE [t EXCEPT !.onhook = onhook, !.wait = wait]
\* set_tel_hook_state, called wait polls before the stabilisation ends
SetTelHook(t, onhook, wait) ==
    IF t.onhook = onhook /\ t.stable = onhook THEN t
    ELSE [t EXCEPT !.onhook = onhook, !.wait = wait]

\* The CP's relay commands, 0x3C releases it and 0x3D seizes it: set_tel_hook_state without
\* a report to the CP.  A command falls between two polls, so its stabilisation ends one poll
\* later than that of a transition seen in a poll.
HookRelay(onhook) ==
    /\ relays > 0
    /\ relays' = relays - 1
    /\ tel' = SetTelHook(tel, onhook, Stabilise + 1)
    /\ hookTold' = [hookTold EXCEPT !.known = onhook]
    /\ UNCHANGED <<offhook, still, line, sample, seen, since, rapid, moves>>

\* The promotion in HOST_POLL, which comes before the front panel.
Promoted ==
    LET wait == IF tel.wait = 0 THEN 0 ELSE tel.wait - 1
    IN  [tel EXCEPT !.wait = wait, !.stable = IF wait = 0 THEN tel.onhook ELSE @]

Now == Sampled(1)
Elapsed == Aged(since, LongAgo)

\* A slip: the abuse window taken for the guard.
AcceptedLongGap == Now.stable # seen.offhook /\ Elapsed >= AbuseWindow

Accepted == Now.stable # seen.offhook /\ Elapsed >= Gap

RapidCount == IF Elapsed < AbuseWindow THEN rapid + 1 ELSE 1

AbuseEarly == Accepted /\ RapidCount >= AbuseLimit - 1  \* a slip: one too soon
Abuse == Accepted /\ RapidCount >= AbuseLimit

\* The CP's line: a move of the line is reported after, and over, the abuse guard's 0x64.
ToldLine ==
    IF line # seen.line THEN [line |-> line, abused |-> FALSE]
    ELSE IF Abuse THEN [line |-> FALSE, abused |-> TRUE]
    ELSE [line |-> hookTold.line, abused |-> hookTold.abused]

\* tp_process_front_panel_events, hook and line part.  The state of the switch is
\* remembered even when its transition was dropped.
HookPoll ==
    /\ sample' = Now
    /\ seen' = [offhook |-> Now.stable, line |-> line]
    /\ since' = IF Accepted THEN 0 ELSE Elapsed
    /\ rapid' = IF Abuse THEN 0 ELSE IF Accepted THEN RapidCount ELSE rapid
    /\ tel' = IF Accepted THEN SetTelHook(Promoted, ~Now.stable, Stabilise) ELSE Promoted
    /\ hookTold' = [onhook |-> IF Accepted THEN ~Now.stable ELSE hookTold.onhook,
                known |-> IF Accepted THEN ~Now.stable ELSE hookTold.known,
                line |-> ToldLine.line, abused |-> ToldLine.abused]
    /\ still' = Aged(still, Dwell)
    /\ UNCHANGED <<offhook, line, moves, relays>>

HookNext == \/ MoveHook
            \/ MoveLine
            \/ KeyQuery
            \/ \E onhook \in BOOLEAN : HookRelay(onhook)
            \/ HookPoll

\* HOST_POLL reschedules itself.
HookFairness == WF_hookVars(HookPoll)

HookSpec == HookInit /\ [][HookNext]_hookVars /\ HookFairness

-------------------------------------------------------------------------------

\* Ages, counters and the stabilisation deadline keep their ranges.
HookTypeOK == /\ offhook \in BOOLEAN /\ still \in 0 .. Dwell
              /\ line \in BOOLEAN
              /\ sample \in [raw : BOOLEAN, age : 0 .. Debounce, stable : BOOLEAN]
              /\ seen \in [offhook : BOOLEAN, line : BOOLEAN]
              /\ since \in 0 .. LongAgo
              /\ rapid \in 0 .. AbuseLimit - 1
              /\ tel \in [onhook : BOOLEAN, stable : BOOLEAN, wait : 0 .. Stabilise + 1]
              /\ hookTold \in [onhook : BOOLEAN, known : BOOLEAN, line : BOOLEAN, abused : BOOLEAN]
              /\ moves \in 0 .. MaxMoves /\ relays \in 0 .. MaxRelays

\* The telephony side holds the hook state the CP knows: that of the last transition reported
\* to it or of its own last relay command, whichever came later.  Once the stabilisation is
\* over, that is also what a hook query answers and the boot codes carry.
TelAgrees == /\ tel.onhook = hookTold.known
             /\ tel.wait = 0 => tel.stable = hookTold.known

\* A line interruption is invented only for a user who hooked AbuseLimit times; the
\* handset found off hook at reset counts as one.
AbuseEarned == hookTold.abused => MaxMoves - moves + 1 >= AbuseLimit

\* Once the user leaves the switch alone and the CP its relay, the CP has been told where the
\* switch is, and the telephony side comes to believe the state it holds.
HookSettles == <>[](hookTold.onhook = ~offhook /\ tel.stable = tel.onhook)
=================================================================================
