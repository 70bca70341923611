-------------------------------- MODULE DialKeys --------------------------------
(***************************************************************************)
(* The dial pad and repertory keys of tp_process_front_panel_events        *)
(* (millennium_state.cpp, legacy backend): edges, the KEY_RELEASE (0x5E)   *)
(* owed for every press, the release synthesised when a key stays down too *)
(* long and the suppression of that key until it is let go, autorepeat,    *)
(* and the craft-entry window, which switches synthesis and repeat off.    *)
(*                                                                         *)
(* The user presses and lets go between polls; HOST_POLL is the clock, and *)
(* all times are counted in polls (10 ms each in the code).  Keys without a *)
(* release (volume, language, new call) only report their edge; the hook   *)
(* and the line are HookSwitch's.                                          *)
(***************************************************************************)
EXTENDS Integers, SequencesExt

CONSTANTS
    Order,          \* the keys, in the order emit_key looks at them
    NoKey,
    CraftSeq,       \* kCraftSeq: "2727378"
    ReleaseAfter,   \* a release is synthesised 3000 ms after the press
    RepeatAfter,    \* autorepeat after 500 ms,
    RepeatEvery,    \* then every 150 ms
    CraftIdle,      \* the craft window closes after 6 s without a key,
    CraftDone,      \* or 8 s after the sequence was complete
    MaxDown,        \* how many keys the user holds at once
    MaxPresses      \* bound on the key presses

Key == ToSet(Order)

ASSUME OrderAssumption == Order \in Seq(Key) /\ IsInjective(Order) /\ NoKey \notin Key
ASSUME CraftAssumption == Len(CraftSeq) \in Nat \ {0}
ASSUME TimeAssumption ==
    /\ ReleaseAfter \in Nat \ {0} /\ RepeatAfter \in Nat /\ RepeatEvery \in Nat \ {0}
    /\ CraftIdle \in Nat /\ CraftDone \in Nat
ASSUME BoundAssumption == MaxDown \in Nat /\ MaxPresses \in Nat

VARIABLES
    down,       \* the keys physically down
    last,       \* m_last_tp_ui_keymatrix_state: the keys down at the last poll
    pending,    \* m_tp_ui_pending_dial_release
    releaseIn,  \* polls to m_tp_ui_dial_release_deadline_cy, or Never
    suppress,   \* m_tp_ui_suppress_dial_until_physical_release
    hold,       \* m_tp_ui_repeat_hold_mask, its age and m_tp_ui_repeat_extra_sent
    craft,      \* m_craft_entry_progress (0: no window) and the age of its last input
    told,       \* history: presses less releases, as the CP was told them
    heldFor,    \* history: for how many polls a key has been down
    paid,       \* history: keys still down whose release was synthesised
    past,       \* history: two keys have been down together, a craft window has been open
    presses     \* what remains of MaxPresses

vars == <<down, last, pending, releaseIn, suppress, hold, craft, told, heldFor, paid, past,
          presses>>

Never == ReleaseAfter + 1
NoHold == [key |-> NoKey, age |-> 0, sent |-> 0]
NoCraft == [progress |-> 0, age |-> 0]
Complete == Len(CraftSeq)

\* Ages stop counting past everything that looks at them; the window may keep a hold
\* alive for as long as the two craft timeouts after the last press.
CraftAge == Max({CraftIdle, CraftDone}) + 1
HoldAge == ReleaseAfter + (MaxPresses + 1) * CraftAge

Older(age, limit) == IF age >= limit THEN limit ELSE age + 1

Init ==
    /\ down = {} /\ last = {}
    /\ pending = 0 /\ releaseIn = Never
    /\ suppress = {}
    /\ hold = NoHold
    /\ craft = NoCraft
    /\ told = 0
    /\ heldFor = [k \in Key |-> 0]
    /\ paid = {}
    /\ past = [rolled |-> FALSE, craft |-> FALSE]
    /\ presses = MaxPresses

Press(k) ==
    /\ k \notin down /\ Cardinality(down) < MaxDown
    /\ presses > 0
    /\ presses' = presses - 1
    /\ down' = down \cup {k}
    /\ past' = [past EXCEPT !.rolled = @ \/ down # {}]
    /\ UNCHANGED <<last, pending, releaseIn, suppress, hold, craft, told, heldFor, paid>>

LetGo(k) ==
    /\ k \in down
    /\ down' = down \ {k}
    /\ UNCHANGED <<last, pending, releaseIn, suppress, hold, craft, told, heldFor, paid, past,
                   presses>>

-------------------------------------------------------------------------------

\* note_craft_entry_key: only the keys of the sequence count.  A wrong one closes the
\* window, unless it is the first of the sequence, which starts over.
NoteCraftKey(c, k) ==
    IF k \notin ToSet(CraftSeq) \/ c.progress = Complete THEN c
    ELSE IF CraftSeq[c.progress + 1] = k THEN [progress |-> c.progress + 1, age |-> 0]
    ELSE IF c.progress > 0 /\ CraftSeq[1] = k THEN [progress |-> 1, age |-> 0]
    ELSE NoCraft

\* A slip: no idle timeout before the sequence is complete.
RefreshCraftPatient(c, visible) ==
    LET age == Older(c.age, CraftAge)
    IN  IF c.progress = 0 \/ visible \/ (c.progress = Complete /\ age > CraftDone)
          THEN NoCraft
          ELSE [c EXCEPT !.age = age]

\* refresh_craft_entry_window: visible is a craft or install text on the display.
RefreshCraft(c, visible) ==
    LET age == Older(c.age, CraftAge)
    IN  IF \/ c.progress = 0
           \/ visible
           \/ c.progress = Complete /\ age > CraftDone
           \/ c.progress < Complete /\ age > CraftIdle
          THEN NoCraft
          ELSE [c EXCEPT !.age = age]

\* Slips in emit_key: a press that is not an edge, a deadline left armed, a release not counted off, a release not owed.
EmitKeyLevel(s, k, now, old) ==
    IF k \in now THEN [s EXCEPT !.pending = @ + 1, !.told = @ + 1] ELSE s

EmitKeyStaysArmed(s, k, now, old) ==
    CASE k \in now \ old -> [s EXCEPT !.pending = @ + 1, !.told = @ + 1,
                                      !.releaseIn = IF s.pending = 0 THEN ReleaseAfter ELSE @]
      [] k \in old \ now /\ s.pending > 0 -> [s EXCEPT !.pending = @ - 1, !.told = @ - 1]
      [] OTHER -> s

EmitKeyForgetsRelease(s, k, now, old) ==
    CASE k \in now \ old ->
            [s EXCEPT !.pending = @ + 1, !.told = @ + 1,
                      !.releaseIn = IF s.pending = 0 THEN ReleaseAfter ELSE @]
      [] k \in old \ now /\ s.pending > 0 ->
            [s EXCEPT !.told = @ - 1, !.releaseIn = IF s.pending = 1 THEN Never ELSE @]
      [] OTHER -> s

EmitKeyUnowed(s, k, now, old) ==
    CASE k \in now \ old -> [s EXCEPT !.pending = @ + 1, !.told = @ + 1,
                                      !.releaseIn = IF s.pending = 0 THEN ReleaseAfter ELSE @]
      [] k \in old \ now -> [s EXCEPT !.pending = IF @ = 0 THEN 0 ELSE @ - 1, !.told = @ - 1,
                                      !.releaseIn = IF s.pending = 1 THEN Never ELSE @]
      [] OTHER -> s

\* emit_key for one key, over what the keys before it left.
EmitKey(s, k, now, old) ==
    CASE k \in now \ old ->
            [s EXCEPT !.pending = @ + 1, !.told = @ + 1,
                      !.releaseIn = IF s.pending = 0 THEN ReleaseAfter ELSE @,
                      !.craft = NoteCraftKey(@, k)]
      [] k \in old \ now /\ s.pending > 0 ->
            [s EXCEPT !.pending = @ - 1, !.told = @ - 1,
                      !.releaseIn = IF s.pending = 1 THEN Never ELSE @]
      [] OTHER -> s

\* The keys' edges, one emit_key after the other.
EmitKeys(start, now, old) ==
    LET after[i \in 0 .. Len(Order)] ==
            IF i = 0 THEN start ELSE EmitKey(after[i - 1], Order[i], now, old)
    IN  after[Len(Order)]

\* A slip: the hold not started anew when another key takes over.
RepeatInherits(h, now) ==
    LET single == IF Cardinality(now) = 1 THEN CHOOSE k \in now : TRUE ELSE NoKey
    IN  IF single = NoKey THEN NoHold
        ELSE IF h.age >= RepeatAfter
          THEN [h EXCEPT !.key = single,
                         !.sent = Max({@, 1 + (h.age - RepeatAfter) \div RepeatEvery})]
        ELSE [h EXCEPT !.key = single]

\* Autorepeat, when no craft window is open: one key held, first after RepeatAfter
\* polls, then every RepeatEvery; a backlog is sent at once.
Repeat(h, now) ==
    LET single == IF Cardinality(now) = 1 THEN CHOOSE k \in now : TRUE ELSE NoKey
    IN  IF single = NoKey THEN NoHold
        ELSE IF single # h.key THEN [key |-> single, age |-> 0, sent |-> 0]
        ELSE IF h.age >= RepeatAfter
          THEN [h EXCEPT !.sent = Max({@, 1 + (h.age - RepeatAfter) \div RepeatEvery})]
        ELSE h

\* tp_process_front_panel_events, after refresh_craft_entry_window.
HostPoll(visible) ==
    LET window == RefreshCraft(craft, visible)
        wait   == IF releaseIn \in {0, Never} THEN releaseIn ELSE releaseIn - 1
        kept   == suppress \cap down
        now    == down \ kept
        old    == last \ kept
        synth  == window.progress = 0 /\ pending > 0 /\ wait = 0
        start  == [pending   |-> IF synth THEN 0 ELSE pending,
                   releaseIn |-> IF synth THEN Never ELSE wait,
                   told      |-> IF synth THEN told - 1 ELSE told,
                   craft     |-> window]
        end    == EmitKeys(start, now, old)
        held   == IF synth \/ hold = NoHold THEN NoHold
                  ELSE [hold EXCEPT !.age = Older(@, HoldAge)]
    IN  /\ pending' = end.pending
        /\ releaseIn' = end.releaseIn
        /\ told' = end.told
        /\ craft' = end.craft
        /\ suppress' = kept \cup (IF synth THEN down ELSE {})
        /\ hold' = IF end.craft.progress > 0 THEN held ELSE Repeat(held, now)
        /\ last' = down
        /\ heldFor' = [k \in Key |-> IF k \in down \cap last THEN Older(heldFor[k], RepeatAfter)
                                                            ELSE 0]
        /\ paid' = (paid \cap down) \cup (IF synth THEN down \cap last ELSE {})
        /\ past' = [past EXCEPT !.craft = @ \/ end.craft.progress > 0]
        /\ UNCHANGED <<down, presses>>

Next == \/ \E k \in Key : Press(k)
        \/ \E k \in Key : LetGo(k)
        \/ \E visible \in BOOLEAN : HostPoll(visible)

\* HOST_POLL reschedules itself; the user may hold a key for ever.
Fairness == WF_vars(HostPoll(FALSE))

Spec == Init /\ [][Next]_vars /\ Fairness

-------------------------------------------------------------------------------

\* Owed releases, deadlines and ages keep their ranges: no more releases are owed than
\* there are keys.
TypeOK == /\ down \in SUBSET Key /\ last \in SUBSET Key /\ suppress \in SUBSET Key
          /\ paid \in SUBSET Key
          /\ pending \in 0 .. Cardinality(Key)
          /\ releaseIn \in 0 .. Never
          /\ hold \in [key : Key \cup {NoKey}, age : 0 .. HoldAge, sent : 0 .. HoldAge + 1]
          /\ craft \in [progress : 0 .. Complete, age : 0 .. CraftAge]
          /\ told \in Int
          /\ heldFor \in [Key -> 0 .. RepeatAfter]
          /\ past \in [rolled : BOOLEAN, craft : BOOLEAN]
          /\ presses \in 0 .. MaxPresses

\* A release is owed only for keys that are down, so none is owed once all are up, and
\* the deadline that would pay it is armed exactly while one is owed.
PendingHeld == /\ pending <= Cardinality(last)
               /\ (pending > 0 <=> releaseIn # Never)

\* With every key up, the CP has been told of as many releases as presses, as long as
\* the user has pressed one key at a time.
ReleasesMatch == last = {} /\ ~past.rolled => told = 0

\* The same of keys rolled over each other.
ReleasesMatchRolled == last = {} => told = 0

\* A key whose release was synthesised is let go in silence, with one key at a time.
ReleaseOnce ==
    [][last' # last /\ ~past.rolled =>
        \A k \in paid : last \ last' = {k} /\ last' \subseteq last => told' = told]_vars

\* A repeat is sent only for a key that has been down for RepeatAfter polls, as long as
\* no craft window has been open.
RepeatsNeedHold ==
    [][hold'.sent > hold.sent /\ ~past.craft => heldFor'[hold'.key] >= RepeatAfter]_vars

\* Every release owed is paid, if need be by synthesis, whatever the user does and
\* though a craft window postpones it.
ReleaseComes == pending > 0 ~> pending = 0
=================================================================================
