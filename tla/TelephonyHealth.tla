---------------------------- MODULE TelephonyHealth ----------------------------
(***************************************************************************)
(* The telephony supervision of millennium_state.cpp (legacy backend): the *)
(* link enable ladder, the boot contract, the C4/C0 keepalive, and the     *)
(* "telephony board not responding" watchdog with its graces, retries and  *)
(* TP reset, against a CP that polls and drains the link at its own pace.  *)
(*                                                                         *)
(* A report is one message here: TelephonyLink shows that frames arrive    *)
(* whole.  Time is explicit: Tick advances every running deadline by one   *)
(* second, and a HOST_POLL (every 10 ms in the code) runs at least once     *)
(* between two Ticks.  The deadlines under a second - 60 and 210 ms to     *)
(* enable, 50 to 500 ms between keepalives - may have passed at any poll.  *)
(***************************************************************************)
EXTENDS Naturals, Sequences, FiniteSets

CONSTANTS
    C4Wait,         \* seconds to wait for an error report after 0x38: 3
    GraceShort,     \* a good report this recent excuses a miss: 2
    GraceLong,      \* and this recent, once the alarm was cleared: 5
    LatchWindow,    \* the higher threshold holds this long after an alarm: 4
    UiBurst,        \* a front-panel report this recent excuses a miss: 1.5
    Policy,         \* m_tel_response_policy
    Replies,        \* what the CP's plain queries fetch: hook, power, status
    MaxQueries,     \* bounds: what the CP asks,
    MaxQueue,       \*         reports waiting for it,
    MaxPulses,      \*         PWR_FAIL pulses,
    MaxUi           \*         front-panel reports

Policies == {"immediate", "latch_then_clear", "withhold_until_not_responding_seen",
             "withhold_until_retry", "withhold_until_timeout"}

ASSUME DurationAssumption ==
    /\ C4Wait \in Nat \ {0} /\ GraceShort \in Nat /\ GraceLong \in Nat
    /\ LatchWindow \in Nat /\ UiBurst \in Nat
ASSUME PolicyAssumption == Policy \in Policies
ASSUME RepliesAssumption == Replies \subseteq {"hook", "power", "status"}
ASSUME BoundAssumption == /\ MaxQueries \in Nat /\ MaxQueue \in Nat
                          /\ MaxPulses \in Nat /\ MaxUi \in Nat

VARIABLES
    pwr,        \* the HW_CNTL PWR_FAIL line as the CP drove it
    enabled,    \* m_tel_ip_link_enabled
    bootSent,   \* m_tel_boot_code_sent
    queue,      \* reports on their way to the CP, priority class then UI
    seen,       \* the m_tel_boot_*_seen flags
    contract,   \* m_tel_fw_boot_contract_satisfied
    alarm,      \* m_alarm_tel_not_responding_latched and ..._cleared
    c4,         \* the error-report deadline and what has been missed
    shown,      \* the display has said "not responding": m_runtime_not_responding_seen,
                \* and with "diag" m_not_responding_display_seen too
    since,      \* seconds since the events the graces look at
    polled,     \* a HOST_POLL has run since the last Tick
    unanswered, \* history: error-report deadlines missed since the last good one
    left        \* what remains of the bounds

vars == <<pwr, enabled, bootSent, queue, seen, contract, alarm, c4, shown, since,
          polled, unanswered, left>>

Evidence == {"ack", "hook", "power", "error", "status"}
Report == Evidence \cup {"ui"}

Off == C4Wait + 1   \* no deadline is running
MissCap == 5        \* the highest threshold: more misses make no difference

\* xflag_all_init_done: the scheduler has got_tel_inf, posted by any good report (or
\* tel_tmo, posted only after it); its other two signals are posted at reset.
InitDone == seen \cap {"error", "status"} # {}

\* tel_runtime_may_emit_c4
MayEmitC4 ==
    CASE Policy = "immediate"              -> TRUE
      [] Policy = "latch_then_clear"       -> alarm.latched \/ shown = "diag"
      [] Policy = "withhold_until_not_responding_seen" -> alarm.latched \/ shown # "no"
      [] Policy = "withhold_until_retry"   -> c4.retried
      [] Policy = "withhold_until_timeout" -> c4.timedOut

\* m_tel_ready_sequence_completed: set with the contract, from InitDone, which a
\* closing contract implies
Ready == contract

\* machine_reset; the image of HW_CNTL starts at 0 with the line untouched.
Init ==
    /\ pwr = "untouched"
    /\ enabled = FALSE /\ bootSent = FALSE
    /\ queue = <<>>
    /\ seen = {} /\ contract = FALSE
    /\ alarm = [latched |-> FALSE, cleared |-> FALSE]
    /\ c4 = [wait |-> Off, misses |-> 0, retried |-> FALSE, timedOut |-> FALSE]
    /\ shown = "no"
    /\ since = [good |-> GraceLong + 1, latch |-> 0, ui |-> UiBurst + 1]
    /\ polled = FALSE
    /\ unanswered = 0
    /\ left = [queries |-> MaxQueries, pulses |-> MaxPulses, ui |-> MaxUi]

-------------------------------------------------------------------------------
(***************************************************************************)
(* The CP                                                                  *)
(***************************************************************************)

Asks == /\ enabled
        /\ left.queries > 0
        /\ Len(queue) < MaxQueue
        /\ left' = [left EXCEPT !.queries = @ - 1]

\* 0x30, 0x33, 0x31: a reply and nothing else (ipcomm_complete_csio_tx_byte).
Query(reply) ==
    /\ Asks
    /\ queue' = Append(queue, reply)
    /\ UNCHANGED <<pwr, enabled, bootSent, seen, contract, alarm, c4, shown, since, polled,
                   unanswered>>

\* 0x38: the deadline for the report is armed anew by every query, unless the
\* policy withholds the report, and then no deadline runs.
QueryErrorReport ==
    /\ Asks
    /\ IF ~contract \/ MayEmitC4
         THEN /\ queue' = Append(queue, "error")
              /\ c4' = [c4 EXCEPT !.wait = C4Wait]
         ELSE /\ queue' = queue
              /\ c4' = [c4 EXCEPT !.wait = Off]
    /\ UNCHANGED <<pwr, enabled, bootSent, seen, contract, alarm, shown, since, polled,
                   unanswered>>

\* A completed configuration download: both reports (the 0x74 is not a report).
Download ==
    /\ Asks
    /\ queue' = queue \o <<"error", "status">>
    /\ UNCHANGED <<pwr, enabled, bootSent, seen, contract, alarm, c4, shown, since, polled,
                   unanswered>>

\* note_boot_contract_progress
ClosesOnOneReport(saw) ==   \* a slip: either report is enough
    ~contract /\ "ack" \in saw /\ saw \cap {"error", "status"} # {}
Closes(saw) == ~contract /\ {"ack", "error", "status"} \subseteq saw

\* The alarm once report m is in.  A slip: the latch left standing.
AlarmAfterKeepsLatch(m, closes) ==
    IF closes \/ (m = "error" /\ (alarm.latched \/ contract))
      THEN [alarm EXCEPT !.cleared = TRUE]
      ELSE alarm
AlarmAfter(m, closes) ==
    IF closes \/ (m = "error" /\ (alarm.latched \/ contract))
      THEN [latched |-> FALSE, cleared |-> TRUE]
      ELSE alarm

\* The watchdog once report m is in.  A slip: one miss taken back.
C4AfterTakesBack(m) ==
    IF m = "error" THEN [c4 EXCEPT !.wait = Off, !.misses = @ - 1, !.retried = FALSE] ELSE c4
C4After(m) ==
    IF m = "error" THEN [c4 EXCEPT !.wait = Off, !.misses = 0, !.retried = FALSE] ELSE c4

\* The CP takes a report (telephony_note_csio_rx_byte, end of the message).  A good
\* error report clears a latched alarm and the misses; the third piece of evidence
\* closes the boot contract and clears the alarm whatever it was.
Receive ==
    /\ queue # <<>>
    /\ queue' = Tail(queue)
    /\ LET m      == Head(queue)
           saw    == IF m = "ui" THEN seen ELSE seen \cup {m}
           closes == Closes(saw)
       IN  /\ seen' = saw
           /\ contract' = (contract \/ closes)
           /\ alarm' = AlarmAfter(m, closes)
           /\ c4' = C4After(m)
           /\ since' = IF m \in {"error", "status"} THEN [since EXCEPT !.good = 0] ELSE since
           /\ unanswered' = IF m = "error" THEN 0 ELSE unanswered
    /\ UNCHANGED <<pwr, enabled, bootSent, shown, polled, left>>

\* HW_CNTL bit 5 (board_status_w).  Falling: the link goes down, the queues stay.
\* Rising arms the enable deadline, which the ladder of HOST_POLL looks at.
PwrFall ==
    /\ pwr # "low" /\ left.pulses > 0
    /\ pwr' = "low"
    /\ enabled' = FALSE /\ bootSent' = FALSE
    /\ left' = [left EXCEPT !.pulses = @ - 1]
    /\ UNCHANGED <<queue, seen, contract, alarm, c4, shown, since, polled, unanswered>>

PwrRise ==
    /\ pwr # "high"
    /\ pwr' = "high"
    /\ UNCHANGED <<enabled, bootSent, queue, seen, contract, alarm, c4, shown, since, polled,
                   unanswered, left>>

\* vfd_display_w: the firmware puts "not responding" on the display.  The second flag
\* is set only while the ready-decision trace is written.  Left out where the policy
\* looks at neither.
ShowNotResponding(flag) ==
    /\ Policy \in {"latch_then_clear", "withhold_until_not_responding_seen"}
    /\ shown # "diag"
    /\ shown' = flag
    /\ UNCHANGED <<pwr, enabled, bootSent, queue, seen, contract, alarm, c4, since, polled,
                   unanswered, left>>

-------------------------------------------------------------------------------
(***************************************************************************)
(* HOST_POLL                                                               *)
(***************************************************************************)

\* The enable ladder.  A slip: only the rising edge of PWR_FAIL arms it.
LinkUpEdgeOnly(ladder) == enabled \/ (ladder /\ pwr = "high")
LinkUp(ladder) == enabled \/ ladder

BootQueue(up) == IF up /\ ~bootSent /\ queue = <<>> THEN <<"ack">> ELSE queue

\* A slip: no keepalive before the boot contract has closed.
KeepaliveRunsLate(up, due) == up /\ contract /\ BootQueue(up) = <<>> /\ due

KeepaliveRuns(up, due) ==
    /\ up /\ (contract \/ "ack" \in seen)
    /\ BootQueue(up) = <<>> /\ due

Keepalive == IF ~contract \/ MayEmitC4 THEN <<"error", "status">> ELSE <<"status">>

\* The error-report deadline has passed with no report accepted.
Expired(keep) == c4.wait = 0 /\ ~keep /\ InitDone

Recent(age, limit) == age <= limit

\* csio_rx_post_clear_safe
ClearSafe(cleared) ==
    cleared /\ {"error", "status"} \subseteq seen /\ Recent(since.good, GraceLong)

\* within_recent_health_grace || ui_burst_active
Excused(q) == Recent(since.good, GraceShort) \/ (Recent(since.ui, UiBurst) /\ q # <<>>)

SweepGrace == IF {"error", "status"} \subseteq seen THEN GraceLong ELSE GraceShort

ThresholdTwo == IF Recent(since.latch, LatchWindow) THEN 5 ELSE 2    \* a slip
Threshold == IF Recent(since.latch, LatchWindow) THEN 5 ELSE 3

\* csio_runtime_ok.  A slip: the whole boot bundle asked for.
RuntimeOkStrict(cleared) == contract /\ Evidence \subseteq seen /\ cleared
RuntimeOk(cleared) == contract /\ {"error", "status"} \subseteq seen /\ cleared

AtMost(n, cap) == IF n > cap THEN cap ELSE n

\* In the order of the code: enable ladder, boot code, keepalive, error-report
\* deadline, front panel.  Between the keepalive and the deadline stands a second
\* watchdog: no health sweep for three seconds (overdue) while the alarm has not been
\* cleared latches it too.
HostPoll(ladder, due, overdue, ui) ==
    LET up       == LinkUp(ladder)
        keep     == KeepaliveRuns(up, due)
        q        == IF keep THEN Keepalive ELSE BootQueue(up)
        proves   == keep /\ (~contract \/ MayEmitC4 \/ Policy = "immediate")
        cleared  == alarm.cleared \/ proves
        silent   == overdue /\ Ready /\ ~cleared /\ ~Recent(since.good, SweepGrace)
        latched  == (alarm.latched /\ ~proves) \/ silent
        expired  == Expired(keep)
        missed   == expired /\ ~ClearSafe(cleared)
        misses   == c4.misses + 1
        excused  == missed /\ Excused(q)
        over     == missed /\ ~excused /\ misses >= Threshold
        forgiven == over /\ RuntimeOk(cleared)
        alarms   == over /\ ~forgiven
    IN  /\ alarm' = IF alarms THEN [latched |-> TRUE, cleared |-> FALSE]
                              ELSE [latched |-> latched, cleared |-> cleared]
        /\ enabled' = (up /\ ~alarms)
        /\ bootSent' = ((bootSent \/ (up /\ queue = <<>>)) /\ ~alarms)
        /\ queue' = IF ui THEN Append(q, "ui") ELSE q
        /\ c4' = [wait     |-> IF keep \/ expired THEN Off ELSE c4.wait,
                  misses   |-> IF keep \/ forgiven \/ (expired /\ ~missed) THEN 0
                               ELSE IF ~expired \/ (excused /\ c4.misses > 0) THEN c4.misses
                               ELSE AtMost(misses, MissCap),
                  retried  |-> (c4.retried /\ ~keep) \/ missed,
                  timedOut |-> c4.timedOut \/ silent \/ alarms]
        /\ since' = [since EXCEPT !.latch = IF silent \/ alarms THEN 0 ELSE @, !.ui = IF ui THEN 0 ELSE @]
        /\ unanswered' = IF expired THEN AtMost(unanswered + 1, MissCap) ELSE unanswered
        /\ polled' = TRUE
        /\ UNCHANGED <<pwr, seen, contract, shown>>

\* Whether PWR_FAIL rose 60 ms ago, or 210 ms have passed since a reset, or nothing
\* ever armed a deadline and the 500 ms fallback did, the ladder fires at some poll.
Poll(ladder, due, overdue) ==
    /\ HostPoll(ladder, due, overdue, FALSE)
    /\ UNCHANGED left

PollWithUi ==
    /\ left.ui > 0
    /\ left' = [left EXCEPT !.ui = @ - 1]
    /\ HostPoll(FALSE, FALSE, FALSE, TRUE)

Older(age, limit) == IF age > limit THEN age ELSE age + 1

Tick ==
    /\ polled
    /\ polled' = FALSE
    /\ c4' = [c4 EXCEPT !.wait = IF @ \in {0, Off} THEN @ ELSE @ - 1]
    /\ since' = [good  |-> Older(since.good, GraceLong),
                 latch |-> Older(since.latch, LatchWindow),
                 ui    |-> Older(since.ui, UiBurst)]
    /\ UNCHANGED <<pwr, enabled, bootSent, queue, seen, contract, alarm, shown, unanswered,
                   left>>

Next == \/ \E r \in Replies : Query(r)
        \/ QueryErrorReport
        \/ Download
        \/ Receive
        \/ PwrFall
        \/ PwrRise
        \/ \E flag \in {"seen", "diag"} : ShowNotResponding(flag)
        \/ \E ladder, due, overdue \in BOOLEAN : Poll(ladder, due, overdue)
        \/ PollWithUi
        \/ Tick

\* HOST_POLL is rescheduled every 10 ms, so armed deadlines are acted on; the CP
\* firmware keeps draining the link.
Fairness == /\ WF_vars(Poll(TRUE, FALSE, FALSE))
            /\ WF_vars(Poll(FALSE, TRUE, FALSE))
            /\ WF_vars(Receive)

Spec == Init /\ [][Next]_vars /\ Fairness

-------------------------------------------------------------------------------

\* Deadlines, ages and miss counts keep their ranges.
TypeOK == /\ pwr \in {"untouched", "low", "high"}
          /\ enabled \in BOOLEAN /\ bootSent \in BOOLEAN
          /\ queue \in Seq(Report)
          /\ seen \in SUBSET Evidence
          /\ contract \in BOOLEAN
          /\ alarm \in [latched : BOOLEAN, cleared : BOOLEAN]
          /\ c4 \in [wait : 0 .. Off, misses : 0 .. MissCap, retried : BOOLEAN, timedOut : BOOLEAN]
          /\ shown \in {"no", "seen", "diag"}
          /\ since \in [good : 0 .. GraceLong + 1, latch : 0 .. LatchWindow + 1,
                        ui : 0 .. UiBurst + 1]
          /\ polled \in BOOLEAN
          /\ unanswered \in 0 .. MissCap
          /\ left \in [queries : 0 .. MaxQueries, pulses : 0 .. MaxPulses, ui : 0 .. MaxUi]

\* The alarm and its clearance are never both in force.
AlarmExclusive == ~(alarm.latched /\ alarm.cleared)

\* Once the boot contract has closed the alarm cannot latch again, and with it the
\* host-poll timeout, which waits for an alarm that is not cleared, cannot fire:
\* after boot nothing supervises the link.
NoAlarmAfterContract == contract => alarm.cleared /\ ~alarm.latched

\* Readiness rests on a boot code and on both reports having reached the CP.
ContractEvidence == contract => {"ack", "error", "status"} \subseteq seen

\* The watchdog of host_poll counts no miss that did not happen: AlarmRaised rests on it.
MissesReal == c4.misses <= unanswered

\* The alarm is raised only by three deadlines missed in a row, and raising it
\* resets the TP: the link goes down and the boot code is owed again.
AlarmRaised ==
    [][alarm'.latched /\ ~alarm.latched => unanswered' >= 3 /\ ~enabled' /\ ~bootSent']_vars

\* The boot contract closes, even against resets and alarms.
ContractCloses == <>contract

\* In the end the link is up for good.
LinkStaysUp == <>[]enabled

\* What the vectors of tests/devices demand of the watchdog: after boot the third missed sweep latches the alarm.
ThirdMissLatches == contract /\ unanswered >= 3 => alarm.latched

===============================================================================
