------------------------- MODULE TelephonyHealthProofs -------------------------
(***************************************************************************)
(* Proofs about the telephony supervision, for every choice of durations,  *)
(* policy and bounds: the health invariant, and what it says of the alarm. *)
(***************************************************************************)
EXTENDS TelephonyHealth, TLAPS

\* The inductive invariant.  ContractEvidence is what makes csio_runtime_ok true once
\* the contract has closed, so NoAlarmAfterContract cannot be proved without it.
HealthInv == /\ AlarmExclusive
             /\ NoAlarmAfterContract
             /\ ContractEvidence
             /\ MissesReal

\* Capping keeps a count within the cap and never makes it larger.
LEMMA AtMostBound ==
    ASSUME NEW n \in Nat, NEW cap \in Nat
    PROVE  /\ AtMost(n, cap) \in 0 .. cap
           /\ AtMost(n, cap) <= n
           /\ n <= cap => AtMost(n, cap) = n
           /\ n > cap => AtMost(n, cap) = cap
BY DEF AtMost

\* Ages saturate one past their limit.
LEMMA OlderBound ==
    ASSUME NEW limit \in Nat, NEW age \in 0 .. limit + 1
    PROVE  Older(age, limit) \in 0 .. limit + 1
BY DEF Older

\* The bounds never go below zero.
LEMMA LeftType ==
    ASSUME left \in [queries : 0 .. MaxQueries, pulses : 0 .. MaxPulses, ui : 0 .. MaxUi]
    PROVE  /\ left.queries > 0 => [left EXCEPT !.queries = @ - 1] \in
                 [queries : 0 .. MaxQueries, pulses : 0 .. MaxPulses, ui : 0 .. MaxUi]
           /\ left.pulses > 0 => [left EXCEPT !.pulses = @ - 1] \in
                 [queries : 0 .. MaxQueries, pulses : 0 .. MaxPulses, ui : 0 .. MaxUi]
           /\ left.ui > 0 => [left EXCEPT !.ui = @ - 1] \in
                 [queries : 0 .. MaxQueries, pulses : 0 .. MaxPulses, ui : 0 .. MaxUi]
BY BoundAssumption

\* What is queued stays a sequence of reports.
LEMMA AppendReport ==
    ASSUME NEW q \in Seq(Report), NEW m \in Report
    PROVE  Append(q, m) \in Seq(Report)
OBVIOUS

\* So does what is queued in one go.
LEMMA ConcatReport ==
    ASSUME NEW q \in Seq(Report)
    PROVE  q \o <<"error", "status">> \in Seq(Report)
<1>1. <<"error", "status">> \in Seq(Report)
  BY DEF Report, Evidence
<1> QED
  BY <1>1

\* The kinds of report.
LEMMA ReportKinds == "ui" \in Report /\ "ack" \in Report /\ "error" \in Report
                        /\ Replies \subseteq Report /\ Report \subseteq Evidence \cup {"ui"}
BY RepliesAssumption DEF Report, Evidence

\* What is still waiting after the CP took one report.
LEMMA TailReport ==
    ASSUME NEW q \in Seq(Report), q # <<>>
    PROVE  Head(q) \in Report /\ Tail(q) \in Seq(Report)
OBVIOUS

LeftOk == left \in [queries : 0 .. MaxQueries, pulses : 0 .. MaxPulses, ui : 0 .. MaxUi]

\* A query spends one of the queries left.
LEMMA AsksType == TypeOK /\ Asks => LeftOk'
BY LeftType DEF TypeOK, Asks, LeftOk

\* What HOST_POLL leaves waiting for the CP is a sequence of reports.
LEMMA BootQueueType ==
    ASSUME queue \in Seq(Report), NEW up \in BOOLEAN
    PROVE  BootQueue(up) \in Seq(Report)
<1>1. <<"ack">> \in Seq(Report)
  BY ReportKinds
<1> QED
  BY <1>1 DEF BootQueue

\* The keepalive is a sequence of reports.
LEMMA KeepaliveType == Keepalive \in Seq(Report)
<1>1. <<"error", "status">> \in Seq(Report) /\ <<"status">> \in Seq(Report)
  BY DEF Report, Evidence
<1> QED
  BY <1>1 DEF Keepalive

\* One HOST_POLL keeps every type.
LEMMA HostPollType ==
    ASSUME TypeOK, LeftOk', NEW ladder \in BOOLEAN, NEW due \in BOOLEAN,
           NEW overdue \in BOOLEAN, NEW ui \in BOOLEAN,
           HostPoll(ladder, due, overdue, ui)
    PROVE  TypeOK'
<1>1. enabled' \in BOOLEAN /\ bootSent' \in BOOLEAN
  BY DEF HostPoll, LinkUp, TypeOK
<1>2. queue' \in Seq(Report)
  <2>1. BootQueue(enabled \/ ladder) \in Seq(Report) /\ Keepalive \in Seq(Report)
    BY BootQueueType, KeepaliveType DEF TypeOK
  <2> DEFINE q == IF KeepaliveRuns(enabled \/ ladder, due) THEN Keepalive
                  ELSE BootQueue(enabled \/ ladder)
  <2>2. q \in Seq(Report)
    BY <2>1
  <2>3. Append(q, "ui") \in Seq(Report)
    BY <2>2, AppendReport, ReportKinds
  <2>4. queue' = IF ui THEN Append(q, "ui") ELSE q
    BY DEF HostPoll, LinkUp
  <2> QED
    BY <2>2, <2>3, <2>4
<1>3. alarm' \in [latched : BOOLEAN, cleared : BOOLEAN]
  BY DEF HostPoll, LinkUp, TypeOK
<1>4. c4' \in [wait : 0 .. Off, misses : 0 .. MissCap, retried : BOOLEAN, timedOut : BOOLEAN]
  <2>1. c4.wait \in 0 .. Off /\ Off \in 0 .. Off /\ c4.misses \in 0 .. MissCap
    BY DurationAssumption DEF TypeOK, Off
  <2>2. 0 \in 0 .. MissCap /\ AtMost(c4.misses + 1, MissCap) \in 0 .. MissCap
    BY <2>1 DEF AtMost, MissCap
  <2>3. c4.retried \in BOOLEAN /\ c4.timedOut \in BOOLEAN
    BY DEF TypeOK
  <2>4. /\ c4' = [wait |-> c4'.wait, misses |-> c4'.misses, retried |-> c4'.retried,
                  timedOut |-> c4'.timedOut]
        /\ c4'.wait \in {Off, c4.wait}
        /\ c4'.misses \in {0, c4.misses, AtMost(c4.misses + 1, MissCap)}
    BY DEF HostPoll, LinkUp
  <2>5. c4'.retried \in BOOLEAN /\ c4'.timedOut \in BOOLEAN
    BY <2>3 DEF HostPoll, LinkUp
  <2> QED
    BY <2>1, <2>2, <2>4, <2>5
<1>5. since' \in [good : 0 .. GraceLong + 1, latch : 0 .. LatchWindow + 1, ui : 0 .. UiBurst + 1]
  <2>1. /\ since' = [since EXCEPT !.latch = since'.latch, !.ui = since'.ui]
        /\ since'.latch \in {0, since.latch} /\ since'.ui \in {0, since.ui}
    BY DEF HostPoll, LinkUp, TypeOK
  <2>2. /\ since.latch \in 0 .. LatchWindow + 1 /\ 0 \in 0 .. LatchWindow + 1
        /\ since.ui \in 0 .. UiBurst + 1 /\ 0 \in 0 .. UiBurst + 1
    BY DurationAssumption DEF TypeOK
  <2>3. since'.latch \in 0 .. LatchWindow + 1 /\ since'.ui \in 0 .. UiBurst + 1
    BY ONLY <2>1, <2>2
  <2> QED
    BY <2>1, <2>3 DEF TypeOK
<1>6. unanswered' \in 0 .. MissCap
  <2>1. unanswered' \in {unanswered, AtMost(unanswered + 1, MissCap)}
    BY DEF HostPoll, LinkUp
  <2>2. AtMost(unanswered + 1, MissCap) \in 0 .. MissCap
    BY DEF TypeOK, AtMost, MissCap
  <2> QED
    BY <2>1, <2>2 DEF TypeOK
<1>7. polled' \in BOOLEAN
  BY DEF HostPoll, LinkUp
<1> QED
  BY <1>1, <1>2, <1>3, <1>4, <1>5, <1>6, <1>7 DEF HostPoll, LinkUp, TypeOK, LeftOk

\* The supervision starts out well typed.
LEMMA InitType == Init => TypeOK
<1> SUFFICES ASSUME Init PROVE TypeOK
  OBVIOUS
<1>1. queue \in Seq(Report) /\ seen \in SUBSET Evidence
  BY DEF Init
<1>2. c4 \in [wait : 0 .. Off, misses : 0 .. MissCap, retried : BOOLEAN, timedOut : BOOLEAN]
  BY DurationAssumption DEF Init, Off, MissCap
<1>3. since \in [good : 0 .. GraceLong + 1, latch : 0 .. LatchWindow + 1, ui : 0 .. UiBurst + 1]
  BY DurationAssumption DEF Init
<1>4. left \in [queries : 0 .. MaxQueries, pulses : 0 .. MaxPulses, ui : 0 .. MaxUi]
  BY BoundAssumption DEF Init
<1>5. unanswered \in 0 .. MissCap
  BY DEF Init, MissCap
<1> QED
  BY <1>1, <1>2, <1>3, <1>4, <1>5 DEF Init, TypeOK

\* The error-report deadline can be set to anything it may be set to.
LEMMA WaitType ==
    ASSUME TypeOK, NEW w \in 0 .. Off
    PROVE  [c4 EXCEPT !.wait = w] \in
              [wait : 0 .. Off, misses : 0 .. MissCap, retried : BOOLEAN, timedOut : BOOLEAN]
BY DEF TypeOK

\* What the CP takes off the link keeps every type.
LEMMA ReceiveType == TypeOK /\ Receive => TypeOK'
<1> SUFFICES ASSUME TypeOK, Receive PROVE TypeOK'
  OBVIOUS
<1>1. Head(queue) \in Report /\ queue' \in Seq(Report)
  BY TailReport DEF Receive, Closes, AlarmAfter, C4After, TypeOK
<1>2. seen' \in SUBSET Evidence
  BY <1>1, ReportKinds DEF Receive, Closes, AlarmAfter, C4After, TypeOK
<1>3. contract' \in BOOLEAN /\ alarm' \in [latched : BOOLEAN, cleared : BOOLEAN]
  BY DEF Receive, Closes, AlarmAfter, C4After, TypeOK
<1>4. c4' \in [wait : 0 .. Off, misses : 0 .. MissCap, retried : BOOLEAN, timedOut : BOOLEAN]
  <2>1. Off \in 0 .. Off /\ 0 \in 0 .. MissCap
    BY DurationAssumption DEF Off, MissCap
  <2>2. [c4 EXCEPT !.wait = Off, !.misses = 0, !.retried = FALSE]
          \in [wait : 0 .. Off, misses : 0 .. MissCap, retried : BOOLEAN, timedOut : BOOLEAN]
    BY <2>1 DEF TypeOK
  <2> QED
    BY <2>2 DEF Receive, Closes, AlarmAfter, C4After, TypeOK
<1>5. since' \in [good : 0 .. GraceLong + 1, latch : 0 .. LatchWindow + 1, ui : 0 .. UiBurst + 1]
  <2> 0 \in 0 .. GraceLong + 1
    BY DurationAssumption
  <2>1. [since EXCEPT !.good = 0] \in
           [good : 0 .. GraceLong + 1, latch : 0 .. LatchWindow + 1, ui : 0 .. UiBurst + 1]
    BY DEF TypeOK
  <2>2. since' \in {since, [since EXCEPT !.good = 0]}
    BY DEF Receive, Closes, AlarmAfter, C4After
  <2> QED
    BY <2>1, <2>2 DEF TypeOK
<1>6. unanswered' \in 0 .. MissCap
  BY DEF Receive, Closes, AlarmAfter, C4After, TypeOK, MissCap
<1> QED
  BY <1>1, <1>2, <1>3, <1>4, <1>5, <1>6 DEF Receive, Closes, AlarmAfter, C4After, TypeOK

\* Every step keeps every type.
LEMMA StepType == TypeOK /\ [Next]_vars => TypeOK'
<1> SUFFICES ASSUME TypeOK, [Next]_vars PROVE TypeOK'
  OBVIOUS
<1>1. ASSUME NEW r \in Replies, Query(r) PROVE TypeOK'
  <2>1. queue' \in Seq(Report)
    BY <1>1, AppendReport, ReportKinds DEF Query, TypeOK
  <2> QED
    BY <1>1, <2>1, AsksType DEF Query, TypeOK, LeftOk
<1>2. CASE QueryErrorReport
  <2>1. queue' \in Seq(Report)
    <3>1. queue \in Seq(Report) /\ Append(queue, "error") \in Seq(Report)
      BY AppendReport, ReportKinds DEF TypeOK
    <3>2. queue' \in {queue, Append(queue, "error")}
      BY <1>2 DEF QueryErrorReport
    <3> QED
      BY <3>1, <3>2
  <2>2. c4' \in [wait : 0 .. Off, misses : 0 .. MissCap, retried : BOOLEAN, timedOut : BOOLEAN]
    <3>1. C4Wait \in 0 .. Off /\ Off \in 0 .. Off
      BY DurationAssumption DEF Off
    <3>2. c4' \in {[c4 EXCEPT !.wait = C4Wait], [c4 EXCEPT !.wait = Off]}
      BY <1>2 DEF QueryErrorReport
    <3> QED
      BY <3>1, <3>2, WaitType
  <2> QED
    BY <1>2, <2>1, <2>2, AsksType DEF QueryErrorReport, TypeOK, LeftOk
<1>3. CASE Download
  <2>1. queue' \in Seq(Report)
    BY <1>3, ConcatReport DEF Download, TypeOK
  <2> QED
    BY <1>3, <2>1, AsksType DEF Download, TypeOK, LeftOk
<1>4. CASE Receive
  BY <1>4, ReceiveType
<1>5. CASE PwrFall
  <2>1. LeftOk'
    BY <1>5, LeftType DEF PwrFall, TypeOK, LeftOk
  <2> QED
    BY <1>5, <2>1 DEF PwrFall, TypeOK, LeftOk
<1>6. CASE PwrRise
  BY <1>6 DEF PwrRise, TypeOK
<1>7. ASSUME NEW flag \in {"seen", "diag"}, ShowNotResponding(flag) PROVE TypeOK'
  BY <1>7 DEF ShowNotResponding, TypeOK
<1>8. ASSUME NEW ladder \in BOOLEAN, NEW due \in BOOLEAN, NEW overdue \in BOOLEAN,
             Poll(ladder, due, overdue)
      PROVE  TypeOK'
  <2>1. LeftOk'
    BY <1>8 DEF Poll, TypeOK, LeftOk
  <2> QED
    BY <1>8, <2>1, HostPollType DEF Poll
<1>9. CASE PollWithUi
  <2>1. LeftOk'
    BY <1>9, LeftType DEF PollWithUi, TypeOK, LeftOk
  <2> QED
    BY <1>9, <2>1, HostPollType DEF PollWithUi
<1>10. CASE Tick
  <2>1. c4' \in [wait : 0 .. Off, misses : 0 .. MissCap, retried : BOOLEAN, timedOut : BOOLEAN]
    <3>1. /\ c4.wait \in 0 .. Off
          /\ c4.wait \notin {0, Off} => c4.wait - 1 \in 0 .. Off
      BY DurationAssumption, SMTT(40) DEF TypeOK, Off
    <3>2. c4' = [c4 EXCEPT !.wait = IF c4.wait \in {0, Off} THEN c4.wait ELSE c4.wait - 1]
      BY <1>10 DEF Tick
    <3> QED
      BY <3>1, <3>2, WaitType
  <2>2. since' \in [good : 0 .. GraceLong + 1, latch : 0 .. LatchWindow + 1,
                    ui : 0 .. UiBurst + 1]
    BY <1>10, OlderBound, DurationAssumption DEF Tick, TypeOK
  <2> QED
    BY <1>10, <2>1, <2>2 DEF Tick, TypeOK
<1>11. CASE UNCHANGED vars
  BY <1>11 DEF vars, TypeOK
<1> QED
  BY <1>1, <1>2, <1>3, <1>4, <1>5, <1>6, <1>7, <1>8, <1>9, <1>10, <1>11 DEF Next

\* The state always has the types TypeOK gives it.
THEOREM TypeCorrect == Spec => []TypeOK
BY InitType, StepType, PTL DEF Spec

-------------------------------------------------------------------------------
(***************************************************************************)
(* The health invariant                                                    *)
(***************************************************************************)

\* At reset no alarm, no contract, no miss.
LEMMA InitHealth == Init => HealthInv
BY DEF Init, HealthInv, AlarmExclusive, NoAlarmAfterContract, ContractEvidence, MissesReal

\* Taking a report: the contract closes only on its three pieces of evidence, and
\* closing it clears the alarm.
LEMMA ReceiveHealth == TypeOK /\ HealthInv /\ Receive => HealthInv'
<1> SUFFICES ASSUME TypeOK, HealthInv, Receive PROVE HealthInv'
  OBVIOUS
<1>1. AlarmExclusive'
  BY DEF Receive, Closes, AlarmAfter, C4After, HealthInv, AlarmExclusive
<1>2. NoAlarmAfterContract'
  BY DEF Receive, Closes, AlarmAfter, C4After, HealthInv, NoAlarmAfterContract, TypeOK
<1>3. ContractEvidence'
  BY DEF Receive, Closes, AlarmAfter, C4After, HealthInv, ContractEvidence, TypeOK
<1>4. MissesReal'
  <2>1. c4'.misses \in {0, c4.misses} /\ (Head(queue) # "error" => c4' = c4)
            /\ (Head(queue) = "error" => c4'.misses = 0)
    BY DEF Receive, Closes, AlarmAfter, C4After, TypeOK
  <2> QED
    BY <2>1 DEF Receive, Closes, AlarmAfter, C4After, HealthInv, MissesReal, TypeOK
<1> QED
  BY <1>1, <1>2, <1>3, <1>4 DEF HealthInv

\* The alarm is raised only with the contract open and a count at the threshold.
LEMMA HostPollAlarm ==
    ASSUME TypeOK, HealthInv, NEW ladder \in BOOLEAN, NEW due \in BOOLEAN,
           NEW overdue \in BOOLEAN, NEW ui \in BOOLEAN,
           HostPoll(ladder, due, overdue, ui)
    PROVE  /\ AlarmExclusive' /\ NoAlarmAfterContract'
           /\ alarm'.latched /\ ~alarm.latched =>
                 /\ Expired(KeepaliveRuns(enabled \/ ladder, due))
                 /\ c4.misses + 1 >= Threshold
                 /\ ~enabled' /\ ~bootSent'
BY DEF HostPoll, LinkUp, HealthInv, AlarmExclusive, NoAlarmAfterContract, ContractEvidence, TypeOK,
       Ready, RuntimeOk

\* A deadline counts as missed at most when it went unanswered.
LEMMA HostPollMisses ==
    ASSUME TypeOK, HealthInv, NEW ladder \in BOOLEAN, NEW due \in BOOLEAN,
           NEW overdue \in BOOLEAN, NEW ui \in BOOLEAN,
           HostPoll(ladder, due, overdue, ui)
    PROVE  MissesReal'
<1> DEFINE expired == Expired(KeepaliveRuns(enabled \/ ladder, due))
<1>1. c4.misses \in 0 .. 5 /\ unanswered \in 0 .. 5 /\ c4.misses <= unanswered
  BY DEF TypeOK, HealthInv, MissesReal, MissCap
<1>2. unanswered' = IF expired THEN AtMost(unanswered + 1, 5) ELSE unanswered
  BY DEF HostPoll, LinkUp, MissCap
<1>3. /\ c4'.misses \in {0, c4.misses, AtMost(c4.misses + 1, 5)}
      /\ ~expired => c4'.misses \in {0, c4.misses}
  BY DEF HostPoll, LinkUp, MissCap
<1> HIDE DEF expired
<1> QED
  BY <1>1, <1>2, <1>3 DEF MissesReal, AtMost

\* One HOST_POLL keeps the health invariant.
LEMMA HostPollHealth ==
    ASSUME TypeOK, HealthInv, NEW ladder \in BOOLEAN, NEW due \in BOOLEAN,
           NEW overdue \in BOOLEAN, NEW ui \in BOOLEAN,
           HostPoll(ladder, due, overdue, ui)
    PROVE  HealthInv'
<1>1. ContractEvidence'
  BY DEF HostPoll, LinkUp, HealthInv, ContractEvidence
<1> QED
  BY <1>1, HostPollAlarm, HostPollMisses DEF HealthInv

\* Every step keeps the health invariant.
LEMMA StepHealth == TypeOK /\ HealthInv /\ [Next]_vars => HealthInv'
<1> SUFFICES ASSUME TypeOK, HealthInv, [Next]_vars PROVE HealthInv'
  OBVIOUS
<1> USE DEF HealthInv, AlarmExclusive, NoAlarmAfterContract, ContractEvidence, MissesReal
<1>1. ASSUME NEW r \in Replies, Query(r) PROVE HealthInv'
  BY <1>1 DEF Query
<1>2. CASE QueryErrorReport
  <2>1. c4'.misses = c4.misses
    BY <1>2 DEF QueryErrorReport, TypeOK
  <2> QED
    BY <1>2, <2>1 DEF QueryErrorReport
<1>3. CASE Download
  BY <1>3 DEF Download
<1>4. CASE Receive
  BY <1>4, ReceiveHealth
<1>5. CASE PwrFall \/ PwrRise
  BY <1>5 DEF PwrFall, PwrRise
<1>6. ASSUME NEW flag \in {"seen", "diag"}, ShowNotResponding(flag) PROVE HealthInv'
  BY <1>6 DEF ShowNotResponding
<1>7. ASSUME NEW ladder \in BOOLEAN, NEW due \in BOOLEAN, NEW overdue \in BOOLEAN,
             Poll(ladder, due, overdue)
      PROVE  HealthInv'
  BY <1>7, HostPollHealth DEF Poll
<1>8. CASE PollWithUi
  BY <1>8, HostPollHealth DEF PollWithUi
<1>9. CASE Tick
  <2>1. c4'.misses = c4.misses
    BY <1>9 DEF Tick, TypeOK
  <2> QED
    BY <1>9, <2>1 DEF Tick
<1>10. CASE UNCHANGED vars
  BY <1>10 DEF vars
<1> QED
  BY <1>1, <1>2, <1>3, <1>4, <1>5, <1>6, <1>7, <1>8, <1>9, <1>10 DEF Next

\* The alarm excludes the contract: it can never latch again once the boot contract closed.
THEOREM HealthCorrect == Spec => [](AlarmExclusive /\ NoAlarmAfterContract)
<1>1. HealthInv => AlarmExclusive /\ NoAlarmAfterContract
  BY DEF HealthInv
<1> QED
  BY <1>1, InitType, StepType, InitHealth, StepHealth, PTL DEF Spec

\* A closed contract keeps the evidence it was closed on, which is what makes
\* csio_runtime_ok true for good.
THEOREM ContractKeepsEvidence == Spec => []ContractEvidence
<1>1. HealthInv => ContractEvidence
  BY DEF HealthInv
<1> QED
  BY <1>1, InitType, StepType, InitHealth, StepHealth, PTL DEF Spec

\* The watchdog counts no miss that was not a deadline left unanswered.
THEOREM MissesCounted == Spec => []MissesReal
<1>1. HealthInv => MissesReal
  BY DEF HealthInv
<1> QED
  BY <1>1, InitType, StepType, InitHealth, StepHealth, PTL DEF Spec

\* A step that raises the alarm leaves three deadlines unanswered behind it.
LEMMA AlarmNeedsThree ==
    ASSUME TypeOK, HealthInv, NEW ladder \in BOOLEAN, NEW due \in BOOLEAN,
           NEW overdue \in BOOLEAN, NEW ui \in BOOLEAN,
           HostPoll(ladder, due, overdue, ui), alarm'.latched, ~alarm.latched
    PROVE  unanswered' >= 3 /\ ~enabled' /\ ~bootSent'
<1>1. /\ Expired(KeepaliveRuns(enabled \/ ladder, due))
      /\ c4.misses + 1 >= Threshold
      /\ ~enabled' /\ ~bootSent'
  BY HostPollAlarm
<1>2. unanswered' = AtMost(unanswered + 1, 5)
  BY <1>1 DEF HostPoll, LinkUp, MissCap
<1>3. Threshold \in {3, 5}
  BY DEF Threshold
<1>4. c4.misses \in 0 .. 5 /\ unanswered \in 0 .. 5 /\ c4.misses <= unanswered
  BY DEF TypeOK, HealthInv, MissesReal, MissCap
<1> QED
  BY <1>1, <1>2, <1>3, <1>4 DEF AtMost

\* The alarm is raised by three unanswered deadlines and by nothing else, and with
\* it the TP is reset.
THEOREM AlarmJustified == Spec => AlarmRaised
<1>1. TypeOK /\ HealthInv /\ [Next]_vars
        => [alarm'.latched /\ ~alarm.latched => unanswered' >= 3 /\ ~enabled' /\ ~bootSent']_vars
  <2> SUFFICES ASSUME TypeOK, HealthInv, Next, alarm'.latched, ~alarm.latched
               PROVE  unanswered' >= 3 /\ ~enabled' /\ ~bootSent'
    OBVIOUS
  <2>1. CASE Receive
    BY <2>1 DEF Receive, Closes, AlarmAfter, C4After, TypeOK
  <2>2. ASSUME NEW ladder \in BOOLEAN, NEW due \in BOOLEAN, NEW overdue \in BOOLEAN,
               Poll(ladder, due, overdue)
        PROVE  unanswered' >= 3 /\ ~enabled' /\ ~bootSent'
    BY <2>2, AlarmNeedsThree DEF Poll
  <2>3. CASE PollWithUi
    BY <2>3, AlarmNeedsThree DEF PollWithUi
  <2>4. CASE \/ \E r \in Replies : Query(r)
             \/ QueryErrorReport \/ Download \/ PwrFall \/ PwrRise \/ Tick
             \/ \E flag \in {"seen", "diag"} : ShowNotResponding(flag)
    BY <2>4 DEF Query, QueryErrorReport, Download, PwrFall, PwrRise, Tick, ShowNotResponding
  <2> QED
    BY <2>1, <2>2, <2>3, <2>4 DEF Next
<1> QED
  BY <1>1, InitType, StepType, InitHealth, StepHealth, PTL DEF Spec, AlarmRaised
================================================================================
