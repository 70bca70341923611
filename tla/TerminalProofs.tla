----------------------------- MODULE TerminalProofs -----------------------------
(***************************************************************************)
(* Proofs about the terminal's other devices and about the terminal as a   *)
(* whole, for every value of their constants.  Each device gets an         *)
(* inductive invariant; the last section carries them to TerminalSpec.     *)
(***************************************************************************)
EXTENDS Terminal, DeviceProofs, NetworkProofs

-------------------------------------------------------------------------------
(* Ring alerter and data jack: what they promise is inductive with their types.  *)

RingType == ring \in [disabled : SUBSET DisableReasons, ringing : BOOLEAN, incoming : BOOLEAN,
                      abandoned : BOOLEAN, pulses : 0..MaxPulses]

RingInv == RingType /\ RingAnnounced

LEMMA RingInitInv == RingInit => RingInv
  BY PeripheralsAssumption DEF RingInit, RingInv, RingType, RingAnnounced

LEMMA RingStepInv == RingInv /\ [RingNext]_ring => RingInv'
<1> SUFFICES ASSUME RingInv, [RingNext]_ring PROVE RingInv'
  OBVIOUS
<1>0. /\ ring \in [disabled : SUBSET DisableReasons, ringing : BOOLEAN, incoming : BOOLEAN,
                   abandoned : BOOLEAN, pulses : 0..MaxPulses]
      /\ ring.pulses \in Nat /\ ring.pulses \in 0..MaxPulses /\ MaxPulses \in Nat
      /\ ring.incoming => ring.pulses > 0
  BY PeripheralsAssumption DEF RingInv, RingType, RingAnnounced
<1>1. CASE Disable
  BY <1>0, <1>1 DEF Disable, RingInv, RingType, RingAnnounced
<1>2. CASE Enable
  BY <1>0, <1>2 DEF Enable, RingInv, RingType, RingAnnounced
<1>3. CASE RingOn
  <2> DEFINE rung == ring.incoming \/ ring.disabled = {}
             n == ring.pulses + 1
  <2>1. rung \in BOOLEAN /\ n \in 0..MaxPulses /\ n > 0
    BY <1>0, <1>3 DEF RingOn
  <2>2. ring' = [ring EXCEPT !.ringing = TRUE, !.pulses = n, !.incoming = rung]
    BY <1>3 DEF RingOn
  <2> HIDE DEF rung, n
  <2> QED
    BY <1>0, <2>1, <2>2 DEF RingInv, RingType, RingAnnounced
<1>4. CASE RingEnds
  <2> DEFINE left == ring.abandoned \/ (ring.ringing /\ ring.disabled = {})
  <2>1. left \in BOOLEAN
    BY <1>0
  <2>2. ring' = [ring EXCEPT !.ringing = FALSE, !.abandoned = left]
    BY <1>4 DEF RingEnds
  <2> HIDE DEF left
  <2> QED
    BY <1>0, <2>1, <2>2 DEF RingInv, RingType, RingAnnounced
<1>5. CASE ClearEvents
  <2>1. 0 \in 0..MaxPulses
    BY <1>0
  <2> QED
    BY <1>0, <1>5, <2>1 DEF ClearEvents, RingInv, RingType, RingAnnounced
<1>6. CASE UNCHANGED ring
  BY <1>0, <1>6 DEF RingInv, RingType, RingAnnounced
<1> QED
  BY <1>1, <1>2, <1>3, <1>4, <1>5, <1>6 DEF RingNext

JackType == jack \in [state : JackStates, control : BOOLEAN, established : BOOLEAN,
                      session : BOOLEAN, pending : BOOLEAN]

JackInv == JackType /\ JackInStep

LEMMA JackInitInv == JackInit => JackInv
  BY DEF JackInit, JackIdle, JackInv, JackType, JackInStep, JackStates

LEMMA JackStepInv == JackInv /\ [JackNext]_jack => JackInv'
<1> USE DEF JackInv, JackType, JackInStep, JackStates, JackIdle
<1> SUFFICES ASSUME JackInv, [JackNext]_jack PROVE JackInv'
  OBVIOUS
<1>1. CASE DigitSignal
  BY <1>1 DEF DigitSignal
<1>2. CASE RelaySequenceComplete
  BY <1>2 DEF RelaySequenceComplete
<1>3. CASE DialingComplete
  BY <1>3 DEF DialingComplete
<1>4. CASE LaptopDrop
  BY <1>4 DEF LaptopDrop
<1>5. CASE SessionEstablished
  BY <1>5 DEF SessionEstablished
<1>6. CASE DelayExpired
  BY <1>6 DEF DelayExpired
<1>7. CASE UNCHANGED jack
  BY <1>7
<1> QED
  BY <1>1, <1>2, <1>3, <1>4, <1>5, <1>6, <1>7 DEF JackNext

-------------------------------------------------------------------------------
(* Alarm: since is the ticks of the delay and those of the tone.  *)

AlarmTiming == [delay : Nat, on : Nat, off : Nat, total : Nat]

AlarmState == [phase : {"off", "armed", "active"}, tone : BOOLEAN, relay : BOOLEAN, t : Nat,
               cadence : Nat, timing : AlarmTiming, since : Nat]

AlarmTimed(a) ==
    /\ a \in AlarmState
    /\ a.phase # "active" => ~a.tone /\ ~a.relay
    /\ a.phase = "armed" => a.since = a.t /\ (a.t = 0 \/ a.t < a.timing.delay)
    /\ a.phase = "active" =>
         /\ a.relay
         /\ a.since = a.t + (IF a.timing.delay = 0 THEN 1 ELSE a.timing.delay)
         /\ a.timing.total # 0 => a.t < a.timing.total

AlarmInv == AlarmTimed(alarm)

LEMMA IdleTimed == AlarmTimed(AlarmIdle)
  BY DEF AlarmTimed, AlarmIdle, AlarmState, AlarmTiming

LEMMA AlarmInitInv == AlarmInit => AlarmInv
  BY IdleTimed DEF AlarmInit, AlarmInv

LEMMA CancelledTimed == ASSUME NEW a \in AlarmState PROVE AlarmTimed(Cancelled(a))
  BY DEF AlarmTimed, Cancelled, AlarmState

LEMMA CadenceKeeps ==
    ASSUME NEW b \in AlarmState
    PROVE  /\ Cadence(b) \in AlarmState /\ Cadence(b).t = b.t /\ Cadence(b).since = b.since
           /\ Cadence(b).phase = b.phase /\ Cadence(b).relay = b.relay /\ Cadence(b).timing = b.timing
<1> DEFINE other == ~b.tone
           c == b.cadence + 1
           d == [b EXCEPT !.cadence = c]
           e == [b EXCEPT !.tone = other, !.cadence = 0]
<1>1. other \in BOOLEAN /\ c \in Nat /\ 0 \in Nat
  BY DEF AlarmState
<1>2. Cadence(b) \in {d, e}
  BY DEF Cadence
<1> HIDE DEF other, c
<1>3. d \in AlarmState /\ e \in AlarmState
  BY <1>1, Zenon DEF AlarmState
<1>4. /\ d.t = b.t /\ d.since = b.since /\ d.phase = b.phase /\ d.relay = b.relay /\ d.timing = b.timing
      /\ e.t = b.t /\ e.since = b.since /\ e.phase = b.phase /\ e.relay = b.relay /\ e.timing = b.timing
  BY DEF AlarmState
<1> HIDE DEF d, e
<1> QED
  BY <1>2, <1>3, <1>4

LEMMA AlarmStepInv == AlarmInv /\ [AlarmNext]_alarm => AlarmInv'
<1> SUFFICES ASSUME AlarmInv, [AlarmNext]_alarm PROVE AlarmInv'
  OBVIOUS
<1>0. /\ alarm \in AlarmState /\ alarm.t \in Nat /\ alarm.since \in Nat /\ alarm.cadence \in Nat
      /\ alarm.timing \in AlarmTiming /\ alarm.timing.delay \in Nat /\ alarm.timing.total \in Nat
      /\ alarm.timing.on \in Nat /\ alarm.timing.off \in Nat /\ alarm.tone \in BOOLEAN
      /\ alarm.phase \in {"off", "armed", "active"}
  BY DEF AlarmInv, AlarmTimed, AlarmState, AlarmTiming
<1>1. CASE StartAlarm
  <2>1. PICK timing \in AlarmTimings : alarm' = [AlarmIdle EXCEPT !.phase = "armed", !.timing = timing]
    BY <1>1 DEF StartAlarm
  <2>2. timing \in AlarmTiming
    BY PeripheralsAssumption DEF AlarmTiming
  <2> QED
    BY <2>1, <2>2 DEF AlarmIdle, AlarmInv, AlarmTimed, AlarmState
<1>2. CASE CancelAlarm
  BY <1>0, <1>2, CancelledTimed DEF CancelAlarm, AlarmInv
<1>3. CASE Tick
  <2> DEFINE a == [alarm EXCEPT !.since = @ + 1]
             base == IF alarm.timing.delay = 0 THEN 1 ELSE alarm.timing.delay
  <2>1. /\ a \in AlarmState /\ a.since = alarm.since + 1 /\ a.t = alarm.t /\ a.phase = alarm.phase
        /\ a.tone = alarm.tone /\ a.relay = alarm.relay /\ a.cadence = alarm.cadence
        /\ a.timing = alarm.timing
    BY <1>0 DEF AlarmState
  <2>2. alarm' = IF a.phase = "armed" THEN Armed(a) ELSE Sounding(a)
    BY <1>3 DEF Tick
  <2>3. alarm.phase # "off"
    BY <1>3 DEF Tick
  <2> HIDE DEF a
  <2>4. CASE alarm.phase = "armed"
    <3>1. alarm.since = alarm.t /\ (alarm.t = 0 \/ alarm.t < alarm.timing.delay)
          /\ ~alarm.tone /\ ~alarm.relay
      BY <2>4 DEF AlarmInv, AlarmTimed
    <3>2. CASE a.t + 1 < a.timing.delay
      <4> DEFINE b == [a EXCEPT !.t = @ + 1]
      <4>1. /\ b \in AlarmState /\ b.t = a.t + 1 /\ b.since = a.since /\ b.phase = a.phase
            /\ b.tone = a.tone /\ b.relay = a.relay /\ b.timing = a.timing
        BY <1>0, <2>1 DEF AlarmState
      <4>2. alarm' = b
        BY <2>1, <2>2, <2>4, <3>2 DEF Armed
      <4> HIDE DEF b
      <4> QED
        BY <1>0, <2>1, <2>4, <3>1, <3>2, <4>1, <4>2 DEF AlarmInv, AlarmTimed
    <3>3. CASE ~(a.t + 1 < a.timing.delay)
      <4> DEFINE b == [a EXCEPT !.phase = "active", !.tone = TRUE, !.relay = TRUE, !.t = 0, !.cadence = 0]
      <4>1. /\ b \in AlarmState /\ b.t = 0 /\ b.since = a.since /\ b.phase = "active"
            /\ b.relay /\ b.timing = a.timing
        BY <2>1 DEF AlarmState
      <4>2. alarm' = b
        BY <2>1, <2>2, <2>4, <3>3 DEF Armed
      <4>3. alarm.since + 1 = 0 + base
        BY <1>0, <2>1, <3>1, <3>3
      <4>4. alarm.timing.total # 0 => 0 < alarm.timing.total
        BY <1>0
      <4> HIDE DEF b
      <4> QED
        BY <1>0, <2>1, <4>1, <4>2, <4>3, <4>4 DEF AlarmInv, AlarmTimed
    <3> QED
      BY <3>2, <3>3
  <2>5. CASE alarm.phase = "active"
    <3> DEFINE b == [a EXCEPT !.t = @ + 1]
    <3>1. alarm.relay /\ alarm.since = alarm.t + base
      BY <2>5 DEF AlarmInv, AlarmTimed
    <3>2. /\ b \in AlarmState /\ b.t = a.t + 1 /\ b.since = a.since /\ b.phase = a.phase
          /\ b.tone = a.tone /\ b.relay = a.relay /\ b.timing = a.timing /\ b.cadence = a.cadence
      BY <1>0, <2>1 DEF AlarmState
    <3>4. alarm' = IF a.timing.total # 0 /\ b.t >= a.timing.total THEN Cancelled(b) ELSE Cadence(b)
      BY <2>1, <2>2, <2>5 DEF Sounding
    <3> HIDE DEF b
    <3>5. CASE a.timing.total # 0 /\ b.t >= a.timing.total
      BY <3>2, <3>4, <3>5, CancelledTimed DEF AlarmInv
    <3>6. CASE ~(a.timing.total # 0 /\ b.t >= a.timing.total)
      <4>1. /\ Cadence(b) \in AlarmState /\ Cadence(b).t = b.t /\ Cadence(b).since = b.since
            /\ Cadence(b).phase = b.phase /\ Cadence(b).relay = b.relay /\ Cadence(b).timing = b.timing
        BY <3>2, CadenceKeeps
      <4>2. b.since = b.t + base
        BY <1>0, <2>1, <3>1, <3>2
      <4>3. b.timing.total # 0 => b.t < b.timing.total
        BY <1>0, <2>1, <3>2, <3>6
      <4> QED
        BY <2>1, <2>5, <3>1, <3>2, <3>4, <3>6, <4>1, <4>2, <4>3 DEF AlarmInv, AlarmTimed
    <3> QED
      BY <3>5, <3>6
  <2> QED
    BY <1>0, <2>3, <2>4, <2>5
<1>4. CASE UNCHANGED alarm
  BY <1>4 DEF AlarmInv
<1> QED
  BY <1>1, <1>2, <1>3, <1>4 DEF AlarmNext

LEMMA AlarmInvImplies == AlarmInv => CardAlarmTimely
<1> SUFFICES ASSUME AlarmInv PROVE CardAlarmTimely
  OBVIOUS
<1>1. /\ alarm.t \in Nat /\ alarm.since \in Nat /\ alarm.timing.delay \in Nat
      /\ alarm.timing.total \in Nat
  BY DEF AlarmInv, AlarmTimed, AlarmState, AlarmTiming
<1> QED
  BY <1>1 DEF AlarmInv, AlarmTimed, CardAlarmTimely

-------------------------------------------------------------------------------
(* Cash box: the sequence number and the history count together.  *)

CashboxInv ==
    /\ cashbox \in [box : Boxes \cup {NoBox}, seq : 0..MaxCommits,
                    status : SUBSET {"new_status", "new_box", "log_request"}, counted : 0..MaxCommits]
    /\ CollectionsCounted
    /\ cashbox.box = NoBox => cashbox.seq = 0
    /\ cashbox.box # NoBox => cashbox.seq > 0

LEMMA CashboxInitInv == CashboxInit => CashboxInv
  BY PeripheralsAssumption DEF CashboxInit, CashboxInv, CollectionsCounted

LEMMA CashboxStepInv == CashboxInv /\ [CashboxNext]_cashbox => CashboxInv'
<1> SUFFICES ASSUME CashboxInv, [CashboxNext]_cashbox PROVE CashboxInv'
  OBVIOUS
<1>0. /\ cashbox.box \in Boxes \cup {NoBox} /\ cashbox.seq \in Nat /\ cashbox.seq \in 0..MaxCommits
      /\ cashbox.counted = cashbox.seq /\ MaxCommits \in Nat
      /\ NoBox \notin Boxes
  BY PeripheralsAssumption DEF NoBox, CashboxInv, CollectionsCounted
<1>1. ASSUME NEW box \in Boxes, NEW upload \in BOOLEAN,
             LET fresh == cashbox.box # box
                 seq   == IF fresh THEN 1 ELSE cashbox.seq + 1
             IN /\ seq <= MaxCommits
                /\ cashbox' = [box |-> box, seq |-> seq,
                               status |-> {"new_status"} \cup (IF fresh THEN {"new_box"} ELSE {})
                                          \cup (IF upload THEN {"log_request"} ELSE {}),
                               counted |-> IF box = cashbox.box THEN cashbox.counted + 1 ELSE 1]
      PROVE  CashboxInv'
  <2> DEFINE fresh == cashbox.box # box
             seq   == IF fresh THEN 1 ELSE cashbox.seq + 1
             status == {"new_status"} \cup (IF fresh THEN {"new_box"} ELSE {})
                       \cup (IF upload THEN {"log_request"} ELSE {})
  <2>1. /\ cashbox'.box = box /\ cashbox'.seq = seq /\ cashbox'.status = status /\ cashbox'.counted = seq
        /\ cashbox' = [box |-> box, seq |-> seq, status |-> status, counted |-> seq]
    BY <1>0, <1>1
  <2>2. seq \in 0..MaxCommits /\ seq > 0
    BY <1>0, <1>1
  <2>3. status \in SUBSET {"new_status", "new_box", "log_request"} /\ ("new_box" \in status <=> fresh)
    OBVIOUS
  <2>4. fresh <=> seq = 1
    BY <1>0, <1>1 DEF CashboxInv
  <2> HIDE DEF seq, status, fresh
  <2> QED
    BY <1>0, <2>1, <2>2, <2>3, <2>4 DEF CashboxInv, CollectionsCounted
<1>2. CASE UNCHANGED cashbox
  BY <1>2 DEF CashboxInv, CollectionsCounted
<1> QED
  BY <1>1, <1>2 DEF CashboxNext, CommitRecord

-------------------------------------------------------------------------------
(* Health of the peripherals.  *)

HealthState == [misses : 0..MaxSamples, telAlarm : BOOLEAN, faults : 0..MaxSamples,
                recovers : 0..MaxSamples, coinAlarm : BOOLEAN, blocked : 0..MaxSamples,
                clears : 0..MaxSamples, cardAlarm : BOOLEAN, owner : Owners,
                evidence : 0..MaxSamples]

\* The count the two sources share is the history they share.
PeriphHealthInv == health \in HealthState /\ AlarmsEarned /\ health.blocked = health.evidence

LEMMA PeriphHealthInitInv == PeripheralsHealthInit => PeriphHealthInv
<1>1. 0 \in 0..MaxSamples
  BY PeripheralsAssumption
<1> QED
  BY <1>1 DEF PeripheralsHealthInit, Healthy, PeriphHealthInv, HealthState, AlarmsEarned, Owners

LEMMA CappedType ==
    ASSUME NEW n \in 0..MaxSamples
    PROVE  /\ Capped(n) \in 0..MaxSamples /\ 0 \in 0..MaxSamples
           /\ Capped(n) >= 3 <=> n >= 3 \/ n + 1 >= 3
           /\ n \in Nat /\ Capped(n) # 0
  BY PeripheralsAssumption DEF Capped

LEMMA PeriphHealthStepInv ==
    PeriphHealthInv /\ [PeripheralsHealthNext]_health => PeriphHealthInv'
<1> SUFFICES ASSUME PeriphHealthInv, [PeripheralsHealthNext]_health PROVE PeriphHealthInv'
  OBVIOUS
<1> DEFINE C == 0..MaxSamples
<1>0. /\ health \in HealthState /\ 0 \in C
      /\ health.misses \in C /\ health.faults \in C /\ health.recovers \in C
      /\ health.blocked \in C /\ health.clears \in C /\ health.evidence \in C
      /\ health.telAlarm \in BOOLEAN /\ health.coinAlarm \in BOOLEAN /\ health.cardAlarm \in BOOLEAN
      /\ health.telAlarm <=> health.misses >= 3
      /\ health.cardAlarm <=> health.evidence >= 3
      /\ health.faults = 0 \/ health.recovers = 0
      /\ health.blocked = health.evidence
  BY CappedType DEF PeriphHealthInv, HealthState, AlarmsEarned
<1>c. \A n \in C : Capped(n) \in C /\ (Capped(n) >= 3 <=> n >= 3 \/ n + 1 >= 3) /\ ~(0 >= 3)
  BY CappedType
<1> HIDE DEF C
<1>1. ASSUME NEW misses \in C, NEW alarmed \in BOOLEAN, alarmed <=> misses >= 3,
             health' = [health EXCEPT !.misses = misses, !.telAlarm = alarmed]
      PROVE  PeriphHealthInv'
  BY <1>0, <1>1 DEF PeriphHealthInv, HealthState, AlarmsEarned, C
<1>2. ASSUME NEW faults \in C, NEW recovers \in C, NEW alarmed \in BOOLEAN, faults = 0 \/ recovers = 0,
             health' = [health EXCEPT !.faults = faults, !.recovers = recovers, !.coinAlarm = alarmed]
      PROVE  PeriphHealthInv'
  BY <1>0, <1>2 DEF PeriphHealthInv, HealthState, AlarmsEarned, C
<1>3. ASSUME NEW n \in C, NEW clears \in C, NEW alarmed \in BOOLEAN, alarmed <=> n >= 3,
             health' = [health EXCEPT !.blocked = n, !.cardAlarm = alarmed, !.evidence = n, !.clears = clears]
      PROVE  PeriphHealthInv'
  BY <1>0, <1>3 DEF PeriphHealthInv, HealthState, AlarmsEarned, C
<1>4. ASSUME NEW o \in Owners, health' = [health EXCEPT !.owner = o]
      PROVE  PeriphHealthInv'
  BY <1>0, <1>4 DEF PeriphHealthInv, HealthState, AlarmsEarned
<1>5. CASE TelephonyAlive
  <2> DEFINE alarmed == health.telAlarm \/ health.misses + 1 >= 3
  <2>1. alarmed \in BOOLEAN /\ (alarmed <=> Capped(health.misses) >= 3)
    BY <1>0, <1>c
  <2>2. \/ health' = [health EXCEPT !.misses = 0, !.telAlarm = FALSE]
        \/ health' = [health EXCEPT !.misses = Capped(health.misses), !.telAlarm = alarmed]
    BY <1>5 DEF TelephonyAlive
  <2> HIDE DEF alarmed
  <2> QED
    BY <1>0, <1>c, <1>1, <2>1, <2>2
<1>6. CASE CoinAlive
  <2>1. PICK ok \in BOOLEAN : health' = [health EXCEPT !.coinAlarm = ~ok]
    BY <1>6 DEF CoinAlive
  <2> DEFINE alarmed == ~ok
  <2>2. alarmed \in BOOLEAN /\ health' = [health EXCEPT !.coinAlarm = alarmed]
    BY <2>1
  <2> HIDE DEF alarmed
  <2> QED
    BY <1>0, <2>2 DEF PeriphHealthInv, HealthState, AlarmsEarned
<1>7. CASE CoinSample
  <2> DEFINE set == health.coinAlarm \/ health.faults + 1 >= 2
             kept == health.coinAlarm /\ health.recovers + 1 < 2
  <2>1. set \in BOOLEAN /\ kept \in BOOLEAN
    BY <1>0
  <2>2. \/ health' = [health EXCEPT !.faults = Capped(health.faults), !.recovers = 0, !.coinAlarm = set]
        \/ health' = [health EXCEPT !.faults = 0, !.recovers = Capped(health.recovers), !.coinAlarm = kept]
    BY <1>7 DEF CoinSample
  <2> HIDE DEF set, kept
  <2> QED
    BY <1>0, <1>c, <1>2, <2>1, <2>2
<1> DEFINE blocked == Capped(health.blocked)
           alarmed == health.cardAlarm \/ health.blocked + 1 >= 3
<1>8. /\ blocked \in C /\ alarmed \in BOOLEAN /\ (alarmed <=> blocked >= 3)
      /\ Blocked(health) = [health EXCEPT !.blocked = blocked, !.cardAlarm = alarmed, !.evidence = blocked]
      /\ Capped(health.clears) \in C
  BY <1>0, <1>c DEF Blocked
<1> HIDE DEF blocked, alarmed
<1>9. ASSUME health' = [health EXCEPT !.blocked = blocked, !.cardAlarm = alarmed, !.evidence = blocked]
      PROVE  PeriphHealthInv'
  BY <1>0, <1>8, <1>9 DEF PeriphHealthInv, HealthState, AlarmsEarned, C
<1>10. ASSUME health' = [health EXCEPT !.blocked = 0, !.cardAlarm = FALSE, !.evidence = 0]
       PROVE  PeriphHealthInv'
  BY <1>0, <1>c, <1>10 DEF PeriphHealthInv, HealthState, AlarmsEarned, C
<1>11. CASE CardSensor
  BY <1>8, <1>9, <1>10, <1>11 DEF CardSensor, Unblocked
<1>12. CASE CardSample
  <2> DEFINE clears == Capped(health.clears)
             h == [health EXCEPT !.clears = clears]
  <2>1. clears \in C
    BY <1>8
  <2>2. \/ health' = [Blocked(health) EXCEPT !.clears = 0]
        \/ health' = [h EXCEPT !.blocked = 0, !.cardAlarm = FALSE, !.evidence = 0]
        \/ health' = h
    BY <1>12 DEF CardSample, Unblocked
  <2> HIDE DEF clears
  <2>3. CASE health' = [Blocked(health) EXCEPT !.clears = 0]
    <3>1. health' = [health EXCEPT !.blocked = blocked, !.cardAlarm = alarmed, !.evidence = blocked, !.clears = 0]
      BY <1>0, <1>8, <2>3 DEF HealthState
    <3> QED
      BY <1>0, <1>3, <1>8, <3>1
  <2>4. CASE health' = [h EXCEPT !.blocked = 0, !.cardAlarm = FALSE, !.evidence = 0]
    <3>1. health' = [health EXCEPT !.blocked = 0, !.cardAlarm = FALSE, !.evidence = 0, !.clears = clears]
      BY <1>0, <2>1, <2>4 DEF HealthState
    <3> QED
      BY <1>0, <1>c, <1>3, <2>1, <3>1
  <2>5. CASE health' = h
    BY <1>0, <2>1, <2>5 DEF PeriphHealthInv, HealthState, AlarmsEarned, C
  <2> QED
    BY <2>2, <2>3, <2>4, <2>5
<1>13. CASE RequestOwner \/ ForceSupervision \/ ReleaseOwner
  BY <1>4, <1>13 DEF RequestOwner, ForceSupervision, ReleaseOwner, Owners
<1>14. CASE UNCHANGED health
  BY <1>14 DEF PeriphHealthInv, AlarmsEarned
<1> QED
  BY <1>5, <1>6, <1>7, <1>11, <1>12, <1>13, <1>14 DEF PeripheralsHealthNext

-------------------------------------------------------------------------------
(* Parameter memory: the checksum of a payload, and of one that differs in one octet.  *)

OctetPayloads == [1..PayloadSize -> Octet]

LEMMA ChecksumRun ==
    ASSUME NEW p \in OctetPayloads
    PROVE  \E x \in [0..PayloadSize -> Octet] :
              /\ x[0] = 0
              /\ \A i \in 1..PayloadSize : x[i] = XorByte(x[i - 1], p[i])
              /\ Checksum(p) = x[PayloadSize]
<1> DEFINE Sums(h) == h = [i \in 0..PayloadSize |-> IF i = 0 THEN 0 ELSE XorByte(h[i - 1], p[i])]
           x == CHOOSE h : Sums(h)
           step == [i \in 1..PayloadSize |-> [s \in Octet |-> XorByte(s, p[i])]]
<1>1. PayloadSize \in Nat \ {0} /\ 0 \in Octet /\ \A i \in 1..PayloadSize : p[i] \in Octet
  BY PeripheralsAssumption DEF OctetPayloads, Octet
<1>2. \A s \in Octet, i \in 1..PayloadSize : step[i][s] \in Octet /\ step[i][s] = XorByte(s, p[i])
  BY <1>1, XorType
<1>3. PICK g : IsRun(g, step, 0, PayloadSize, Octet)
  <2>1. StepsWithin(step, PayloadSize, Octet)
    BY <1>2 DEF StepsWithin
  <2> HIDE DEF step
  <2> QED
    BY <1>1, <2>1, Iterated
<1>4. \A i \in 1..PayloadSize : i - 1 \in 0..PayloadSize /\ i \in 0..PayloadSize /\ i # 0
  BY <1>1
<1>5. \A i \in 0..PayloadSize : g[i] = IF i = 0 THEN 0 ELSE XorByte(g[i - 1], p[i])
  <2>1. /\ g \in [0..PayloadSize -> Octet] /\ g[0] = 0
        /\ \A i \in 1..PayloadSize : g[i] = step[i][g[i - 1]]
    <3> HIDE DEF step
    <3> QED
      BY <1>3 DEF IsRun
  <2> SUFFICES ASSUME NEW i \in 0..PayloadSize, i # 0 PROVE g[i] = XorByte(g[i - 1], p[i])
    BY <2>1
  <2>2. i \in 1..PayloadSize /\ g[i - 1] \in Octet
    BY <1>1, <2>1
  <2> HIDE DEF step
  <2> QED
    BY <1>2, <2>1, <2>2
<1>6. Sums(g)
  <2>1. g \in [0..PayloadSize -> Octet]
    BY <1>3 DEF IsRun
  <2>2. g = [i \in 0..PayloadSize |-> g[i]]
    BY <2>1
  <2> QED
    BY <1>5, <2>2
<1>7. Sums(x)
  BY <1>6
<1>8. Checksum(p) = x[PayloadSize]
  BY DEF Checksum
<1> HIDE DEF x
<1>9. x[0] = 0 /\ \A i \in 1..PayloadSize : x[i] = XorByte(x[i - 1], p[i])
  BY <1>1, <1>4, <1>7
<1> DEFINE T == {i \in 0..PayloadSize : x[i] \in Octet}
<1>10. 0 \in T
  BY <1>1, <1>9
<1>11. \A i \in 1..PayloadSize : i - 1 \in T => i \in T
  BY <1>1, <1>4, <1>9, XorType
<1>12. \A i \in 0..PayloadSize : i \in T
  <2> HIDE DEF T
  <2> QED
    BY <1>1, <1>10, <1>11, UpTo
<1>13. x \in [0..PayloadSize -> Octet]
  BY <1>7, <1>12
<1> QED
  BY <1>8, <1>9, <1>13

LEMMA ChecksumType == ASSUME NEW p \in OctetPayloads PROVE Checksum(p) \in Octet
  BY ChecksumRun, PeripheralsAssumption

LEMMA ChecksumTells ==
    ASSUME NEW p \in OctetPayloads, NEW q \in OctetPayloads, NEW k \in 1..PayloadSize,
           p[k] # q[k], \A i \in 1..PayloadSize : i # k => p[i] = q[i]
    PROVE  Checksum(p) # Checksum(q)
<1>1. PICK x \in [0..PayloadSize -> Octet] :
         /\ x[0] = 0
         /\ \A i \in 1..PayloadSize : x[i] = XorByte(x[i - 1], p[i])
         /\ Checksum(p) = x[PayloadSize]
  BY ChecksumRun
<1>2. PICK y \in [0..PayloadSize -> Octet] :
         /\ y[0] = 0
         /\ \A i \in 1..PayloadSize : y[i] = XorByte(y[i - 1], q[i])
         /\ Checksum(q) = y[PayloadSize]
  BY ChecksumRun
<1> DEFINE T == {i \in 0..PayloadSize : IF i < k THEN x[i] = y[i] ELSE x[i] # y[i]}
<1>3. PayloadSize \in Nat \ {0} /\ k \in Nat /\ k > 0 /\ PayloadSize >= k
  BY PeripheralsAssumption
<1>4. 0 \in T
  BY <1>1, <1>2, <1>3
<1>5. ASSUME NEW i \in 1..PayloadSize, i - 1 \in T
      PROVE  i \in T
  <2>1. /\ i \in 0..PayloadSize /\ i \in Nat /\ i - 1 \in 0..PayloadSize
        /\ x[i] = XorByte(x[i - 1], p[i]) /\ y[i] = XorByte(y[i - 1], q[i])
        /\ x[i - 1] \in Octet /\ y[i - 1] \in Octet /\ p[i] \in Octet /\ q[i] \in Octet
    BY <1>1, <1>2, <1>3 DEF OctetPayloads
  <2>2. CASE i < k
    <3>1. x[i - 1] = y[i - 1] /\ p[i] = q[i]
      BY <1>3, <1>5, <2>1, <2>2
    <3> QED
      BY <2>1, <2>2, <3>1
  <2>3. CASE i = k
    <3>1. x[i - 1] = y[i - 1] /\ p[i] # q[i]
      BY <1>3, <1>5, <2>1, <2>3
    <3>2. x[i] # y[i]
      BY <2>1, <3>1, XorCancels, XorSwaps
    <3> QED
      BY <1>3, <2>1, <2>3, <3>2
  <2>4. CASE i > k
    <3>1. x[i - 1] # y[i - 1] /\ p[i] = q[i]
      BY <1>3, <1>5, <2>1, <2>4
    <3>2. x[i] # y[i]
      BY <2>1, <3>1, XorCancels
    <3> QED
      BY <1>3, <2>1, <2>4, <3>2
  <2> QED
    BY <1>3, <2>1, <2>2, <2>3, <2>4
<1>6. PayloadSize \in T
  <2> HIDE DEF T
  <2>1. \A i \in 0..PayloadSize : i \in T
    BY <1>3, <1>4, <1>5, UpTo
  <2> QED
    BY <1>3, <2>1
<1> QED
  BY <1>1, <1>2, <1>3, <1>6

MemoryInv ==
    /\ memory \in [octets : [Offsets -> Octet], wrote : [Offsets -> Payloads \cup {NoPayload}]]
    /\ \A o \in Offsets : memory.wrote[o] # NoPayload => RecordFits(o, PayloadSize + 1)

LEMMA PayloadsType == ASSUME NEW p \in Payloads PROVE p \in OctetPayloads /\ p # NoPayload
<1>1. p \in OctetPayloads
  BY PeripheralsAssumption DEF Payloads, OctetPayloads, Octet
<1>2. 1 \in 1..PayloadSize
  BY PeripheralsAssumption
<1>3. p[1] \in Octet
  BY <1>1, <1>2 DEF OctetPayloads
<1>4. NoPayload[1] = 256 /\ 256 \notin Octet
  BY <1>2 DEF NoPayload, Octet
<1> QED
  BY <1>1, <1>3, <1>4

LEMMA MemoryInitInv == MemoryInit => MemoryInv
<1> SUFFICES ASSUME MemoryInit PROVE MemoryInv
  OBVIOUS
<1>1. 0 \in Octet
  BY DEF Octet
<1> QED
  BY <1>1 DEF MemoryInit, MemoryInv

LEMMA MemoryStepInv == MemoryInv /\ [MemoryNext]_memory => MemoryInv'
<1> SUFFICES ASSUME MemoryInv, [MemoryNext]_memory PROVE MemoryInv'
  OBVIOUS
<1>0. memory.octets \in [Offsets -> Octet] /\ memory.wrote \in [Offsets -> Payloads \cup {NoPayload}]
  BY DEF MemoryInv
<1>1. ASSUME NEW offset \in Offsets, NEW p \in Payloads, RecordFits(offset, PayloadSize + 1),
             memory' = [octets |-> [o \in Offsets |-> IF o \in offset..(offset + PayloadSize)
                                                      THEN Framed(p)[o - offset + 1] ELSE memory.octets[o]],
                        wrote |-> [memory.wrote EXCEPT ![offset] = p]]
      PROVE  MemoryInv'
  <2> DEFINE octets == [o \in Offsets |-> IF o \in offset..(offset + PayloadSize)
                                          THEN Framed(p)[o - offset + 1] ELSE memory.octets[o]]
             wrote == [memory.wrote EXCEPT ![offset] = p]
  <2>1. \A i \in 1..(PayloadSize + 1) : Framed(p)[i] \in Octet
    BY PayloadsType, ChecksumType, PeripheralsAssumption DEF Framed, OctetPayloads
  <2>2. octets \in [Offsets -> Octet]
    <3> SUFFICES ASSUME NEW o \in Offsets, o \in offset..(offset + PayloadSize)
                 PROVE  Framed(p)[o - offset + 1] \in Octet
      BY <1>0
    <3>1. o - offset + 1 \in 1..(PayloadSize + 1)
      BY PeripheralsAssumption DEF Offsets
    <3> QED
      BY <2>1, <3>1
  <2>3. wrote \in [Offsets -> Payloads \cup {NoPayload}]
    BY <1>0
  <2>4. memory'.octets = octets /\ memory'.wrote = wrote /\ memory' = [octets |-> octets, wrote |-> wrote]
    BY <1>1
  <2>5. \A o \in Offsets : wrote[o] # NoPayload => RecordFits(o, PayloadSize + 1)
    BY <1>0, <1>1 DEF MemoryInv
  <2> HIDE DEF octets, wrote
  <2> QED
    BY <2>2, <2>3, <2>4, <2>5 DEF MemoryInv
<1>2. ASSUME NEW offset \in Offsets, NEW b \in MemoryOctets, memory' = [memory EXCEPT !.octets[offset] = b]
      PROVE  MemoryInv'
  <2>1. b \in Octet
    BY PeripheralsAssumption DEF Octet
  <2>2. memory' = [memory EXCEPT !.octets = [@ EXCEPT ![offset] = b]]
    BY <1>0, <1>2 DEF MemoryInv
  <2> QED
    BY <1>0, <2>1, <2>2 DEF MemoryInv
<1>3. CASE UNCHANGED memory
  BY <1>3 DEF MemoryInv
<1> QED
  BY <1>1, <1>2, <1>3 DEF MemoryNext, WriteRecord, WriteOctet

LEMMA MemoryInvImplies == MemoryInv => RecordsChecked
<1> SUFFICES ASSUME MemoryInv, NEW o \in Offsets, memory.wrote[o] # NoPayload
             PROVE  /\ SpoiltOctets(o) = {} => ReadRecord(o) = memory.wrote[o]
                    /\ Cardinality(SpoiltOctets(o)) = 1 => ReadRecord(o) = NoPayload
  BY DEF RecordsChecked
<1> DEFINE p == memory.wrote[o]
           q == [i \in 1..PayloadSize |-> memory.octets[o + i - 1]]
<1>1. /\ p \in Payloads /\ p \in OctetPayloads /\ p # NoPayload /\ RecordFits(o, PayloadSize + 1)
      /\ memory.octets \in [Offsets -> Octet] /\ PayloadSize \in Nat \ {0} /\ o \in Nat
  BY PayloadsType, PeripheralsAssumption DEF MemoryInv, Offsets
<1>2. \A i \in 0..PayloadSize : o + i \in Offsets
  BY <1>1, PeripheralsAssumption DEF RecordFits, Offsets
<1>3. q \in OctetPayloads /\ \A i \in 1..PayloadSize : q[i] = memory.octets[o + (i - 1)]
  <2>1. \A i \in 1..PayloadSize : i - 1 \in 0..PayloadSize /\ o + i - 1 = o + (i - 1)
    BY <1>1
  <2> QED
    BY <1>1, <1>2, <2>1 DEF OctetPayloads
<1>4. ReadRecord(o) = IF Checksum(q) = memory.octets[o + PayloadSize] THEN q ELSE NoPayload
  BY <1>1 DEF ReadRecord
<1>5. /\ \A i \in 1..PayloadSize : Framed(p)[i] = p[i]
      /\ Framed(p)[PayloadSize + 1] = Checksum(p)
  BY <1>1 DEF Framed
<1> HIDE DEF p, q
<1>6. SpoiltOctets(o) = {i \in 0..PayloadSize : memory.octets[o + i] # Framed(p)[i + 1]}
  BY DEF SpoiltOctets, p
<1>7. \A i \in 1..PayloadSize : q[i] = p[i] <=> i - 1 \notin SpoiltOctets(o)
  BY <1>1, <1>3, <1>5, <1>6
<1>8. memory.octets[o + PayloadSize] = Checksum(p) <=> PayloadSize \notin SpoiltOctets(o)
  BY <1>1, <1>5, <1>6
<1>9. ASSUME SpoiltOctets(o) = {}
      PROVE  ReadRecord(o) = memory.wrote[o]
  <2>1. q = p
    BY <1>1, <1>3, <1>7, <1>9 DEF OctetPayloads
  <2> QED
    BY <1>4, <1>8, <1>9, <2>1 DEF p
<1>10. ASSUME Cardinality(SpoiltOctets(o)) = 1
       PROVE  ReadRecord(o) = NoPayload
  <2>1. PICK k : SpoiltOctets(o) = {k}
    <3>1. IsFiniteSet(0..PayloadSize)
      BY <1>1, FS_Interval
    <3>2. IsFiniteSet(SpoiltOctets(o))
      BY <1>6, <3>1, FS_Subset
    <3> QED
      BY <1>10, <3>2, FS_Singleton
  <2>2. k \in 0..PayloadSize
    BY <1>6, <2>1
  <2>3. CASE k = PayloadSize
    <3>1. q = p
      BY <1>1, <1>3, <1>7, <2>1, <2>3 DEF OctetPayloads
    <3> QED
      BY <1>4, <1>8, <2>1, <2>3, <3>1
  <2>4. CASE k # PayloadSize
    <3>1. k + 1 \in 1..PayloadSize
      BY <1>1, <2>2, <2>4
    <3>2. p[k + 1] # q[k + 1] /\ \A i \in 1..PayloadSize : i # k + 1 => p[i] = q[i]
      BY <1>1, <1>7, <2>1, <2>2, <3>1
    <3>3. Checksum(p) # Checksum(q)
      BY <1>1, <1>3, <3>1, <3>2, ChecksumTells
    <3> QED
      BY <1>4, <1>8, <2>1, <2>4, <3>3
  <2> QED
    BY <2>3, <2>4
<1> QED
  BY <1>9, <1>10

-------------------------------------------------------------------------------
(* Milestones: the ladder is inductive with two facts about the rungs that are not       *)
(* written, that a banner noted was shown and that readiness waits for the contract.     *)

BootRecords ==
    [logged : SUBSET Milestones, text : Texts, bannerSeen : BOOLEAN, bannerShown : BOOLEAN,
     seen : SUBSET Evidence, error : BOOLEAN, status : BOOLEAN, contract : BOOLEAN,
     allInit : BOOLEAN, ready : BOOLEAN, baseline : BOOLEAN]

LoggedInOrder(L) ==
    /\ "M4" \in L => "M3" \in L
    /\ "M5A" \in L => "M5V" \in L
    /\ "M5C" \in L => "M5A" \in L
    /\ "M10" \in L => "M9" \in L /\ "M6" \in L
    /\ "acceptance_ready" \in L => "protocol_ready" \in L

BootOK(b) ==
    /\ b \in BootRecords
    /\ LoggedInOrder(b.logged)
    /\ "M7C" \in b.logged => /\ "M6" \in b.logged
                             /\ b.bannerShown /\ b.contract
                             /\ b.error \/ b.status
    /\ "protocol_ready" \in b.logged => b.contract
    /\ b.bannerSeen => b.bannerShown
    /\ b.ready => b.contract

MilestonesInv == BootOK(boot)

LEMMA MilestonesInvImplies == MilestonesInv => MilestonesTypeOK /\ LadderInOrder
  BY DEF MilestonesInv, BootOK, LoggedInOrder, BootRecords, MilestonesTypeOK, LadderInOrder, Before, Written

LEMMA MilestonesInitInv == MilestonesInit => MilestonesInv
  BY DEF MilestonesInit, BootReset, MilestonesInv, BootOK, LoggedInOrder, BootRecords, Texts

\* A milestone logged is added to those written, and nothing else changes.
LEMMA LogAdds ==
    ASSUME NEW b \in BootRecords, NEW due \in BOOLEAN, NEW m \in Milestones
    PROVE  /\ Log(b, due, m) \in BootRecords
           /\ Log(b, due, m).logged = b.logged \cup (IF due THEN {m} ELSE {})
           /\ Log(b, due, m).text = b.text /\ Log(b, due, m).bannerSeen = b.bannerSeen
           /\ Log(b, due, m).bannerShown = b.bannerShown /\ Log(b, due, m).seen = b.seen
           /\ Log(b, due, m).error = b.error /\ Log(b, due, m).status = b.status
           /\ Log(b, due, m).contract = b.contract /\ Log(b, due, m).allInit = b.allInit
           /\ Log(b, due, m).ready = b.ready /\ Log(b, due, m).baseline = b.baseline
  BY DEF Log, BootRecords

\* A milestone that no other stands on may be logged at any time.
LEMMA LogKeeps ==
    ASSUME NEW b, BootOK(b), NEW due \in BOOLEAN,
           NEW m \in {"M3", "M5V", "M6", "M7A", "M7B", "M8", "M9"}
    PROVE  BootOK(Log(b, due, m))
<1> DEFINE c == Log(b, due, m)
<1>1. m \in Milestones /\ b \in BootRecords
  BY DEF Milestones, BootOK
<1>2. /\ c \in BootRecords /\ c.logged = b.logged \cup (IF due THEN {m} ELSE {})
      /\ c.bannerSeen = b.bannerSeen /\ c.bannerShown = b.bannerShown
      /\ c.error = b.error /\ c.status = b.status /\ c.contract = b.contract /\ c.ready = b.ready
  BY <1>1, LogAdds
<1> HIDE DEF c
<1>3. LoggedInOrder(c.logged)
  BY <1>2 DEF BootOK, LoggedInOrder
<1> QED
  BY <1>2, <1>3 DEF BootOK, c

\* Readiness, once it waits for the contract, is announced once and accepted after it.
LEMMA ReadinessKeeps ==
    ASSUME NEW b, BootOK(b)
    PROVE  BootOK(Readiness(b))
<1> DEFINE p == Log(b, b.ready, "protocol_ready")
           due == p.ready /\ p.text = "oos"
           c == Log(p, due, "acceptance_ready")
<1>1. "protocol_ready" \in Milestones /\ "acceptance_ready" \in Milestones
  BY DEF Milestones
<1>2. b \in BootRecords /\ b.ready \in BOOLEAN
  BY DEF BootOK, BootRecords
<1>3. /\ p \in BootRecords /\ p.logged = b.logged \cup (IF b.ready THEN {"protocol_ready"} ELSE {})
      /\ p.bannerSeen = b.bannerSeen /\ p.bannerShown = b.bannerShown
      /\ p.error = b.error /\ p.status = b.status /\ p.contract = b.contract /\ p.ready = b.ready
  BY <1>1, <1>2, LogAdds
<1>4. Readiness(b) = c
  BY DEF Readiness
<1> HIDE DEF p
<1>5. due \in BOOLEAN
  BY <1>3 DEF BootRecords
<1>6. due => b.ready
  BY <1>3
<1> HIDE DEF due
<1>7. /\ c \in BootRecords /\ c.logged = p.logged \cup (IF due THEN {"acceptance_ready"} ELSE {})
      /\ c.bannerSeen = p.bannerSeen /\ c.bannerShown = p.bannerShown
      /\ c.error = p.error /\ c.status = p.status /\ c.contract = p.contract /\ c.ready = p.ready
  BY <1>1, <1>3, <1>5, LogAdds
<1> HIDE DEF c
<1>8. LoggedInOrder(c.logged)
  BY <1>3, <1>6, <1>7 DEF BootOK, LoggedInOrder
<1> QED
  BY <1>3, <1>4, <1>7, <1>8 DEF BootOK

LEMMA ContractKeeps ==
    ASSUME NEW b, BootOK(b)
    PROVE  BootOK(ContractProgress(b))
<1> DEFINE c == [b EXCEPT !.contract = TRUE, !.ready = b.allInit]
<1>1. b \in BootRecords /\ b.allInit \in BOOLEAN
  BY DEF BootOK, BootRecords
<1>2. c \in BootRecords
  BY <1>1 DEF BootRecords
<1>3. c.contract /\ c.logged = b.logged /\ c.bannerSeen = b.bannerSeen /\ c.bannerShown = b.bannerShown
      /\ c.error = b.error /\ c.status = b.status
  BY <1>1 DEF BootRecords
<1>4. ContractProgress(b) \in {b, Readiness(c)}
  BY DEF ContractProgress
<1> HIDE DEF c
<1>5. BootOK(c)
  BY <1>2, <1>3 DEF BootOK
<1> QED
  BY <1>4, <1>5, ReadinessKeeps

\* The record of the boot after an answer of the backend: five fields change, the rest keep.
BootAfter(b, v, e, s, c, r) ==
    [b EXCEPT !.seen = v, !.error = e, !.status = s, !.contract = c, !.ready = r]

LEMMA EvidenceTaken ==
    ASSUME NEW b \in BootRecords, NEW v \in SUBSET Evidence, NEW e \in BOOLEAN,
           NEW s \in BOOLEAN, NEW c \in BOOLEAN, NEW r \in BOOLEAN
    PROVE  LET d == BootAfter(b, v, e, s, c, r)
           IN  /\ d \in BootRecords
               /\ d.logged = b.logged /\ d.bannerSeen = b.bannerSeen
               /\ d.bannerShown = b.bannerShown /\ d.error = e /\ d.status = s
               /\ d.contract = c /\ d.ready = r
<1> DEFINE S == SUBSET Milestones
           V == SUBSET Evidence
           R == [logged : S, text : Texts, bannerSeen : BOOLEAN, bannerShown : BOOLEAN,
                 seen : V, error : BOOLEAN, status : BOOLEAN, contract : BOOLEAN,
                 allInit : BOOLEAN, ready : BOOLEAN, baseline : BOOLEAN]
           d1 == [b EXCEPT !.seen = v]
           d2 == [d1 EXCEPT !.error = e]
           d3 == [d2 EXCEPT !.status = s]
           d4 == [d3 EXCEPT !.contract = c]
           d == [d4 EXCEPT !.ready = r]
<1>1. BootRecords = R
  BY DEF BootRecords
<1>2. b \in R /\ v \in V
  BY <1>1
<1>3. BootAfter(b, v, e, s, c, r) = d
  BY DEF BootAfter
<1> HIDE DEF S, V
<1>4. /\ d1 \in R /\ d1.logged = b.logged /\ d1.bannerSeen = b.bannerSeen
      /\ d1.bannerShown = b.bannerShown
  BY <1>2
<1> HIDE DEF d1
<1>5. /\ d2 \in R /\ d2.logged = b.logged /\ d2.bannerSeen = b.bannerSeen
      /\ d2.bannerShown = b.bannerShown /\ d2.error = e
  BY <1>4
<1> HIDE DEF d2
<1>6. /\ d3 \in R /\ d3.logged = b.logged /\ d3.bannerSeen = b.bannerSeen
      /\ d3.bannerShown = b.bannerShown /\ d3.error = e /\ d3.status = s
  BY <1>5
<1> HIDE DEF d3
<1>7. /\ d4 \in R /\ d4.logged = b.logged /\ d4.bannerSeen = b.bannerSeen
      /\ d4.bannerShown = b.bannerShown /\ d4.error = e /\ d4.status = s /\ d4.contract = c
  BY <1>6
<1> HIDE DEF d4
<1>8. /\ d \in R /\ d.logged = b.logged /\ d.bannerSeen = b.bannerSeen
      /\ d.bannerShown = b.bannerShown /\ d.error = e /\ d.status = s /\ d.contract = c
      /\ d.ready = r
  BY <1>7
<1> HIDE DEF d, R
<1> QED
  BY <1>1, <1>3, <1>8

LEMMA MilestonesStepInv == MilestonesInv /\ [MilestonesNext]_bootVars => MilestonesInv'
<1> SUFFICES ASSUME BootOK(boot), [MilestonesNext]_bootVars PROVE BootOK(boot')
  BY DEF MilestonesInv
<1>0. /\ boot \in BootRecords
      /\ boot.bannerSeen \in BOOLEAN /\ boot.bannerShown \in BOOLEAN
      /\ boot.error \in BOOLEAN /\ boot.status \in BOOLEAN /\ boot.contract \in BOOLEAN
  BY DEF BootOK, BootRecords
<1>1. CASE CpuDescribed
  <2> DEFINE b == Log(boot, TRUE, "M3")
             c == Log(b, TRUE, "M4")
  <2>1. BootOK(b) /\ b.logged = boot.logged \cup {"M3"}
    BY <1>0, LogKeeps, LogAdds DEF Milestones
  <2>2. boot' = c
    BY <1>1 DEF CpuDescribed, Snapshot
  <2> HIDE DEF b
  <2>3. "M4" \in Milestones /\ b \in BootRecords
    BY <2>1 DEF Milestones, BootOK
  <2>4. /\ c \in BootRecords /\ c.logged = b.logged \cup {"M4"}
        /\ c.bannerSeen = b.bannerSeen /\ c.bannerShown = b.bannerShown
        /\ c.error = b.error /\ c.status = b.status /\ c.contract = b.contract /\ c.ready = b.ready
    BY <2>3, LogAdds
  <2> HIDE DEF c
  <2>5. LoggedInOrder(c.logged)
    BY <2>1, <2>4 DEF BootOK, LoggedInOrder
  <2> QED
    BY <2>1, <2>2, <2>4, <2>5 DEF BootOK
<1>2. CASE DisplayWrite
  <2>1. PICK text \in Texts, due \in BOOLEAN :
           boot' = FirstWrites(BannerNoted(JudgedReady(Shown(boot, text)), due))
    BY <1>2 DEF DisplayWrite
  <2> DEFINE shown == boot.bannerShown \/ text = "not_responding"
             a == [boot EXCEPT !.text = text, !.bannerShown = shown]
             ready == /\ a.status \/ a.error
                      /\ a.contract /\ a.bannerSeen
                      /\ a.text # "not_responding"
             b == Log(a, ready, "M7C")
             seen == b.bannerSeen \/ (DecisionTraced /\ due /\ ~Written(b, "M7C") /\ b.text = "not_responding")
             c == [b EXCEPT !.bannerSeen = seen]
             d == Log(c, TRUE, "M6")
             idle == IdleFixture /\ c.text = "idle" /\ ~Written(c, "M10")
             e == Log(d, idle, "M9")
             f == Log(e, idle, "M10")
  <2>2. Shown(boot, text) = a /\ shown \in BOOLEAN
    BY <1>0 DEF Shown
  <2> HIDE DEF shown
  <2>3. a \in BootRecords
    BY <1>0, <2>2 DEF BootRecords
  <2>4. /\ a.logged = boot.logged /\ a.bannerSeen = boot.bannerSeen /\ a.bannerShown = shown
        /\ a.error = boot.error /\ a.status = boot.status /\ a.contract = boot.contract
        /\ a.ready = boot.ready /\ a.text = text
    BY <1>0 DEF BootRecords
  <2>5. JudgedReady(a) = b
    BY DEF JudgedReady
  <2> HIDE DEF a
  <2>6. (boot.bannerShown => shown) /\ (text = "not_responding" => shown)
    BY DEF shown
  <2>7. BootOK(a)
    BY <2>3, <2>4, <2>6 DEF BootOK
  <2>8. ready \in BOOLEAN /\ "M7C" \in Milestones
    BY DEF Milestones
  <2>9. ready => a.contract /\ a.bannerShown /\ (a.error \/ a.status)
    BY <2>7 DEF BootOK
  <2> HIDE DEF ready
  <2>10. /\ b \in BootRecords /\ b.logged = a.logged \cup (IF ready THEN {"M7C"} ELSE {})
         /\ b.bannerSeen = a.bannerSeen /\ b.bannerShown = a.bannerShown
         /\ b.error = a.error /\ b.status = a.status /\ b.contract = a.contract
         /\ b.ready = a.ready /\ b.text = text
    BY <2>3, <2>4, <2>8, LogAdds
  <2>11. BannerNoted(b, due) = c
    BY DEF BannerNoted
  <2> HIDE DEF b
  <2>12. seen \in BOOLEAN /\ (seen => b.bannerShown)
    BY <2>4, <2>6, <2>7, <2>10 DEF BootOK, BootRecords
  <2> HIDE DEF seen
  <2>13. c \in BootRecords
    BY <2>10, <2>12 DEF BootRecords
  <2>14. /\ c.logged = b.logged /\ c.bannerSeen = seen /\ c.bannerShown = b.bannerShown
         /\ c.error = b.error /\ c.status = b.status /\ c.contract = b.contract /\ c.ready = b.ready
    BY <2>10 DEF BootRecords
  <2>15. FirstWrites(c) = f
    BY DEF FirstWrites
  <2> HIDE DEF c
  <2>16. /\ d \in BootRecords /\ d.logged = c.logged \cup {"M6"}
         /\ d.bannerSeen = c.bannerSeen /\ d.bannerShown = c.bannerShown
         /\ d.error = c.error /\ d.status = c.status /\ d.contract = c.contract /\ d.ready = c.ready
    BY <2>13, LogAdds DEF Milestones
  <2> HIDE DEF d
  <2>17. d.logged = boot.logged \cup (IF ready THEN {"M7C"} ELSE {}) \cup {"M6"}
    BY <2>4, <2>10, <2>14, <2>16
  <2>18. LoggedInOrder(d.logged)
    BY <2>17 DEF BootOK, LoggedInOrder
  <2>19. BootOK(d)
    BY <2>7, <2>9, <2>10, <2>12, <2>14, <2>16, <2>18 DEF BootOK
  <2>20. idle \in BOOLEAN
    BY MilestonesAssumption
  <2> HIDE DEF idle
  <2>21. BootOK(e) /\ e.logged = d.logged \cup (IF idle THEN {"M9"} ELSE {})
    <3>1. "M9" \in Milestones /\ d \in BootRecords
      BY <2>16 DEF Milestones
    <3>2. e.logged = d.logged \cup (IF idle THEN {"M9"} ELSE {})
      BY <2>20, <3>1, LogAdds
    <3>3. BootOK(e)
      BY <2>19, <2>20, LogKeeps
    <3> QED
      BY <3>2, <3>3
  <2> HIDE DEF e
  <2>22. e \in BootRecords /\ "M10" \in Milestones
    BY <2>21 DEF BootOK, Milestones
  <2>23. /\ f \in BootRecords /\ f.logged = e.logged \cup (IF idle THEN {"M10"} ELSE {})
         /\ f.bannerSeen = e.bannerSeen /\ f.bannerShown = e.bannerShown
         /\ f.error = e.error /\ f.status = e.status /\ f.contract = e.contract /\ f.ready = e.ready
    BY <2>20, <2>22, LogAdds
  <2> HIDE DEF f
  <2>24. LoggedInOrder(f.logged)
    BY <2>16, <2>21, <2>23 DEF BootOK, LoggedInOrder
  <2>25. BootOK(f)
    BY <2>21, <2>23, <2>24 DEF BootOK
  <2> QED
    BY <2>1, <2>2, <2>5, <2>11, <2>15, <2>25
<1>3. CASE AckRead
  BY <1>3, LogKeeps DEF AckRead
<1>4. CASE AckPassed
  <2> DEFINE b == [boot EXCEPT !.seen = @ \cup {"ack"}]
  <2>1. BootOK(b)
    BY <1>0 DEF BootOK, BootRecords, Evidence
  <2> HIDE DEF b
  <2> QED
    BY <1>4, <2>1, ContractKeeps DEF AckPassed, b
<1>5. CASE FramePassed
  <2> DEFINE With(b) == Log(b, b.error /\ b.status, "M7B")
             e == [boot EXCEPT !.seen = @ \cup {"error"}, !.error = TRUE]
             s == [boot EXCEPT !.seen = @ \cup {"status"}, !.status = TRUE]
  <2>1. boot' = ContractProgress(With(e)) \/ boot' = ContractProgress(With(s))
    BY <1>5 DEF FramePassed
  <2>2. BootOK(e) /\ BootOK(s)
    BY <1>0 DEF BootOK, BootRecords, Evidence
  <2> HIDE DEF e, s
  <2>3. ASSUME NEW b, BootOK(b) PROVE BootOK(ContractProgress(With(b)))
    <3>1. (b.error /\ b.status) \in BOOLEAN
      OBVIOUS
    <3>2. BootOK(With(b))
      BY <2>3, <3>1, LogKeeps
    <3> HIDE DEF With
    <3> QED
      BY <3>2, ContractKeeps
  <2> QED
    BY <2>1, <2>2, <2>3
<1>6. CASE BackendAnswers
  <2>1. PICK v \in {s \in SUBSET Evidence : boot.seen \subseteq s} :
          \E e \in {boot.error, boot.error \/ "error" \in v},
             s \in {boot.status, boot.status \/ "status" \in v} :
             boot' = [boot EXCEPT !.seen = v, !.error = e, !.status = s,
                                  !.contract = @ \/ v = Evidence,
                                  !.ready = @ \/ v = Evidence]
    BY <1>6, Zenon DEF BackendAnswers
  <2>2. PICK e \in {boot.error, boot.error \/ "error" \in v},
             s \in {boot.status, boot.status \/ "status" \in v} :
             boot' = [boot EXCEPT !.seen = v, !.error = e, !.status = s,
                                  !.contract = @ \/ v = Evidence,
                                  !.ready = @ \/ v = Evidence]
    BY <2>1
  <2> DEFINE c == boot.contract \/ v = Evidence
             r == boot.ready \/ v = Evidence
  <2>3. boot' = BootAfter(boot, v, e, s, c, r)
    BY <2>2, Zenon DEF BootAfter
  <2>4. /\ v \in SUBSET Evidence
        /\ e \in BOOLEAN /\ s \in BOOLEAN /\ c \in BOOLEAN /\ r \in BOOLEAN
        /\ boot.error => e
        /\ boot.status => s
        /\ boot.contract => c
        /\ r => boot.ready \/ c
    BY <1>0, <2>2
  <2> HIDE DEF c, r
  <2>5. /\ boot' \in BootRecords
        /\ boot'.logged = boot.logged /\ boot'.bannerSeen = boot.bannerSeen
        /\ boot'.bannerShown = boot.bannerShown /\ boot'.error = e /\ boot'.status = s
        /\ boot'.contract = c /\ boot'.ready = r
    <3> DEFINE d == BootAfter(boot, v, e, s, c, r)
    <3>1. /\ d \in BootRecords
          /\ d.logged = boot.logged /\ d.bannerSeen = boot.bannerSeen
          /\ d.bannerShown = boot.bannerShown /\ d.error = e /\ d.status = s
          /\ d.contract = c /\ d.ready = r
      <4>1. boot \in BootRecords /\ v \in SUBSET Evidence
        BY <1>0, <2>4
      <4>2. e \in BOOLEAN /\ s \in BOOLEAN /\ c \in BOOLEAN /\ r \in BOOLEAN
        BY <2>4
      <4> QED
        BY <4>1, <4>2, EvidenceTaken
    <3>2. boot' = d
      BY <2>3
    <3> HIDE DEF d
    <3> QED
      BY <3>1, <3>2
  <2>6. LoggedInOrder(boot'.logged)
    BY <1>0, <2>5 DEF BootOK
  <2>7. "M7C" \in boot'.logged => /\ "M6" \in boot'.logged
                                  /\ boot'.bannerShown /\ boot'.contract
                                  /\ boot'.error \/ boot'.status
    BY <1>0, <2>4, <2>5, Zenon DEF BootOK
  <2>8. /\ "protocol_ready" \in boot'.logged => boot'.contract
        /\ boot'.bannerSeen => boot'.bannerShown
    BY <1>0, <2>4, <2>5, Zenon DEF BootOK
  <2>9. boot'.ready => boot'.contract
    BY <1>0, <2>4, <2>5, Zenon DEF BootOK
  <2> QED
    BY <2>5, <2>6, <2>7, <2>8, <2>9, Zenon DEF BootOK
<1>7. CASE InitDoneSeen
  BY <1>0, <1>7 DEF InitDoneSeen, BootOK, BootRecords
<1>8. CASE MilestonePoll
  <2> DEFINE b == Readiness(boot)
  <2>1. BootOK(b)
    BY ReadinessKeeps
  <2>2. PICK moved \in BOOLEAN :
           boot' = IF ~b.baseline THEN [b EXCEPT !.baseline = TRUE] ELSE Log(b, moved, "M8")
    BY <1>8 DEF MilestonePoll
  <2> HIDE DEF b
  <2>3. BootOK([b EXCEPT !.baseline = TRUE])
    BY <2>1 DEF BootOK, BootRecords
  <2>4. BootOK(Log(b, moved, "M8"))
    BY <2>1, LogKeeps
  <2> QED
    BY <2>2, <2>3, <2>4
<1>9. CASE FirstPhrase
  <2> DEFINE b == Log(boot, TRUE, "M5V")
             c == Log(b, TRUE, "M5A")
  <2>1. BootOK(b) /\ b.logged = boot.logged \cup {"M5V"}
    BY <1>0, LogKeeps, LogAdds DEF Milestones
  <2>2. boot' = c
    BY <1>9 DEF FirstPhrase
  <2> HIDE DEF b
  <2>3. "M5A" \in Milestones /\ b \in BootRecords
    BY <2>1 DEF Milestones, BootOK
  <2>4. /\ c \in BootRecords /\ c.logged = b.logged \cup {"M5A"}
        /\ c.bannerSeen = b.bannerSeen /\ c.bannerShown = b.bannerShown
        /\ c.error = b.error /\ c.status = b.status /\ c.contract = b.contract /\ c.ready = b.ready
    BY <2>3, LogAdds
  <2> HIDE DEF c
  <2>5. LoggedInOrder(c.logged)
    BY <2>1, <2>4 DEF BootOK, LoggedInOrder
  <2> QED
    BY <2>1, <2>2, <2>4, <2>5 DEF BootOK
<1>10. CASE PhraseEnds
  <2> DEFINE c == Log(boot, TRUE, "M5C")
  <2>1. "M5C" \in Milestones /\ "M5A" \in boot.logged
    BY <1>10 DEF Milestones, PhraseEnds, Written
  <2>2. /\ c \in BootRecords /\ c.logged = boot.logged \cup {"M5C"}
        /\ c.bannerSeen = boot.bannerSeen /\ c.bannerShown = boot.bannerShown
        /\ c.error = boot.error /\ c.status = boot.status /\ c.contract = boot.contract
        /\ c.ready = boot.ready
    BY <1>0, <2>1, LogAdds
  <2>3. boot' = c
    BY <1>10 DEF PhraseEnds
  <2> HIDE DEF c
  <2>4. LoggedInOrder(c.logged)
    BY <2>1, <2>2 DEF BootOK, LoggedInOrder
  <2> QED
    BY <2>2, <2>3, <2>4 DEF BootOK
<1>11. CASE BootAgain
  BY <1>11 DEF BootAgain, BootReset, BootOK, LoggedInOrder, BootRecords, Texts
<1>12. CASE UNCHANGED bootVars
  BY <1>12 DEF bootVars
<1> QED
  BY <1>1, <1>2, <1>3, <1>4, <1>5, <1>6, <1>7, <1>8, <1>9, <1>10, <1>11, <1>12 DEF MilestonesNext

-------------------------------------------------------------------------------
(* NVRAM: the checksum is inductive with the types of the regions, of the blob and of    *)
(* the envelope, whose octets are as many as the profile's when there is one.            *)

NvStarts == {"none", "blob", "envelope", "foreign", "default", "refused"}
NvRecords == [regions : Regions, mismatch : BOOLEAN, summed : BOOLEAN, sum : 0..255, start : NvStarts]

NvramOK(n) ==
    /\ n \in NvRecords
    /\ n.summed => n.sum = Sum8(n.regions.nvram)
    /\ n.start \in {"blob", "envelope", "foreign", "default"} => Fits(n.regions)

EnvelopeOK ==
    /\ nvEnvelope \in [octets : Seq(0..255), sum : 0..255, present : BOOLEAN]
    /\ nvEnvelope.present => Len(nvEnvelope.octets) = NvramSize

NvramInv == NvramOK(nv) /\ nvBlob \in Regions /\ EnvelopeOK

LEMMA NvramInvImplies == NvramInv => NvramTypeOK /\ SumHonest
  BY DEF NvramInv, NvramOK, NvRecords, NvStarts, EnvelopeOK, NvramTypeOK, SumHonest

LEMMA Sum8Type == ASSUME NEW s \in Seq(0..255) PROVE Sum8(s) \in 0..255
<1> DEFINE N == Len(s)
           Sums(h) == h = [i \in 0..N |-> IF i = 0 THEN 0 ELSE h[i - 1] + s[i]]
           x == CHOOSE h : Sums(h)
           step == [i \in 1..N |-> [t \in Nat |-> t + s[i]]]
<1>1. N \in Nat /\ 0 \in Nat /\ \A i \in 1..N : s[i] \in Nat
  <2>1. \A i \in 1..Len(s) : s[i] \in 0..255
    BY ElementOfSeq
  <2>2. \A v \in 0..255 : v \in Nat
    OBVIOUS
  <2>3. Len(s) \in Nat
    BY LenProperties, Zenon
  <2> QED
    BY <2>1, <2>2, <2>3, Zenon
<1>2. \A t \in Nat, i \in 1..N : step[i][t] \in Nat /\ step[i][t] = t + s[i]
  BY <1>1
<1>3. PICK g : IsRun(g, step, 0, N, Nat)
  <2>1. StepsWithin(step, N, Nat)
    BY <1>2 DEF StepsWithin
  <2> HIDE DEF step, N
  <2> QED
    BY <1>1, <2>1, Iterated
<1>4. g \in [0..N -> Nat] /\ g[0] = 0 /\ \A i \in 1..N : g[i] = step[i][g[i - 1]]
  <2> HIDE DEF step, N
  <2> QED
    BY <1>3 DEF IsRun
<1>5. Sums(g)
  <2> HIDE DEF step, N
  <2>1. ASSUME NEW i \in 0..N, i # 0 PROVE g[i] = g[i - 1] + s[i]
    <3>1. i \in 1..N /\ g[i - 1] \in Nat
      BY <1>1, <1>4, <2>1
    <3> QED
      BY <1>2, <1>4, <3>1
  <2>2. \A i \in 0..N : g[i] = IF i = 0 THEN 0 ELSE g[i - 1] + s[i]
    BY <1>4, <2>1
  <2>3. g = [i \in 0..N |-> g[i]]
    BY <1>4
  <2> QED
    BY <2>2, <2>3
<1>6. Sums(x)
  BY <1>5
<1>7. Sum8(s) = x[N] % 256
  BY DEF Sum8
<1> HIDE DEF x
<1>8. x[0] = 0 /\ \A i \in 1..N : x[i] = x[i - 1] + s[i]
  <2> HIDE DEF N
  <2>1. \A i \in 1..N : i \in 0..N /\ i # 0
    BY <1>1
  <2> QED
    BY <1>1, <1>6, <2>1
<1> DEFINE T == {i \in 0..N : x[i] \in Nat}
<1>9. 0 \in T
  BY <1>1, <1>8
<1>10. \A i \in 1..N : i - 1 \in T => i \in T
  <2> HIDE DEF N
  <2> QED
    BY <1>1, <1>8
<1>11. x[N] \in Nat
  <2> HIDE DEF T, N
  <2>1. \A i \in 0..N : i \in T
    BY <1>1, <1>9, <1>10, UpTo
  <2>2. N \in 0..N
    BY <1>1
  <2> QED
    BY <2>1, <2>2 DEF T
<1>12. \A n \in Nat : n % 256 \in 0..255
  OBVIOUS
<1> QED
  BY <1>7, <1>11, <1>12

LEMMA SetFirst ==
    ASSUME NEW S, NEW s \in Seq(S), s # <<>>, NEW v \in S
    PROVE  [s EXCEPT ![1] = v] \in Seq(S) /\ Len([s EXCEPT ![1] = v]) = Len(s)
<1>1. 1 \in 1..Len(s)
  BY EmptySeq
<1> QED
  BY <1>1, ExceptSeq

LEMMA ZeroOctetsType ==
    ASSUME NEW n \in Nat
    PROVE  ZeroOctets(n) \in Seq(0..255) /\ Len(ZeroOctets(n)) = n
  BY DEF ZeroOctets

LEMMA SeededType ==
    ASSUME NEW n \in Nat
    PROVE  Seeded(n) \in Seq(0..255) /\ Len(Seeded(n)) = n
<1>1. \A i \in 1..n : Seeded(n)[i] \in 0..255
  BY DEF Seeded, Sentinel
<1>2. Seeded(n) = [i \in 1..n |-> Seeded(n)[i]]
  BY DEF Seeded
<1>3. Seeded(n) \in [1..n -> 0..255]
  BY <1>1, <1>2
<1> QED
  BY <1>3, SeqOfFunction

\* Records with another NVRAM, as the loaders leave them.
LEMMA NewNvram ==
    ASSUME NEW c \in NvRecords, NEW octets \in Seq(0..255)
    PROVE  LET n == [c EXCEPT !.regions.nvram = octets]
           IN  /\ n \in NvRecords
               /\ n.start = c.start /\ n.summed = c.summed
               /\ n.regions.nvram = octets
               /\ Fits(c.regions) /\ Len(octets) = NvramSize => Fits(n.regions)
<1> DEFINE q == [c.regions EXCEPT !.nvram = octets]
           n == [c EXCEPT !.regions = q]
<1>1. [c EXCEPT !.regions.nvram = octets] = n
  BY DEF NvRecords, Regions
<1>2. /\ q \in Regions /\ q.nvram = octets
      /\ q.table = c.regions.table /\ q.dla = c.regions.dla
  BY DEF NvRecords, Regions
<1> HIDE DEF q
<1>3. n \in NvRecords /\ n.regions = q /\ n.start = c.start /\ n.summed = c.summed
  BY <1>2 DEF NvRecords
<1>4. Fits(c.regions) /\ Len(octets) = NvramSize => Fits(q)
  BY <1>2 DEF Fits
<1> HIDE DEF n
<1> QED
  BY <1>1, <1>2, <1>3, <1>4

\* A checksum taken is that of the contents, and nothing else changes.
LEMMA SummedHonest ==
    ASSUME NEW n \in NvRecords,
           n.start \in {"blob", "envelope", "foreign", "default"} => Fits(n.regions)
    PROVE  NvramOK(Summed(n))
<1> DEFINE q == Sum8(n.regions.nvram)
           m == [n EXCEPT !.summed = TRUE, !.sum = q]
<1>1. n.regions.nvram \in Seq(0..255)
  BY DEF NvRecords, Regions
<1>2. q \in 0..255
  BY <1>1, Sum8Type
<1>3. Summed(n) = m
  BY DEF Summed
<1> HIDE DEF q
<1>4. /\ m \in NvRecords
      /\ m.regions = n.regions /\ m.sum = q /\ m.start = n.start
  BY <1>2 DEF NvRecords
<1> QED
  BY <1>3, <1>4 DEF NvramOK, q

LEMMA ClearedOK ==
    ASSUME NEW start \in NvStarts
    PROVE  /\ Cleared(start) \in NvRecords /\ NvramOK(Cleared(start))
           /\ Fits(Cleared(start).regions) /\ Cleared(start).start = start
           /\ ~Cleared(start).summed
<1> DEFINE r == [nvram |-> ZeroOctets(NvramSize), table |-> ZeroOctets(TableSize), dla |-> ZeroOctets(DlaSize)]
<1>1. /\ ZeroOctets(NvramSize) \in Seq(0..255) /\ Len(ZeroOctets(NvramSize)) = NvramSize
      /\ ZeroOctets(TableSize) \in Seq(0..255) /\ Len(ZeroOctets(TableSize)) = TableSize
      /\ ZeroOctets(DlaSize) \in Seq(0..255) /\ Len(ZeroOctets(DlaSize)) = DlaSize
  BY ZeroOctetsType, NvramAssumption
<1>2. r \in Regions /\ Fits(r)
  BY <1>1 DEF Regions, Fits
<1>3. Cleared(start) = [regions |-> r, mismatch |-> FALSE, summed |-> FALSE, sum |-> 0, start |-> start]
  BY DEF Cleared
<1> HIDE DEF r
<1>4. 0 \in 0..255
  OBVIOUS
<1> QED
  BY <1>2, <1>3, <1>4 DEF NvramOK, NvRecords

\* Recovery leaves the regions their sizes and a checksum that is that of the seeds.
LEMMA RecoveredOK ==
    ASSUME NEW c \in NvRecords, Fits(c.regions)
    PROVE  NvramOK(Recovered(c))
<1> DEFINE z == Seeded(Len(c.regions.nvram))
           q == [c.regions EXCEPT !.nvram = z]
           n == [c EXCEPT !.regions = q, !.mismatch = FALSE]
<1>1. [c EXCEPT !.regions.nvram = Seeded(Len(@)), !.mismatch = FALSE] = n
  BY DEF NvRecords, Regions
<1>2. Recovered(c) = Summed(n)
  BY <1>1 DEF Recovered
<1>3. z \in Seq(0..255) /\ Len(z) = Len(c.regions.nvram)
  BY SeededType DEF NvRecords, Regions
<1> HIDE DEF z
<1>4. q \in Regions /\ Fits(q)
  BY <1>3 DEF NvRecords, Regions, Fits
<1> HIDE DEF q
<1>5. n \in NvRecords /\ n.regions = q
  BY <1>4 DEF NvRecords
<1> HIDE DEF n
<1> QED
  BY <1>2, <1>4, <1>5, SummedHonest

LEMMA NvramInitInv == NvramInit => NvramInv
<1> SUFFICES ASSUME NvramInit PROVE NvramInv
  OBVIOUS
<1>1. <<>> \in Seq(0..255) /\ 0 \in 0..255
  OBVIOUS
<1>2. NvramOK(nv)
  BY ClearedOK DEF NvramInit, NvStarts
<1> QED
  BY <1>1, <1>2 DEF NvramInit, NvramInv, EnvelopeOK, NoFile, Regions

LEMMA NvramStepInv == NvramInv /\ [NvramNext]_nvVars => NvramInv'
<1> SUFFICES ASSUME NvramInv, [NvramNext]_nvVars PROVE NvramInv'
  OBVIOUS
<1>0. /\ NvramOK(nv) /\ nv \in NvRecords /\ nv.regions \in Regions
      /\ nv.regions.nvram \in Seq(0..255) /\ nvBlob \in Regions /\ EnvelopeOK
  BY DEF NvramInv, NvramOK, NvRecords, Regions
<1>1. ASSUME NvramOK(nv'), UNCHANGED <<nvBlob, nvEnvelope>> PROVE NvramInv'
  BY <1>0, <1>1, ZenonT(60) DEF NvramInv, NvramOK, NvRecords, NvStarts, Regions, EnvelopeOK, Fits, Sum8
<1>2. CASE NvramWrite
  <2>1. PICK i \in WriteAt, v \in Octets :
           i <= Len(nv.regions.nvram) /\ nv' = Summed([nv EXCEPT !.regions.nvram[i] = v])
    BY <1>2 DEF NvramWrite
  <2> DEFINE octets == [nv.regions.nvram EXCEPT ![i] = v]
             r == [nv.regions EXCEPT !.nvram = octets]
             n == [nv EXCEPT !.regions = r]
  <2>2. [nv EXCEPT !.regions.nvram[i] = v] = n
    BY <1>0 DEF NvRecords, Regions
  <2>3. octets \in Seq(0..255) /\ Len(octets) = Len(nv.regions.nvram)
    <3>1. i \in 1..Len(nv.regions.nvram) /\ v \in 0..255
      BY <1>0, <2>1, LenProperties, NvramAssumption
    <3> QED
      BY <1>0, <3>1, ExceptSeq
  <2> HIDE DEF octets
  <2>4. r \in Regions /\ (Fits(nv.regions) => Fits(r))
    BY <1>0, <2>3, ZenonT(60) DEF Regions, Fits
  <2> HIDE DEF r
  <2>5. n \in NvRecords /\ n.start = nv.start /\ n.regions = r
    BY <1>0, <2>4 DEF NvRecords
  <2>6. n.start \in {"blob", "envelope", "foreign", "default"} => Fits(n.regions)
    BY <1>0, <2>4, <2>5 DEF NvramOK
  <2> HIDE DEF n
  <2>7. NvramOK(nv')
    BY <2>1, <2>2, <2>5, <2>6, SummedHonest
  <2> QED
    BY <1>1, <1>2, <2>7 DEF NvramWrite
<1>3. CASE TableWrite
  <2>1. PICK r \in Regions : /\ nv' = [nv EXCEPT !.regions = r]
                             /\ r.nvram = nv.regions.nvram
                             /\ Fits(nv.regions) => Fits(r)
    <3>1. PICK v \in Octets :
             \/ nv.regions.table # <<>> /\ nv' = [nv EXCEPT !.regions.table[1] = v]
             \/ nv.regions.dla # <<>> /\ nv' = [nv EXCEPT !.regions.dla[1] = v]
      BY <1>3 DEF TableWrite
    <3>2. v \in 0..255
      BY NvramAssumption
    <3>3. ASSUME nv.regions.table # <<>>, nv' = [nv EXCEPT !.regions.table[1] = v]
          PROVE  \E r \in Regions : /\ nv' = [nv EXCEPT !.regions = r]
                                    /\ r.nvram = nv.regions.nvram
                                    /\ Fits(nv.regions) => Fits(r)
      <4> DEFINE table == [nv.regions.table EXCEPT ![1] = v]
                 r == [nv.regions EXCEPT !.table = table]
      <4>1. nv.regions.table \in Seq(0..255)
        BY <1>0 DEF Regions
      <4>2. table \in Seq(0..255) /\ Len(table) = Len(nv.regions.table)
        BY <3>2, <3>3, <4>1, SetFirst
      <4>3. nv' = [nv EXCEPT !.regions = r]
        BY <1>0, <3>3 DEF NvRecords, Regions
      <4> HIDE DEF table
      <4>4. r \in Regions /\ r.nvram = nv.regions.nvram /\ (Fits(nv.regions) => Fits(r))
        BY <1>0, <4>2, ZenonT(60) DEF Regions, Fits
      <4> QED
        BY <4>3, <4>4
    <3>4. ASSUME nv.regions.dla # <<>>, nv' = [nv EXCEPT !.regions.dla[1] = v]
          PROVE  \E r \in Regions : /\ nv' = [nv EXCEPT !.regions = r]
                                    /\ r.nvram = nv.regions.nvram
                                    /\ Fits(nv.regions) => Fits(r)
      <4> DEFINE dla == [nv.regions.dla EXCEPT ![1] = v]
                 r == [nv.regions EXCEPT !.dla = dla]
      <4>1. nv.regions.dla \in Seq(0..255)
        BY <1>0 DEF Regions
      <4>2. dla \in Seq(0..255) /\ Len(dla) = Len(nv.regions.dla)
        BY <3>2, <3>4, <4>1, SetFirst
      <4>3. nv' = [nv EXCEPT !.regions = r]
        BY <1>0, <3>4 DEF NvRecords, Regions
      <4> HIDE DEF dla
      <4>4. r \in Regions /\ r.nvram = nv.regions.nvram /\ (Fits(nv.regions) => Fits(r))
        BY <1>0, <4>2, ZenonT(60) DEF Regions, Fits
      <4> QED
        BY <4>3, <4>4
    <3> QED
      BY <3>1, <3>3, <3>4
  <2>2. /\ nv' \in NvRecords /\ nv'.regions = r /\ nv'.start = nv.start
        /\ nv'.summed = nv.summed /\ nv'.sum = nv.sum
    BY <1>0, <2>1, ZenonT(60) DEF NvRecords
  <2>3. NvramOK(nv')
    BY <1>0, <2>1, <2>2 DEF NvramOK
  <2> QED
    BY <1>1, <1>3, <2>3 DEF TableWrite
<1>4. CASE SessionEnds
  <2>1. nvBlob' \in Regions /\ nv' = Cleared("none") /\ UNCHANGED nvEnvelope
    BY <1>0, <1>4 DEF SessionEnds
  <2>2. NvramOK(nv')
    BY <2>1, ClearedOK DEF NvStarts
  <2>3. EnvelopeOK'
    BY <1>0, <2>1 DEF EnvelopeOK
  <2> QED
    BY <2>1, <2>2, <2>3, ZenonT(60) DEF NvramInv, NvramOK, NvRecords, NvStarts, Regions, Fits, Sum8
<1>5. CASE StartFromBlob
  <2> DEFINE a == [Cleared("blob") EXCEPT !.regions = nvBlob]
             b == [Cleared("refused") EXCEPT !.regions = nvBlob]
  <2>1. nv' = IF ~Fits(nvBlob) THEN b ELSE IF HoldsSentinels(nvBlob.nvram) THEN Summed(a) ELSE Recovered(a)
    BY <1>5 DEF StartFromBlob
  <2>2. a \in NvRecords /\ a.regions = nvBlob
    BY <1>0, ClearedOK, ZenonT(60) DEF NvStarts, NvRecords
  <2>3. b \in NvRecords /\ b.start = "refused" /\ ~b.summed
    BY <1>0, ClearedOK, ZenonT(60) DEF NvStarts, NvRecords
  <2> HIDE DEF a, b
  <2>4. Fits(nvBlob) => NvramOK(Summed(a)) /\ NvramOK(Recovered(a))
    BY <2>2, SummedHonest, RecoveredOK
  <2>5. NvramOK(b)
    BY <2>3 DEF NvramOK
  <2>6. NvramOK(nv')
    BY <2>1, <2>4, <2>5
  <2> QED
    BY <1>1, <1>5, <2>6 DEF StartFromBlob
<1>6. CASE StartFromOtherBlob
  <2> DEFINE c == Cleared("refused")
  <2>1. c \in NvRecords /\ c.start = "refused" /\ ~c.summed /\ NvramOK(c)
    BY ClearedOK DEF NvStarts
  <2>2. ZeroOctets(NvramSize - 1) \in Seq(0..255)
    BY ZeroOctetsType, NvramAssumption
  <2>3. nv' \in {c, [c EXCEPT !.regions.nvram = ZeroOctets(NvramSize - 1)]}
    BY <1>6 DEF StartFromOtherBlob
  <2> HIDE DEF c
  <2>4. ASSUME NEW octets \in Seq(0..255), nv' = [c EXCEPT !.regions.nvram = octets]
        PROVE  NvramOK(nv')
    BY <2>1, <2>4, NewNvram DEF NvramOK
  <2>5. NvramOK(nv')
    BY <2>1, <2>2, <2>3, <2>4, Zenon
  <2> QED
    BY <1>1, <1>6, <2>5 DEF StartFromOtherBlob
<1>7. CASE SaveEnvelope
  <2> DEFINE q == Sum8(nv.regions.nvram)
  <2>1. q \in 0..255
    BY <1>0, Sum8Type
  <2>2. /\ nvEnvelope' = [octets |-> nv.regions.nvram, sum |-> q, present |-> TRUE]
        /\ Len(nv.regions.nvram) = NvramSize /\ UNCHANGED <<nv, nvBlob>>
    BY <1>7 DEF SaveEnvelope
  <2> HIDE DEF q
  <2>3. EnvelopeOK'
    BY <1>0, <2>1, <2>2 DEF EnvelopeOK
  <2>4. NvramOK(nv') /\ nvBlob' \in Regions
    BY <1>0, <2>2
  <2> QED
    BY <2>3, <2>4, ZenonT(60) DEF NvramInv, NvramOK, NvRecords, NvStarts, Regions, Fits, Sum8
<1>8. CASE StartFromEnvelope
  <2> DEFINE octets == Unpacked(nvEnvelope.octets)
             c == Cleared("envelope")
             r == [c.regions EXCEPT !.nvram = octets]
             m == Sum8(octets) # nvEnvelope.sum
  <2>1. nv' = [c EXCEPT !.regions = r, !.mismatch = m]
    BY <1>8, ClearedOK DEF StartFromEnvelope, NvStarts, NvRecords, Regions
  <2>2. nvEnvelope.octets \in Seq(0..255) /\ Len(nvEnvelope.octets) = NvramSize
    BY <1>0, <1>8 DEF EnvelopeOK, StartFromEnvelope
  <2>3. octets \in Seq(0..255) /\ Len(octets) = NvramSize
    <3>1. \A i \in 1..NvramSize : nvEnvelope.octets[i] \in 0..255
      BY <2>2, ElementOfSeq
    <3>2. octets = [i \in 1..NvramSize |->
                      IF i <= 3 * (NvramSize \div 3) THEN nvEnvelope.octets[i] ELSE 0]
      BY <2>2 DEF Unpacked
    <3> HIDE DEF octets
    <3>3. octets \in [1..NvramSize -> 0..255]
      <4>1. \A i \in 1..NvramSize : octets[i] \in 0..255
        BY <3>1, <3>2
      <4>2. octets = [i \in 1..NvramSize |-> octets[i]]
        BY <3>2
      <4> QED
        BY <4>1, <4>2
    <3> QED
      BY <3>3, NvramAssumption, SeqOfFunction
  <2>4. c \in NvRecords /\ Fits(c.regions) /\ ~c.summed
    BY ClearedOK DEF NvStarts
  <2>5. m \in BOOLEAN
    OBVIOUS
  <2> HIDE DEF octets, c, m
  <2>6. r \in Regions /\ Fits(r)
    BY <2>3, <2>4 DEF NvRecords, Regions, Fits
  <2> HIDE DEF r
  <2>7. nv' \in NvRecords /\ nv'.regions = r /\ nv'.summed = c.summed
    BY <2>1, <2>4, <2>5, <2>6 DEF NvRecords
  <2>8. NvramOK(nv')
    BY <2>4, <2>6, <2>7 DEF NvramOK
  <2> QED
    BY <1>1, <1>8, <2>8 DEF StartFromEnvelope
<1>9. CASE StartFromOtherEnvelope
  <2> DEFINE c == Cleared("refused")
             f == Cleared("foreign")
  <2>1. /\ c \in NvRecords /\ c.start = "refused" /\ ~c.summed /\ NvramOK(c)
        /\ f \in NvRecords /\ f.start = "foreign" /\ ~f.summed /\ Fits(f.regions)
    BY ClearedOK DEF NvStarts
  <2>2. /\ <<>> \in Seq(0..255)
        /\ ZeroOctets(NvramSize) \in Seq(0..255) /\ Len(ZeroOctets(NvramSize)) = NvramSize
        /\ Seeded(NvramSize) \in Seq(0..255) /\ Len(Seeded(NvramSize)) = NvramSize
    BY ZeroOctetsType, SeededType, NvramAssumption
  <2>3. \/ nv' = c
        \/ nv' = [c EXCEPT !.regions.nvram = <<>>]
        \/ \E octets \in {ZeroOctets(NvramSize), Seeded(NvramSize)} :
              \/ nv' = [c EXCEPT !.regions.nvram = octets]
              \/ \E mismatch \in BOOLEAN :
                    nv' = [f EXCEPT !.regions.nvram = octets, !.mismatch = mismatch]
    BY <1>9, Zenon DEF StartFromOtherEnvelope
  <2> HIDE DEF c, f
  <2>4. ASSUME NEW octets \in Seq(0..255), nv' = [c EXCEPT !.regions.nvram = octets]
        PROVE  NvramOK(nv')
    BY <2>1, <2>4, NewNvram DEF NvramOK
  <2>5. ASSUME NEW octets \in Seq(0..255), Len(octets) = NvramSize, NEW mismatch \in BOOLEAN,
               nv' = [f EXCEPT !.regions.nvram = octets, !.mismatch = mismatch]
        PROVE  NvramOK(nv')
    <3> DEFINE n == [f EXCEPT !.regions.nvram = octets]
    <3>1. n \in NvRecords /\ n.start = "foreign" /\ ~n.summed /\ Fits(n.regions)
      BY <2>1, <2>5, NewNvram
    <3>2. nv' = [n EXCEPT !.mismatch = mismatch]
      BY <2>1, <2>5 DEF NvRecords
    <3> HIDE DEF n
    <3>3. /\ nv' \in NvRecords /\ nv'.regions = n.regions
          /\ nv'.start = n.start /\ nv'.summed = n.summed
      BY <3>1, <3>2, ZenonT(60) DEF NvRecords
    <3> QED
      BY <3>1, <3>3 DEF NvramOK
  <2>6. NvramOK(nv')
    BY <2>1, <2>2, <2>3, <2>4, <2>5, Zenon
  <2> QED
    BY <1>1, <1>9, <2>6, Zenon DEF StartFromOtherEnvelope
<1>10. CASE StartFromDefault
  <2>1. NvramOK(Recovered(Cleared("default")))
    BY ClearedOK, RecoveredOK DEF NvStarts
  <2> QED
    BY <1>1, <1>10, <2>1 DEF StartFromDefault
<1>11. CASE UNCHANGED nvVars
  <2>1. NvramOK(nv') /\ UNCHANGED <<nvBlob, nvEnvelope>>
    BY <1>0, <1>11 DEF nvVars
  <2> QED
    BY <1>1, <2>1
<1> QED
  BY <1>2, <1>3, <1>4, <1>5, <1>6, <1>7, <1>8, <1>9, <1>10, <1>11 DEF NvramNext

-------------------------------------------------------------------------------
(* Decimal arithmetic: between an add and its adjust, A and the two carries hold the sum  *)
(* of two pairs of digits, sixteens the sum of the high ones and units that of the low.   *)

AluInv ==
    /\ AluTypeOK
    /\ alu.adjusted => \E h \in 0..9, l \in 0..9 :
          /\ alu.a = (16 * h) + l
          /\ alu.due = (10 * h) + l + (100 * OfBit(alu.carry))
    /\ ~alu.adjusted => \E s \in 0..18, u \in 0..19 :
          /\ alu.a = ((16 * s) + u) % 256
          /\ alu.carry <=> (16 * s) + u > 255
          /\ alu.half <=> u > 15
          /\ alu.due = (10 * s) + u

AluRecords == [a : 0..255, carry : BOOLEAN, half : BOOLEAN, due : 0..199, adjusted : BOOLEAN]

AluWith(x, a, carry, half, due, adjusted) ==
    [x EXCEPT !.a = a, !.carry = carry, !.half = half, !.due = due, !.adjusted = adjusted]

LEMMA AluSet ==
    ASSUME NEW x \in AluRecords, NEW a \in 0..255, NEW carry \in BOOLEAN, NEW half \in BOOLEAN,
           NEW due \in 0..199, NEW adjusted \in BOOLEAN
    PROVE  AluWith(x, a, carry, half, due, adjusted) \in AluRecords
<1> DEFINE A == 0..255
           B == BOOLEAN
           D == 0..199
           y == AluWith(x, a, carry, half, due, adjusted)
<1>1. [a : A, carry : B, half : B, due : D, adjusted : B] = AluRecords
  BY DEF AluRecords
<1>2. a \in A /\ carry \in B /\ half \in B /\ due \in D /\ adjusted \in B
  OBVIOUS
<1> HIDE DEF A, B, D
<1>3. y \in [a : A, carry : B, half : B, due : D, adjusted : B]
  BY <1>1, <1>2, Zenon DEF AluWith
<1> QED
  BY <1>1, <1>3

LEMMA NibbleParts ==
    ASSUME NEW h \in 0..40, NEW l \in 0..15
    PROVE  ((16 * h) + l) % 16 = l /\ ((16 * h) + l) \div 16 = h
  BY SMTT(30)

LEMMA DecimalDigits ==
    ASSUME NEW v \in Decimals
    PROVE  \E h \in 0..9, l \in 0..9 : v = (16 * h) + l /\ DecimalValue(v) = (10 * h) + l
<1>1. v \in 0..255 /\ v % 16 <= 9 /\ v \div 16 <= 9
  BY DecimalAssumption
<1>2. PICK h \in Nat, l \in Nat : h = v \div 16 /\ l = v % 16
  BY <1>1
<1>3. v = (16 * h) + l
  BY <1>1, <1>2, SMTT(30)
<1>4. h \in 0..9 /\ l \in 0..9
  BY <1>1, <1>2
<1> QED
  BY <1>2, <1>3, <1>4 DEF DecimalValue

LEMMA BitThree ==
    ASSUME NEW h \in 0..40, NEW l \in 0..15
    PROVE  Bit3((16 * h) + l) <=> l > 7
<1>1. CASE l > 7
  <2>1. ((16 * h) + l) \div 8 = (2 * h) + 1
    BY <1>1, SMTT(30)
  <2>2. ((2 * h) + 1) % 2 = 1
    BY SMTT(30)
  <2> QED
    BY <1>1, <2>1, <2>2 DEF Bit3
<1>2. CASE l <= 7
  <2>1. ((16 * h) + l) \div 8 = 2 * h
    BY <1>2, SMTT(30)
  <2>2. (2 * h) % 2 = 0
    BY SMTT(30)
  <2> QED
    BY <1>2, <2>1, <2>2 DEF Bit3
<1> QED
  BY <1>1, <1>2

\* The nibble carry is right for any terms whose low digits are those.
LEMMA NibbleCarry ==
    ASSUME NEW h \in 0..9, NEW l \in 0..9, NEW k \in 0..9, NEW m \in 0..10
    PROVE  HalfCarry((16 * h) + l, (16 * k) + m, (16 * (h + k)) + (l + m)) <=> l + m > 15
<1>1. (Bit3((16 * h) + l) <=> l > 7) /\ (Bit3((16 * k) + m) <=> m > 7)
  BY BitThree
<1>2. CASE l + m > 15
  <2>1. h + k + 1 \in 0..40 /\ l + m - 16 \in 0..15
    BY <1>2
  <2>2. (16 * (h + k + 1)) + (l + m - 16) = (16 * (h + k)) + (l + m)
    OBVIOUS
  <2>3. ~Bit3((16 * (h + k)) + (l + m))
    <3>1. Bit3((16 * (h + k + 1)) + (l + m - 16)) <=> l + m - 16 > 7
      BY <2>1, BitThree
    <3> QED
      BY <2>2, <3>1
  <2> QED
    BY <1>1, <1>2, <2>3 DEF HalfCarry
<1>3. CASE l + m <= 15
  <2>1. Bit3((16 * (h + k)) + (l + m)) <=> l + m > 7
    <3>1. h + k \in 0..40 /\ l + m \in 0..15
      BY <1>3
    <3> QED
      BY <3>1, BitThree
  <2> QED
    BY <1>1, <1>3, <2>1 DEF HalfCarry
<1> QED
  BY <1>2, <1>3

LEMMA AddedSum ==
    ASSUME AluInv, alu.adjusted, NEW v \in Decimals, NEW c \in BOOLEAN, alu' = Added(v, c)
    PROVE  AluInv'
<1> DEFINE bit == OfBit(c)
           sum == alu.a + v + bit
<1>1. PICK h \in 0..9, l \in 0..9 : alu.a = (16 * h) + l
  BY DEF AluInv
<1>2. PICK k \in 0..9, m \in 0..9 : v = (16 * k) + m /\ DecimalValue(v) = (10 * k) + m
  BY DecimalDigits
<1>3. bit \in 0..1
  BY DEF OfBit
<1> HIDE DEF bit
<1>4. DecimalValue(alu.a) = (10 * h) + l
  <2>1. h \in 0..40 /\ l \in 0..15
    OBVIOUS
  <2> QED
    BY <1>1, <2>1, NibbleParts DEF DecimalValue
<1>5. (v + bit) % 256 = (16 * k) + (m + bit)
  <2>1. v + bit = (16 * k) + (m + bit) /\ v + bit \in 0..255
    BY <1>2, <1>3
  <2>2. \A n \in 0..255 : n % 256 = n
    OBVIOUS
  <2> QED
    BY <2>1, <2>2
<1>6. sum = (16 * (h + k)) + (l + (m + bit)) /\ sum \in Nat
  BY <1>1, <1>2, <1>3
<1>7. HalfCarry(alu.a, (v + bit) % 256, sum) <=> l + (m + bit) > 15
  <2>1. m + bit \in 0..10
    BY <1>3
  <2> DEFINE n == m + bit
  <2>2. n \in 0..10
    BY <2>1
  <2> HIDE DEF n
  <2>3. HalfCarry((16 * h) + l, (16 * k) + n, (16 * (h + k)) + (l + n)) <=> l + n > 15
    BY <2>2, NibbleCarry
  <2> QED
    BY <1>1, <1>5, <1>6, <2>3 DEF n
<1> DEFINE half == HalfCarry(alu.a, (v + bit) % 256, sum)
           carry == sum > 255
           a == sum % 256
           due == DecimalValue(alu.a) + DecimalValue(v) + bit
<1>8. alu' = [alu EXCEPT !.a = a, !.carry = carry, !.half = half, !.due = due, !.adjusted = FALSE]
  BY DEF Added, bit
<1>9. half \in BOOLEAN /\ carry \in BOOLEAN
  BY DEF HalfCarry
<1>10. due = (10 * (h + k)) + (l + (m + bit)) /\ due \in 0..199
  BY <1>2, <1>3, <1>4
<1>11. a \in 0..255
  BY <1>6
<1> DEFINE s == h + k
           u == l + (m + bit)
<1>12. s \in 0..18 /\ u \in 0..19
  BY <1>3
<1>13. a = ((16 * s) + u) % 256 /\ (carry <=> (16 * s) + u > 255) /\ (half <=> u > 15) /\ due = (10 * s) + u
  BY <1>6, <1>7, <1>10
<1> HIDE DEF half, carry, a, due, s, u
<1>14. alu \in [a : 0..255, carry : BOOLEAN, half : BOOLEAN, due : 0..199, adjusted : BOOLEAN]
  BY DEF AluInv, AluTypeOK
<1>15. AluTypeOK'
  <2>1. due \in 0..199
    BY <1>10
  <2> QED
    <3>1. alu \in AluRecords /\ FALSE \in BOOLEAN
      BY <1>14 DEF AluRecords
    <3>2. alu' = AluWith(alu, a, carry, half, due, FALSE)
      BY <1>8 DEF AluWith
    <3>3. AluWith(alu, a, carry, half, due, FALSE) \in AluRecords
      <4>1. a \in 0..255 /\ carry \in BOOLEAN /\ half \in BOOLEAN /\ due \in 0..199
        BY <1>9, <1>11, <2>1
      <4> QED
        BY ONLY <3>1, <4>1, AluSet, ZenonT(60)
    <3>4. alu' \in AluRecords
      BY <3>2, <3>3
    <3> QED
      BY <3>4 DEF AluTypeOK, AluRecords
<1>16. ~alu'.adjusted /\ alu'.a = a /\ alu'.carry = carry /\ alu'.half = half /\ alu'.due = due
  BY <1>8, <1>14
<1> QED
  BY <1>12, <1>13, <1>15, <1>16, ZenonT(60) DEF AluInv

LEMMA AdjustedSum ==
    ASSUME AluInv, ~alu.adjusted, alu' = Adjusted
    PROVE  AluInv'
<1>1. PICK s \in 0..18, u \in 0..19 :
         /\ alu.a = ((16 * s) + u) % 256
         /\ alu.carry <=> (16 * s) + u > 255
         /\ alu.half <=> u > 15
         /\ alu.due = (10 * s) + u
  BY DEF AluInv
<1> DEFINE low == alu.a % 16
           high == alu.a \div 16
           sixes == alu.half \/ low > 9
           tens == alu.carry \/ high > 9 \/ (low > 9 /\ high = 9)
           adjust == (IF sixes THEN 6 ELSE 0) + (IF tens THEN 96 ELSE 0)
           a == (alu.a + adjust) % 256
           carry == alu.carry \/ tens
\* the sum of the high digits with what the low ones carry into their nibble
<1>2. PICK q \in 0..19, r \in 0..15 :
         /\ (16 * s) + u = (16 * q) + r
         /\ IF u > 15 THEN q = s + 1 /\ r = u - 16 ELSE q = s /\ r = u
  <2>1. CASE u > 15
    <3>1. s + 1 \in 0..19 /\ u - 16 \in 0..15 /\ (16 * s) + u = (16 * (s + 1)) + (u - 16)
      BY <2>1
    <3> QED
      BY <2>1, <3>1
  <2>2. CASE u <= 15
    <3>1. s \in 0..19 /\ u \in 0..15
      BY <2>2
    <3> QED
      BY <2>2, <3>1
  <2> QED
    BY <2>1, <2>2
<1>3. PICK p \in 0..15 : /\ alu.a = (16 * p) + r
                         /\ IF q > 15 THEN p = q - 16 /\ alu.carry ELSE p = q /\ ~alu.carry
  <2>1. \A n \in 0..255 : n % 256 = n /\ (n + 256) % 256 = n
    OBVIOUS
  <2>2. CASE q > 15
    <3>1. q - 16 \in 0..15 /\ (16 * (q - 16)) + r \in 0..255 /\ (16 * q) + r = (16 * (q - 16)) + r + 256
      BY <2>2
    <3>2. alu.a = (16 * (q - 16)) + r
      BY <1>1, <1>2, <2>1, <3>1
    <3>3. alu.carry
      BY <1>1, <1>2, <3>1
    <3> QED
      BY <2>2, <3>1, <3>2, <3>3
  <2>3. CASE q <= 15
    <3>1. q \in 0..15 /\ (16 * q) + r \in 0..255
      BY <2>3
    <3>2. alu.a = (16 * q) + r
      BY <1>1, <1>2, <2>1, <3>1
    <3>3. ~alu.carry
      BY <1>1, <1>2, <3>1
    <3> QED
      BY <2>3, <3>1, <3>2, <3>3
  <2> QED
    BY <2>2, <2>3
<1>4. low = r /\ high = p
  BY <1>3, NibbleParts
<1>5. alu' = [alu EXCEPT !.a = a, !.carry = carry, !.adjusted = TRUE]
  BY DEF Adjusted
<1>6. alu \in [a : 0..255, carry : BOOLEAN, half : BOOLEAN, due : 0..199, adjusted : BOOLEAN]
  BY DEF AluInv, AluTypeOK
\* the digit carried, and the digits left
<1>7. PICK d \in 0..1 : IF u > 9 THEN d = 1 ELSE d = 0
  OBVIOUS
<1>8. (sixes <=> d = 1) /\ (tens <=> s + d > 9)
  <2>1. sixes <=> u > 9
    BY <1>1, <1>2, <1>4
  <2>2. (alu.carry \/ p > 9) <=> q > 9
    BY <1>3
  <2>3. tens <=> (q > 9 \/ (r > 9 /\ q = 9))
    BY <1>3, <1>4, <2>2
  <2> HIDE DEF sixes, tens
  <2>4. (q > 9 \/ (r > 9 /\ q = 9)) <=> s + d > 9
    BY <1>2, <1>7
  <2> QED
    BY <1>7, <2>1, <2>3, <2>4
<1>9. adjust = (6 * d) + (IF s + d > 9 THEN 96 ELSE 0)
  <2> HIDE DEF sixes, tens
  <2> QED
    BY <1>8
<1> DEFINE l == IF u > 9 THEN u - 10 ELSE u
           h == IF s + d > 9 THEN s + d - 10 ELSE s + d
<1>10. l \in 0..9 /\ h \in 0..9
  BY <1>7
<1>11. (16 * q) + r + (6 * d) = (16 * (s + d)) + l
  BY <1>2, <1>7
<1>12. a = (16 * h) + l
  <2>1. alu.a = (16 * q) + r \/ alu.a + 256 = (16 * q) + r
    BY <1>3
  <2>2. (16 * q) + r + adjust = (16 * h) + l \/ (16 * q) + r + adjust = (16 * h) + l + 256
    <3> HIDE DEF adjust, l
    <3>1. CASE s + d > 9
      <4>1. adjust = (6 * d) + 96 /\ h = s + d - 10
        BY <1>9, <3>1
      <4> QED
        BY <1>10, <1>11, <4>1
    <3>2. CASE s + d <= 9
      <4>1. adjust = 6 * d /\ h = s + d
        BY <1>9, <3>2
      <4> QED
        BY <1>10, <1>11, <4>1
    <3> QED
      BY <3>1, <3>2
  <2>3. (16 * h) + l \in 0..255 /\ alu.a \in 0..255
    BY <1>6, <1>10
  <2>4. adjust \in 0..102
    BY <1>9
  <2> HIDE DEF adjust, l, h
  <2> DEFINE x == alu.a + adjust
             y == (16 * h) + l
  <2>5. y \in 0..255 /\ x \in Nat /\ (x = y \/ x = y + 256 \/ x + 256 = y \/ x + 256 = y + 256)
    BY <1>10, <2>1, <2>2, <2>3, <2>4, SMTT(60)
  <2>6. a = x % 256
    OBVIOUS
  <2> HIDE DEF x, y, a
  <2>7. x = y \/ x = y + 256
    BY <2>5
  <2>8. y % 256 = y /\ (y + 256) % 256 = y
    BY <2>5
  <2> QED
    BY <2>6, <2>7, <2>8 DEF y
<1>13. carry \in BOOLEAN /\ (carry <=> s + d > 9)
  <2>1. alu.carry => s + d > 9
    BY <1>2, <1>3
  <2> HIDE DEF tens
  <2> QED
    BY <1>6, <1>8, <2>1
<1>14. alu.due = (10 * h) + l + (100 * OfBit(carry))
  <2>1. OfBit(carry) = IF s + d > 9 THEN 1 ELSE 0
    BY <1>13 DEF OfBit
  <2> HIDE DEF carry
  <2> QED
    BY <1>1, <1>7, <2>1
<1> HIDE DEF a, carry, l, h
<1>15. a \in 0..255
  BY <1>10, <1>12
<1>16. AluTypeOK'
  <2>1. /\ alu.half \in BOOLEAN /\ alu.due \in 0..199
        /\ alu' = [alu EXCEPT !.a = a, !.carry = carry, !.half = alu.half, !.due = alu.due, !.adjusted = TRUE]
    BY <1>5, <1>6
  <2> QED
    <3>1. alu \in AluRecords /\ TRUE \in BOOLEAN
      BY <1>6 DEF AluRecords
    <3>2. alu' = AluWith(alu, a, carry, alu.half, alu.due, TRUE)
      BY <2>1 DEF AluWith
    <3>3. AluWith(alu, a, carry, alu.half, alu.due, TRUE) \in AluRecords
      <4>1. a \in 0..255 /\ carry \in BOOLEAN /\ alu.half \in BOOLEAN /\ alu.due \in 0..199
        BY <1>13, <1>15, <2>1
      <4> QED
        BY ONLY <3>1, <4>1, AluSet, ZenonT(60)
    <3>4. alu' \in AluRecords
      BY <3>2, <3>3
    <3> QED
      BY <3>4 DEF AluTypeOK, AluRecords
<1>17. alu'.adjusted /\ alu'.a = a /\ alu'.carry = carry /\ alu'.due = alu.due
  BY <1>5, <1>6
<1> QED
  BY <1>10, <1>12, <1>14, <1>16, <1>17 DEF AluInv

LEMMA AluInitInv == AluInit => AluInv
<1> SUFFICES ASSUME NEW v \in Decimals, NEW c \in BOOLEAN,
                    alu = [a |-> v, carry |-> c, half |-> FALSE,
                           due |-> DecimalValue(v) + (100 * OfBit(c)), adjusted |-> TRUE]
             PROVE  AluInv
  BY DEF AluInit
<1>1. PICK h \in 0..9, l \in 0..9 : v = (16 * h) + l /\ DecimalValue(v) = (10 * h) + l
  BY DecimalDigits
<1>2. OfBit(c) \in 0..1
  BY DEF OfBit
<1>3. v \in 0..255 /\ DecimalValue(v) + (100 * OfBit(c)) \in 0..199
  BY <1>1, <1>2
<1> QED
  BY <1>1, <1>3 DEF AluInv, AluTypeOK

LEMMA AluStepInv == AluInv /\ [AluNext]_aluVars => AluInv'
<1> SUFFICES ASSUME AluInv, [AluNext]_aluVars PROVE AluInv'
  OBVIOUS
<1>1. CASE AluAdd
  BY <1>1, AddedSum DEF AluAdd
<1>2. CASE AluAddc
  <2>1. alu.carry \in BOOLEAN
    BY DEF AluInv, AluTypeOK
  <2> QED
    BY <1>2, <2>1, AddedSum DEF AluAddc
<1>3. CASE AluDecimalAdjust
  BY <1>3, AdjustedSum DEF AluDecimalAdjust
<1>4. CASE UNCHANGED aluVars
  BY <1>4 DEF aluVars, AluInv, AluTypeOK
<1> QED
  BY <1>1, <1>2, <1>3, <1>4 DEF AluNext

LEMMA AluInvImplies == AluInv => AluTypeOK /\ DecimalExact
<1> SUFFICES ASSUME AluInv, alu.adjusted
             PROVE  DecimalValue(alu.a) + (100 * OfBit(alu.carry)) = alu.due
  BY DEF AluInv, DecimalExact
<1>1. PICK h \in 0..9, l \in 0..9 :
         alu.a = (16 * h) + l /\ alu.due = (10 * h) + l + (100 * OfBit(alu.carry))
  BY DEF AluInv
<1>2. h \in 0..40 /\ l \in 0..15
  OBVIOUS
<1>3. DecimalValue(alu.a) = (10 * h) + l
  BY <1>1, <1>2, NibbleParts DEF DecimalValue
<1> QED
  BY <1>1, <1>3

-------------------------------------------------------------------------------
(* The telephony backend: the flags of the contract rest on octets already given, and    *)
(* the answers given and those still held are the ones written.                          *)

BackendRecords ==
    [queued : 0..MaxQueuedTp, replies : Seq(0..255), seized : BOOLEAN, offHook : BOOLEAN,
     oos : BOOLEAN, voice : BOOLEAN, tone : Tones, output : Tones, polled : BOOLEAN,
     ack : BOOLEAN, error : BOOLEAN, status : BOOLEAN, contract : BOOLEAN]

BackendInv ==
    /\ BackendTypeOK
    /\ BackendSound
    /\ tp.ack => Seen(tpGiven["norm"], PowerAck)
    /\ tp.error => Seen(tpGiven["prio"], {ErrorHeader})
    /\ tp.status => Seen(tpGiven["prio"], {StatusHeader})

\* The octets of s that join a queue, as a run over s.
JoinRun(h, s, queue) ==
    /\ h \in [0..Len(s) -> Seq(0..255)]
    /\ h[0] = <<>>
    /\ \A i \in 1..Len(s) :
         h[i] = IF QueueOf(s[i]) = queue THEN Append(h[i - 1], s[i]) ELSE h[i - 1]

LEMMA ForQueueRun ==
    ASSUME NEW s \in Seq(0..255), NEW queue
    PROVE  \E h : JoinRun(h, s, queue) /\ ForQueue(s, queue) = h[Len(s)]
<1> DEFINE N == Len(s)
           Q == Seq(0..255)
           Joins(h) == h = [i \in 0..N |-> IF i = 0 THEN <<>>
                                          ELSE IF QueueOf(s[i]) = queue THEN Append(h[i - 1], s[i])
                                          ELSE h[i - 1]]
           x == CHOOSE h : Joins(h)
           step == [i \in 1..N |-> [t \in Q |-> IF QueueOf(s[i]) = queue THEN Append(t, s[i]) ELSE t]]
<1>1. N \in Nat /\ <<>> \in Q /\ \A i \in 1..N : s[i] \in 0..255
  <2>1. \A i \in 1..Len(s) : s[i] \in 0..255
    BY ElementOfSeq
  <2>2. Len(s) \in Nat
    BY LenProperties, Zenon
  <2> QED
    BY <2>1, <2>2, EmptySeq, Zenon
<1>2. \A t \in Q, i \in 1..N :
         /\ step[i][t] \in Q
         /\ step[i][t] = IF QueueOf(s[i]) = queue THEN Append(t, s[i]) ELSE t
  <2> SUFFICES ASSUME NEW t \in Q, NEW i \in 1..N
               PROVE  (IF QueueOf(s[i]) = queue THEN Append(t, s[i]) ELSE t) \in Q
    OBVIOUS
  <2>1. Append(t, s[i]) \in Q
    BY <1>1, AppendProperties
  <2> QED
    BY <2>1
<1>3. PICK g : IsRun(g, step, <<>>, N, Q)
  <2>1. StepsWithin(step, N, Q)
    BY <1>2 DEF StepsWithin
  <2> HIDE DEF step, N, Q
  <2> QED
    BY <1>1, <2>1, Iterated
<1>4. g \in [0..N -> Q] /\ g[0] = <<>> /\ \A i \in 1..N : g[i] = step[i][g[i - 1]]
  <2> HIDE DEF step, N, Q
  <2> QED
    BY <1>3 DEF IsRun
<1> HIDE DEF step, N, Q
<1>5. \A i \in 1..N : /\ i \in 0..N /\ i # 0 /\ i - 1 \in 0..N
                      /\ g[i] = IF QueueOf(s[i]) = queue THEN Append(g[i - 1], s[i]) ELSE g[i - 1]
  <2> SUFFICES ASSUME NEW i \in 1..N
               PROVE  /\ i \in 0..N /\ i # 0 /\ i - 1 \in 0..N
                      /\ g[i] = IF QueueOf(s[i]) = queue THEN Append(g[i - 1], s[i]) ELSE g[i - 1]
    OBVIOUS
  <2>1. i \in 0..N /\ i # 0 /\ i - 1 \in 0..N
    BY <1>1
  <2>2. g[i - 1] \in Q /\ g[i] = step[i][g[i - 1]]
    BY <1>4, <2>1
  <2> QED
    BY <1>2, <2>1, <2>2
<1>6. Joins(g)
  <2>1. \A i \in 0..N : i = 0 \/ i \in 1..N
    BY <1>1
  <2>2. \A i \in 0..N : g[i] = IF i = 0 THEN <<>>
                                ELSE IF QueueOf(s[i]) = queue THEN Append(g[i - 1], s[i])
                                ELSE g[i - 1]
    BY <1>4, <1>5, <2>1
  <2>3. g = [i \in 0..N |-> g[i]]
    BY <1>4
  <2> QED
    BY <2>2, <2>3
<1>7. Joins(x)
  BY <1>6
<1>8. ForQueue(s, queue) = x[N]
  BY DEF ForQueue, N
<1> HIDE DEF x
<1>9. x[0] = <<>> /\ \A i \in 1..N :
         x[i] = IF QueueOf(s[i]) = queue THEN Append(x[i - 1], s[i]) ELSE x[i - 1]
  <2>1. 0 \in 0..N
    BY <1>1
  <2> QED
    BY <1>5, <1>7, <2>1
<1> DEFINE T == {i \in 0..N : x[i] \in Q}
<1>10. \A i \in 0..N : i \in T
  <2>1. 0 \in T
    BY <1>1, <1>9
  <2>2. ASSUME NEW i \in 1..N, i - 1 \in T PROVE i \in T
    <3>1. Append(x[i - 1], s[i]) \in Q
      BY <1>1, <2>2, AppendProperties DEF Q
    <3> QED
      BY <1>5, <1>9, <2>2, <3>1
  <2> HIDE DEF T
  <2> QED
    BY <1>1, <2>1, <2>2, UpTo
<1>11. x \in [0..N -> Q]
  BY <1>7, <1>10
<1> QED
  BY <1>8, <1>9, <1>11 DEF JoinRun, N, Q

LEMMA ForQueueType ==
    ASSUME NEW s \in Seq(0..255), NEW queue
    PROVE  ForQueue(s, queue) \in Seq(0..255)
<1>1. PICK h : JoinRun(h, s, queue) /\ ForQueue(s, queue) = h[Len(s)]
  BY ForQueueRun
<1>2. Len(s) \in 0..Len(s)
  BY LenProperties
<1> QED
  BY <1>1, <1>2 DEF JoinRun

LEMMA ForQueueEmpty == ASSUME NEW queue PROVE ForQueue(<<>>, queue) = <<>>
<1>1. <<>> \in Seq(0..255) /\ Len(<<>>) = 0
  BY EmptySeq
<1>2. PICK h : JoinRun(h, <<>>, queue) /\ ForQueue(<<>>, queue) = h[Len(<<>>)]
  BY <1>1, ForQueueRun
<1> QED
  BY <1>1, <1>2 DEF JoinRun

\* An octet appended to the second of two lists is appended to both together.
LEMMA AppendJoined ==
    ASSUME NEW a \in Seq(0..255), NEW b \in Seq(0..255), NEW v \in 0..255
    PROVE  Append(a \o b, v) = a \o Append(b, v)
  OBVIOUS

\* What two lists add to a queue is what they add to it one after the other.
LEMMA ForQueueJoined ==
    ASSUME NEW s \in Seq(0..255), NEW t \in Seq(0..255), NEW queue
    PROVE  ForQueue(s \o t, queue) = ForQueue(s, queue) \o ForQueue(t, queue)
<1> DEFINE u == s \o t
           M == Len(s)
           N == Len(t)
<1>1. /\ M \in Nat /\ N \in Nat /\ u \in Seq(0..255) /\ Len(u) = M + N
      /\ \A i \in 1..M : u[i] = s[i]
      /\ \A i \in 1..N : u[M + i] = t[i]
      /\ \A i \in 1..N : t[i] \in 0..255
  <2>1. M \in Nat /\ N \in Nat /\ \A i \in 1..N : t[i] \in 0..255
    BY LenProperties, ElementOfSeq
  <2>2. /\ u \in Seq(0..255) /\ Len(u) = M + N
        /\ \A i \in 1..(M + N) : u[i] = IF i <= M THEN s[i] ELSE t[i - M]
    BY ConcatProperties
  <2> HIDE DEF u, M, N
  <2>3. \A i \in 1..M : u[i] = s[i]
    BY <2>1, <2>2
  <2>4. ASSUME NEW i \in 1..N PROVE u[M + i] = t[i]
    <3>1. M + i \in 1..(M + N) /\ ~(M + i <= M) /\ (M + i) - M = i
      BY <2>1
    <3> QED
      BY <2>2, <3>1
  <2> QED
    BY <2>1, <2>2, <2>3, <2>4
<1>2. PICK hs : JoinRun(hs, s, queue) /\ ForQueue(s, queue) = hs[M]
  BY ForQueueRun
<1>3. PICK ht : JoinRun(ht, t, queue) /\ ForQueue(t, queue) = ht[N]
  BY ForQueueRun
<1> HIDE DEF u
<1>4. PICK hu : JoinRun(hu, u, queue) /\ ForQueue(u, queue) = hu[M + N]
  BY <1>1, ForQueueRun
<1> DEFINE A == {i \in 0..M : hu[i] = hs[i]}
<1>5. hu[M] = hs[M]
  <2>1. 0 \in A
    BY <1>1, <1>2, <1>4 DEF JoinRun
  <2>2. ASSUME NEW i \in 1..M, i - 1 \in A PROVE i \in A
    <3>1. i \in 0..M /\ i \in 1..Len(u) /\ u[i] = s[i] /\ hu[i - 1] = hs[i - 1]
      BY <1>1, <2>2
    <3>2. hu[i] = IF QueueOf(u[i]) = queue THEN Append(hu[i - 1], u[i]) ELSE hu[i - 1]
      BY <1>4, <3>1 DEF JoinRun
    <3>3. hs[i] = IF QueueOf(s[i]) = queue THEN Append(hs[i - 1], s[i]) ELSE hs[i - 1]
      BY <1>2 DEF JoinRun
    <3> QED
      BY <3>1, <3>2, <3>3
  <2>3. M \in 0..M
    BY <1>1
  <2> HIDE DEF A, M
  <2>4. \A i \in 0..M : i \in A
    BY <1>1, <2>1, <2>2, UpTo
  <2> QED
    BY <2>3, <2>4 DEF A
<1> DEFINE B == {i \in 0..N : hu[M + i] = hs[M] \o ht[i]}
<1>6. hs[M] \in Seq(0..255)
  BY <1>1, <1>2 DEF JoinRun
<1>7. hu[M + N] = hs[M] \o ht[N]
  <2>1. 0 \in B
    <3>1. ht[0] = <<>> /\ M + 0 = M /\ 0 \in 0..N
      BY <1>1, <1>3 DEF JoinRun
    <3>2. hs[M] \o <<>> = hs[M]
      BY <1>6, ConcatEmptySeq
    <3> HIDE DEF M, N
    <3>3. hu[M + 0] = hs[M] \o ht[0]
      BY <1>5, <3>1, <3>2
    <3> QED
      BY <3>1, <3>3
  <2>2. ASSUME NEW i \in 1..N, i - 1 \in B PROVE i \in B
    <3>1. /\ i \in 0..N /\ i - 1 \in 0..N /\ M + i \in 1..Len(u) /\ (M + i) - 1 = M + (i - 1)
          /\ u[M + i] = t[i] /\ t[i] \in 0..255 /\ hu[M + (i - 1)] = hs[M] \o ht[i - 1]
      <4>1. hu[M + (i - 1)] = hs[M] \o ht[i - 1]
        BY <2>2
      <4> HIDE DEF B, M, N
      <4> QED
        BY <1>1, <4>1
    <3>2. hu[M + i] = IF QueueOf(u[M + i]) = queue THEN Append(hu[(M + i) - 1], u[M + i])
                      ELSE hu[(M + i) - 1]
      BY <1>4, <3>1 DEF JoinRun
    <3>3. ht[i] = IF QueueOf(t[i]) = queue THEN Append(ht[i - 1], t[i]) ELSE ht[i - 1]
      BY <1>3 DEF JoinRun
    <3>4. ht[i - 1] \in Seq(0..255)
      BY <1>3, <3>1 DEF JoinRun
    <3>5. Append(hs[M] \o ht[i - 1], t[i]) = hs[M] \o Append(ht[i - 1], t[i])
      BY <1>6, <3>1, <3>4, AppendJoined
    <3> QED
      BY <3>1, <3>2, <3>3, <3>5
  <2>3. N \in 0..N
    BY <1>1
  <2> HIDE DEF B, N
  <2>4. \A i \in 0..N : i \in B
    BY <1>1, <2>1, <2>2, UpTo
  <2> QED
    BY <2>3, <2>4 DEF B
<1> QED
  BY <1>2, <1>3, <1>4, <1>7 DEF u

\* An octet of a list is found in its queue.
LEMMA SeenInQueue ==
    ASSUME NEW s \in Seq(0..255), NEW queue, NEW wanted,
           \A v \in wanted : QueueOf(v) = queue, Seen(s, wanted)
    PROVE  Seen(ForQueue(s, queue), wanted)
<1>1. PICK k \in DOMAIN s : s[k] \in wanted
  BY DEF Seen
<1>2. PICK h : JoinRun(h, s, queue) /\ ForQueue(s, queue) = h[Len(s)]
  BY ForQueueRun
<1>3. Len(s) \in Nat /\ k \in 1..Len(s) /\ \A i \in 1..Len(s) : s[i] \in 0..255
  BY ElementOfSeq, LenProperties
<1> DEFINE N == Len(s)
           T == {i \in 0..N : i >= k => Seen(h[i], wanted)}
<1>4. 0 \in T
  BY <1>3
<1>5. ASSUME NEW i \in 1..N, i - 1 \in T PROVE i \in T
  <2>1. /\ i \in 0..N /\ i - 1 \in 0..N
        /\ h[i - 1] \in Seq(0..255) /\ s[i] \in 0..255
        /\ h[i] = IF QueueOf(s[i]) = queue THEN Append(h[i - 1], s[i]) ELSE h[i - 1]
    BY <1>2, <1>3 DEF JoinRun
  <2>2. CASE i > k
    <3>1. Seen(h[i - 1], wanted)
      BY <1>3, <1>5, <2>1, <2>2
    <3>2. Seen(Append(h[i - 1], s[i]), wanted)
      <4>1. PICK j \in DOMAIN h[i - 1] : h[i - 1][j] \in wanted
        BY <3>1 DEF Seen
      <4>2. /\ j \in DOMAIN Append(h[i - 1], s[i])
            /\ Append(h[i - 1], s[i])[j] = h[i - 1][j]
        BY <2>1, <4>1
      <4> QED
        BY <4>1, <4>2 DEF Seen
    <3> QED
      BY <2>1, <3>1, <3>2
  <2>3. CASE i = k
    <3>1. h[i] = Append(h[i - 1], s[i]) /\ s[i] \in wanted
      BY <1>1, <2>1, <2>3
    <3>2. /\ Len(h[i - 1]) + 1 \in DOMAIN Append(h[i - 1], s[i])
          /\ Append(h[i - 1], s[i])[Len(h[i - 1]) + 1] = s[i]
      BY <2>1
    <3> QED
      BY <2>1, <3>1, <3>2 DEF Seen
  <2>4. CASE i < k
    BY <1>3, <2>1, <2>4
  <2> QED
    BY <1>3, <2>1, <2>2, <2>3, <2>4
<1>6. N \in Nat /\ N \in 0..N /\ N >= k
  BY <1>3
<1>7. N \in T
  <2> HIDE DEF T, N
  <2> QED
    BY <1>4, <1>5, <1>6, UpTo
<1> QED
  BY <1>2, <1>6, <1>7

\* The empty backend is sound.
LEMMA BackendIdleInv ==
    ASSUME tp = BackendIdle, tpWritten = <<>>, tpGiven = NothingGiven
    PROVE  BackendInv
<1>1. /\ <<>> \in Seq(0..255) /\ 0 \in 0..MaxQueuedTp /\ <<>> \o <<>> = <<>>
      /\ \A queue \in LinkQueues : ForQueue(<<>>, queue) = <<>>
  BY BackendAssumption, ForQueueEmpty
<1>2. tpGiven \in [LinkQueues -> Seq(0..255)] /\ \A queue \in LinkQueues : tpGiven[queue] = <<>>
  BY <1>1 DEF NothingGiven
<1>3. BackendTypeOK
  BY <1>1, <1>2 DEF BackendIdle, BackendTypeOK, Tones
<1>4. BackendSound
  BY <1>1, <1>2 DEF BackendIdle, BackendSound
<1> QED
  BY <1>3, <1>4 DEF BackendInv, BackendIdle

LEMMA BackendInitInv == BackendInit => BackendInv
  BY BackendIdleInv DEF BackendInit

\* What has been seen in a sequence is seen in a longer one.
LEMMA SeenInLonger ==
    ASSUME NEW s \in Seq(0..255), NEW t \in Seq(0..255), NEW wanted
    PROVE  Seen(s, wanted) \/ Seen(t, wanted) => Seen(s \o t, wanted)
<1> DEFINE u == s \o t
<1>1. Len(s) \in Nat /\ Len(t) \in Nat /\ DOMAIN s = 1..Len(s) /\ DOMAIN t = 1..Len(t)
  OBVIOUS
<1>2. DOMAIN u = 1..(Len(s) + Len(t))
  OBVIOUS
<1>3. \A i \in 1..Len(s) : i \in DOMAIN u /\ u[i] = s[i]
  BY <1>1, <1>2
<1>4. \A i \in 1..Len(t) : Len(s) + i \in DOMAIN u /\ u[Len(s) + i] = t[i]
  BY <1>1, <1>2
<1> HIDE DEF u
<1> QED
  BY <1>1, <1>3, <1>4 DEF Seen, u

LEMMA JoinedTwice ==
    ASSUME NEW s \in Seq(0..255), NEW t \in Seq(0..255), NEW u \in Seq(0..255)
    PROVE  (s \o t) \o u = s \o (t \o u)
  BY ConcatAssociative

LEMMA AnswersAreOctets == ASSUME NEW a \in Answered PROVE a \in Seq(0..255)
<1>1. PICK n \in 0..MaxAnswers : a \in [1..n -> Answers]
  BY DEF Answered, SeqOf
<1>2. n \in Nat
  BY BackendAssumption
<1>3. \A i \in 1..n : a[i] \in 0..255
  BY <1>1, BackendAssumption
<1>4. a = [i \in 1..n |-> a[i]]
  BY <1>1
<1>5. a \in [1..n -> 0..255]
  BY <1>3, <1>4, Zenon
<1> QED
  BY <1>2, <1>5, SeqOfFunction

\* No poll of a seized line plays the out-of-service tone.
LEMMA EarpieceSeized ==
    ASSUME NEW t, NEW oos \in BOOLEAN, t.seized, t.tone # "nis", NEW x \in Outputs(t, oos)
    PROVE  x # "nis"
  BY DEF Outputs, Earpiece

LEMMA PanelPollInv == ASSUME BackendInv, PanelPoll PROVE BackendInv'
<1>0. /\ tp \in BackendRecords /\ tp.replies \in Seq(0..255)
      /\ tpWritten \in Seq(0..255) /\ tpGiven \in [LinkQueues -> Seq(0..255)] /\ BackendSound
  BY DEF BackendInv, BackendTypeOK, BackendRecords
<1>a. PICK offHook, oos, spoken \in BOOLEAN,
           answers \in IF tp.queued = 0 THEN {<<>>} ELSE Answered :
       LET seen == [tp EXCEPT !.offHook = offHook, !.oos = oos, !.voice = spoken]
       IN \E tone \in {SnapshotTone(seen), "dtmf", "none"} :
            LET ran == [seen EXCEPT !.queued = 0, !.replies = @ \o answers, !.tone = tone,
                                    !.polled = TRUE]
            IN /\ Len(answers) + Len(tpWritten) <= MaxGivenTp
               /\ \E output \in Outputs(ran, oos) : tp' = [ran EXCEPT !.output = output]
               /\ tpWritten' = tpWritten \o answers
               /\ UNCHANGED tpGiven
  BY DEF PanelPoll
<1> DEFINE seen == [tp EXCEPT !.offHook = offHook, !.oos = oos, !.voice = spoken]
           replies == tp.replies \o answers
<1>1. PICK tone \in {SnapshotTone(seen), "dtmf", "none"} :
            LET ran == [seen EXCEPT !.queued = 0, !.replies = @ \o answers, !.tone = tone,
                                    !.polled = TRUE]
            IN /\ Len(answers) + Len(tpWritten) <= MaxGivenTp
               /\ \E output \in Outputs(ran, oos) : tp' = [ran EXCEPT !.output = output]
               /\ tpWritten' = tpWritten \o answers
               /\ UNCHANGED tpGiven
  BY <1>a
<1> DEFINE ran == [seen EXCEPT !.queued = 0, !.replies = replies, !.tone = tone, !.polled = TRUE]
<1>2. answers \in Seq(0..255)
  BY <1>a, AnswersAreOctets, EmptySeq, ZenonT(60)
<1>3. replies \in Seq(0..255)
  BY <1>0, <1>2
<1> DEFINE N == 0..MaxQueuedTp
           Q == Seq(0..255)
           B == BOOLEAN
           R == [queued : N, replies : Q, seized : B, offHook : B, oos : B, voice : B,
                 tone : Tones, output : Tones, polled : B, ack : B, error : B,
                 status : B, contract : B]
<1>4. R = BackendRecords
  BY DEF BackendRecords
<1>5. /\ offHook \in B /\ oos \in B /\ spoken \in B /\ TRUE \in B
      /\ replies \in Q /\ 0 \in N
  BY <1>3, BackendAssumption
<1>6. seen \in R
  <2> HIDE DEF N, Q, B
  <2> QED
    BY <1>0, <1>4, <1>5, Zenon
<1>7. /\ seen.replies = tp.replies /\ seen.seized = tp.seized /\ seen.ack = tp.ack
      /\ seen.error = tp.error /\ seen.status = tp.status /\ seen.contract = tp.contract
  BY <1>0 DEF BackendRecords
<1>8. tone \in Tones /\ (tone = "nis" => ~seen.seized)
  BY <1>1 DEF SnapshotTone, Tones
<1>9. PICK output \in Outputs(ran, oos) : tp' = [ran EXCEPT !.output = output]
  <2>1. ran = [seen EXCEPT !.queued = 0, !.replies = @ \o answers, !.tone = tone, !.polled = TRUE]
    BY <1>0, <1>4, <1>6, <1>7 DEF BackendRecords
  <2> QED
    BY <1>1, <2>1
<1> HIDE DEF seen, replies
<1>10. ran \in R
  <2> HIDE DEF N, Q, B
  <2> QED
    BY <1>5, <1>6, <1>8, Zenon
<1>11. /\ ran.replies = replies /\ ran.seized = tp.seized /\ ran.ack = tp.ack /\ ran.error = tp.error
       /\ ran.status = tp.status /\ ran.contract = tp.contract /\ ran.tone = tone
  BY <1>4, <1>6, <1>7 DEF BackendRecords
<1> HIDE DEF ran
<1>12. output \in Tones
  BY <1>9 DEF Outputs, Earpiece, Tones
<1>13. tp.seized => output # "nis"
  <2> SUFFICES ASSUME tp.seized PROVE output # "nis"
    OBVIOUS
  <2>1. ran.seized /\ ran.tone # "nis"
    BY <1>7, <1>8, <1>11
  <2> QED
    BY <1>9, <2>1, EarpieceSeized
<1>14. tp' \in R
  <2> HIDE DEF N, Q, B
  <2> QED
    BY <1>9, <1>10, <1>12, Zenon
<1>15. /\ tp'.replies = replies /\ tp'.seized = tp.seized /\ tp'.ack = tp.ack /\ tp'.error = tp.error
       /\ tp'.status = tp.status /\ tp'.contract = tp.contract /\ tp'.output = output
  BY <1>4, <1>9, <1>10, <1>11 DEF BackendRecords
<1>16. tpWritten' = tpWritten \o answers /\ tpGiven' = tpGiven
  BY <1>1
<1>17. /\ tpWritten' \in Seq(0..255)
       /\ \A queue \in LinkQueues : tpGiven'[queue] \o ForQueue(replies, queue) = ForQueue(tpWritten', queue)
  <2>1. tpWritten \o answers \in Seq(0..255)
    BY <1>0, <1>2
  <2>2. ASSUME NEW queue \in LinkQueues
        PROVE  tpGiven[queue] \o ForQueue(tp.replies \o answers, queue) = ForQueue(tpWritten \o answers, queue)
    <3> DEFINE g == tpGiven[queue]
               a == ForQueue(tp.replies, queue)
               b == ForQueue(answers, queue)
    <3>1. g \in Seq(0..255) /\ a \in Seq(0..255) /\ b \in Seq(0..255)
      BY <1>0, <1>2, ForQueueType
    <3>2. ForQueue(tp.replies \o answers, queue) = a \o b
      BY <1>0, <1>2, ForQueueJoined
    <3>3. ForQueue(tpWritten \o answers, queue) = ForQueue(tpWritten, queue) \o b
      BY <1>0, <1>2, ForQueueJoined
    <3>4. g \o a = ForQueue(tpWritten, queue)
      BY <1>0 DEF BackendSound
    <3> HIDE DEF g, a, b
    <3>5. (g \o a) \o b = g \o (a \o b)
      BY <3>1, JoinedTwice
    <3> QED
      BY <3>2, <3>3, <3>4, <3>5 DEF g
  <2> QED
    BY <1>16, <2>1, <2>2 DEF replies
<1>18. BackendTypeOK'
  BY <1>0, <1>4, <1>14, <1>16, <1>17 DEF BackendTypeOK, BackendRecords
<1>19. BackendSound'
  BY <1>0, <1>13, <1>15, <1>16, <1>17 DEF BackendSound
<1> QED
  BY <1>15, <1>16, <1>18, <1>19 DEF BackendInv

LEMMA BackendOctetInv ==
    ASSUME BackendInv, NEW seized \in BOOLEAN, NEW relay \in BOOLEAN, BackendOctet(seized, relay)
    PROVE  BackendInv'
<1>0. /\ tp \in BackendRecords /\ tp.replies \in Seq(0..255) /\ tp.queued \in 0..MaxQueuedTp
      /\ tp.ack \in BOOLEAN /\ tp.error \in BOOLEAN /\ tp.status \in BOOLEAN /\ tp.contract \in BOOLEAN
      /\ tp.tone \in Tones
      /\ tpWritten \in Seq(0..255) /\ tpGiven \in [LinkQueues -> Seq(0..255)] /\ BackendSound
  BY DEF BackendInv, BackendTypeOK, BackendRecords
<1> DEFINE given == [queue \in LinkQueues |-> tpGiven[queue] \o ForQueue(tp.replies, queue)]
           ack == tp.ack \/ Seen(tp.replies, PowerAck)
           error == tp.error \/ Seen(tp.replies, {ErrorHeader})
           status == tp.status \/ Seen(tp.replies, {StatusHeader})
           n == tp.queued + 1
           t == [tp EXCEPT !.seized = seized, !.queued = n]
           tone == IF relay THEN SnapshotTone(t) ELSE tp.tone
           contract == tp.contract \/ (ack /\ error /\ status)
<1>1. /\ tp.queued < MaxQueuedTp
      /\ tp' = [t EXCEPT !.replies = <<>>, !.polled = FALSE, !.tone = tone,
                         !.ack = ack, !.error = error, !.status = status, !.contract = contract]
      /\ tpGiven' = given /\ tpWritten' = tpWritten
  BY <1>0 DEF BackendOctet, BackendRecords
<1>2. /\ given \in [LinkQueues -> Seq(0..255)]
      /\ \A queue \in LinkQueues : given[queue] = ForQueue(tpWritten, queue)
  <2>1. \A queue \in LinkQueues : /\ tpGiven[queue] \in Seq(0..255)
                                  /\ ForQueue(tp.replies, queue) \in Seq(0..255)
    BY <1>0, ForQueueType
  <2>2. \A queue \in LinkQueues : tpGiven[queue] \o ForQueue(tp.replies, queue) \in Seq(0..255)
    BY <2>1
  <2> QED
    BY <1>0, <2>2 DEF BackendSound
<1>3. /\ ack \in BOOLEAN /\ error \in BOOLEAN /\ status \in BOOLEAN /\ contract \in BOOLEAN
      /\ n \in 0..MaxQueuedTp /\ tone \in Tones /\ <<>> \in Seq(0..255)
  <2>1. ack \in BOOLEAN /\ error \in BOOLEAN /\ status \in BOOLEAN /\ contract \in BOOLEAN
    BY <1>0 DEF Seen
  <2>2. n \in 0..MaxQueuedTp
    BY <1>0, <1>1, BackendAssumption
  <2>3. tone \in Tones
    BY <1>0 DEF SnapshotTone, Tones
  <2> QED
    BY <2>1, <2>2, <2>3, EmptySeq
<1>4. /\ ack => Seen(given["norm"], PowerAck)
      /\ error => Seen(given["prio"], {ErrorHeader})
      /\ status => Seen(given["prio"], {StatusHeader})
  <2>1. ASSUME NEW queue \in LinkQueues, NEW wanted, \A v \in wanted : QueueOf(v) = queue,
               Seen(tpGiven[queue], wanted) \/ Seen(tp.replies, wanted)
        PROVE  Seen(given[queue], wanted)
    <3>1. /\ tpGiven[queue] \in Seq(0..255) /\ ForQueue(tp.replies, queue) \in Seq(0..255)
          /\ given[queue] = tpGiven[queue] \o ForQueue(tp.replies, queue)
      BY <1>0, ForQueueType
    <3>2. Seen(tpGiven[queue], wanted) \/ Seen(ForQueue(tp.replies, queue), wanted)
      BY <1>0, <2>1, SeenInQueue
    <3> HIDE DEF given
    <3> QED
      BY <3>1, <3>2, SeenInLonger
  <2>2. /\ "norm" \in LinkQueues /\ \A v \in PowerAck : QueueOf(v) = "norm"
        /\ "prio" \in LinkQueues /\ \A v \in {ErrorHeader} : QueueOf(v) = "prio"
        /\ \A v \in {StatusHeader} : QueueOf(v) = "prio"
    BY DEF LinkQueues, QueueOf, PowerAck, ErrorHeader, StatusHeader
  <2> HIDE DEF given
  <2>3. /\ ack => Seen(tpGiven["norm"], PowerAck) \/ Seen(tp.replies, PowerAck)
        /\ error => Seen(tpGiven["prio"], {ErrorHeader}) \/ Seen(tp.replies, {ErrorHeader})
        /\ status => Seen(tpGiven["prio"], {StatusHeader}) \/ Seen(tp.replies, {StatusHeader})
    BY DEF BackendInv
  <2> HIDE DEF ack, error, status
  <2> QED
    BY <2>1, <2>2, <2>3
<1>5. contract => /\ Seen(given["norm"], PowerAck)
                  /\ Seen(given["prio"], {ErrorHeader}) /\ Seen(given["prio"], {StatusHeader})
  <2>1. tp.contract => /\ Seen(tpGiven["norm"], PowerAck) /\ Seen(tpGiven["prio"], {ErrorHeader})
                       /\ Seen(tpGiven["prio"], {StatusHeader})
    BY <1>0 DEF BackendSound
  <2>2. \A queue \in LinkQueues :
           /\ tpGiven[queue] \in Seq(0..255) /\ ForQueue(tp.replies, queue) \in Seq(0..255)
           /\ given[queue] = tpGiven[queue] \o ForQueue(tp.replies, queue)
    BY <1>0, ForQueueType
  <2>3. "norm" \in LinkQueues /\ "prio" \in LinkQueues
    BY DEF LinkQueues
  <2> HIDE DEF ack, error, status, given
  <2>4. tp.contract => /\ Seen(given["norm"], PowerAck) /\ Seen(given["prio"], {ErrorHeader})
                       /\ Seen(given["prio"], {StatusHeader})
    <3>1. ASSUME NEW queue \in LinkQueues, NEW wanted, Seen(tpGiven[queue], wanted)
          PROVE  Seen(given[queue], wanted)
      BY <2>2, <3>1, SeenInLonger
    <3> QED
      BY <2>1, <2>3, <3>1
  <2> QED
    BY <1>4, <2>4
<1> DEFINE N == 0..MaxQueuedTp
           Q == Seq(0..255)
           B == BOOLEAN
           R == [queued : N, replies : Q, seized : B, offHook : B, oos : B, voice : B,
                 tone : Tones, output : Tones, polled : B, ack : B, error : B,
                 status : B, contract : B]
<1>6. R = BackendRecords
  BY DEF BackendRecords
<1>7. seized \in B /\ FALSE \in B /\ ack \in B /\ error \in B /\ status \in B /\ contract \in B
      /\ n \in N /\ <<>> \in Q
  BY <1>3
<1> HIDE DEF ack, error, status, contract, n, tone, given
<1>8. t \in R
  <2> HIDE DEF N, Q, B
  <2> QED
    BY <1>0, <1>6, <1>7, Zenon
<1> HIDE DEF t
<1>9. tp' \in R
  <2> HIDE DEF N, Q, B
  <2> QED
    BY <1>1, <1>3, <1>7, <1>8, Zenon
<1>10. /\ tp'.replies = <<>> /\ ~tp'.polled /\ tp'.ack = ack /\ tp'.error = error
       /\ tp'.status = status /\ tp'.contract = contract
  BY <1>1, <1>6, <1>8 DEF BackendRecords
<1>11. \A queue \in LinkQueues :
         tpGiven'[queue] \o ForQueue(tp'.replies, queue) = ForQueue(tpWritten', queue)
  BY <1>1, <1>2, <1>10, ForQueueEmpty, ConcatEmptySeq
<1>12. BackendTypeOK'
  BY <1>0, <1>1, <1>2, <1>6, <1>9 DEF BackendTypeOK, BackendRecords
<1>13. BackendSound'
  BY <1>1, <1>5, <1>10, <1>11 DEF BackendSound
<1> QED
  BY <1>1, <1>4, <1>10, <1>12, <1>13 DEF BackendInv

LEMMA BackendStepInv == BackendInv /\ [BackendNext]_backendVars => BackendInv'
<1> SUFFICES ASSUME BackendInv, [BackendNext]_backendVars PROVE BackendInv'
  OBVIOUS
<1>1. CASE PanelPoll
  BY <1>1, PanelPollInv
<1>2. CASE SeizeRelay
  BY <1>2, BackendOctetInv DEF SeizeRelay
<1>3. CASE ReleaseRelay
  BY <1>3, BackendOctetInv DEF ReleaseRelay
<1>4. CASE OtherOctet
  <2>1. tp.seized \in BOOLEAN
    BY DEF BackendInv, BackendTypeOK
  <2> QED
    BY <1>4, <2>1, BackendOctetInv DEF OtherOctet
<1>5. CASE BackendReset
  <2>1. tp' = BackendIdle /\ tpWritten' = <<>> /\ tpGiven' = NothingGiven
    BY <1>5 DEF BackendReset
  <2>2. /\ <<>> \in Seq(0..255) /\ 0 \in 0..MaxQueuedTp /\ <<>> \o <<>> = <<>>
        /\ \A queue \in LinkQueues : ForQueue(<<>>, queue) = <<>>
    BY BackendAssumption, ForQueueEmpty
  <2>3. tpGiven' \in [LinkQueues -> Seq(0..255)] /\ \A queue \in LinkQueues : tpGiven'[queue] = <<>>
    BY <2>1, <2>2 DEF NothingGiven
  <2>4. BackendTypeOK'
    BY <2>1, <2>2, <2>3 DEF BackendIdle, BackendTypeOK, Tones
  <2>5. BackendSound'
    BY <2>1, <2>2, <2>3 DEF BackendIdle, BackendSound
  <2> QED
    BY <2>1, <2>4, <2>5 DEF BackendInv, BackendIdle
<1>6. CASE UNCHANGED backendVars
  BY <1>6 DEF backendVars, BackendInv, BackendTypeOK, BackendSound, Seen
<1> QED
  BY <1>1, <1>2, <1>3, <1>4, <1>5, <1>6 DEF BackendNext

-------------------------------------------------------------------------------
(* Remainders by a number that is not known, for the return stack, which wraps.          *)

LEMMA SameRemainder ==
    ASSUME NEW D \in Nat \ {0}, NEW q \in Int, NEW p \in Int,
           NEW r \in 0..(D - 1), NEW s \in 0..(D - 1), (D * q) + r = (D * p) + s
    PROVE  r = s
<1>1. D * (q - p) = s - r
  BY TimesSum
<1>2. q - p \in Int /\ (q - p >= 1 \/ q - p <= -1 \/ q - p = 0)
  OBVIOUS
<1>3. CASE q - p = 0
  BY <1>1, <1>3
<1>4. CASE q - p >= 1
  <2>1. D * (q - p) >= D
    BY <1>4, TimesSign
  <2> QED
    BY <1>1, <2>1
<1>5. CASE q - p <= -1
  <2>1. D * (q - p) <= -D
    BY <1>5, TimesSign
  <2> QED
    BY <1>1, <2>1
<1> QED
  BY <1>2, <1>3, <1>4, <1>5

\* Whole turns do not change a remainder.
LEMMA Wraps ==
    ASSUME NEW D \in Nat \ {0}, NEW a \in Nat, NEW k \in Int, NEW b \in Nat, b = a + (D * k)
    PROVE  b % D = a % D
<1> DEFINE q == a \div D
           r == a % D
           p == b \div D
           s == b % D
<1>1. a = (D * q) + r /\ r \in 0..(D - 1) /\ q \in Nat
  BY DivMod
<1>2. b = (D * p) + s /\ s \in 0..(D - 1) /\ p \in Nat
  BY DivMod
<1> HIDE DEF q, r, p, s
<1>3. D * (q + k) = (D * q) + (D * k)
  BY <1>1, TimesSum
<1>4. D * q \in Int /\ D * k \in Int /\ D * p \in Int
  BY <1>1, <1>2
<1>5. (D * (q + k)) + r = (D * p) + s
  BY <1>1, <1>2, <1>3, <1>4
<1>6. q + k \in Int /\ p \in Int
  BY <1>1, <1>2
<1>7. r = s
  BY <1>1, <1>2, <1>5, <1>6, SameRemainder
<1> QED
  BY <1>7 DEF r, s

\* Numbers less than a turn apart have different remainders.
LEMMA RemaindersDiffer ==
    ASSUME NEW D \in Nat \ {0}, NEW i \in Nat, NEW j \in Nat, j < i, i < j + D
    PROVE  i % D # j % D
<1> SUFFICES ASSUME i % D = j % D PROVE FALSE
  OBVIOUS
<1> DEFINE q == i \div D
           p == j \div D
           r == i % D
<1>1. i = (D * q) + r /\ r \in 0..(D - 1) /\ q \in Nat
  BY DivMod
<1>2. j = (D * p) + r /\ p \in Nat
  BY DivMod
<1> HIDE DEF q, r, p
<1>3. D * (q - p) = (D * q) - (D * p)
  BY <1>1, <1>2, TimesSum
<1>4. D * q \in Int /\ D * p \in Int
  BY <1>1, <1>2
<1>5. D * (q - p) = i - j
  BY <1>1, <1>2, <1>3, <1>4
<1>6. q - p \in Int /\ (q - p >= 1 \/ q - p <= -1 \/ q - p = 0)
  BY <1>1, <1>2
<1>7. CASE q - p = 0
  BY <1>5, <1>7
<1>8. CASE q - p >= 1
  <2>1. D * (q - p) >= D
    BY <1>6, <1>8, TimesSign
  <2> QED
    BY <1>5, <2>1
<1>9. CASE q - p <= -1
  <2>1. D * (q - p) <= -D
    BY <1>6, <1>9, TimesSign
  <2> QED
    BY <1>5, <2>1
<1> QED
  BY <1>6, <1>7, <1>8, <1>9

\* A pointer that is a number wrapped, moved up, down, or back from the end by whole turns.
LEMMA PointerWraps ==
    ASSUME NEW D \in Nat \ {0}, NEW n \in Nat
    PROVE  \E q \in Nat : n = (D * q) + (n % D) /\ n % D \in 0..(D - 1) /\ n % D \in Nat
<1>1. n = (D * (n \div D)) + (n % D) /\ n % D \in 0..(D - 1) /\ n \div D \in Nat
  BY DivMod
<1>2. n % D \in Nat
  BY <1>1
<1> QED
  BY <1>1, <1>2

LEMMA PointerUp ==
    ASSUME NEW D \in Nat \ {0}, NEW n \in Nat
    PROVE  ((n % D) + 1) % D = (n + 1) % D
<1> DEFINE sp == n % D
<1>1. PICK q \in Nat : n = (D * q) + sp /\ sp \in Nat
  BY PointerWraps
<1> HIDE DEF sp
<1>2. PICK a \in Nat, b \in Nat : a = sp + 1 /\ b = n + 1
  BY <1>1
<1>3. b = a + (D * q) /\ q \in Int
  BY <1>1, <1>2
<1>4. b % D = a % D
  BY <1>3, Wraps
<1> QED
  BY <1>2, <1>4 DEF sp

LEMMA PointerDown ==
    ASSUME NEW D \in Nat \ {0}, NEW n \in Nat \ {0}
    PROVE  ((n % D) + D - 1) % D = (n - 1) % D
<1> DEFINE sp == n % D
<1>1. PICK q \in Nat : n = (D * q) + sp /\ sp \in Nat
  <2>1. n \in Nat
    OBVIOUS
  <2> QED
    BY <2>1, PointerWraps
<1> HIDE DEF sp
<1>2. PICK a \in Nat, b \in Nat, k \in Int : a = n - 1 /\ b = sp + D - 1 /\ k = 1 - q
  BY <1>1
<1>3. D * (1 - q) = (D * 1) - (D * q) /\ D * 1 = D /\ D * q \in Int
  BY TimesSum
<1>4. b = a + (D * k)
  BY <1>1, <1>2, <1>3
<1>5. b % D = a % D
  BY <1>4, Wraps
<1> QED
  BY <1>2, <1>5 DEF sp

LEMMA PointerBack ==
    ASSUME NEW D \in Nat \ {0}, NEW n \in Nat,
           NEW i \in 1..n, NEW turns \in Nat, n <= turns
    PROVE  ((n % D) + (D * turns) - (n - i + 1)) % D = (i - 1) % D
<1> DEFINE sp == n % D
<1>1. PICK q \in Nat : n = (D * q) + sp /\ sp \in Nat
  BY PointerWraps
<1>2. D * turns >= turns /\ D * turns \in Nat /\ D * q \in Nat
  BY SMTT(30)
<1>3. D * (turns - q) = (D * turns) - (D * q) /\ turns - q \in Int
  BY TimesSum
<1> HIDE DEF sp
<1>4. PICK a \in Nat, b \in Nat : a = i - 1 /\ b = sp + (D * turns) - (n - i + 1)
  BY <1>1, <1>2
<1>5. b = a + (D * (turns - q))
  BY <1>1, <1>2, <1>3, <1>4
<1>6. b % D = a % D
  BY <1>3, <1>5, Wraps
<1> QED
  BY <1>4, <1>6 DEF sp

-------------------------------------------------------------------------------
(* The 8048 core: the stack pointer is the number of returns owed, wrapped; the entry of *)
(* a return owed is the one of its position; and what is overwritten is counted.         *)

CoreRecords ==
    [pc : Addresses, bank : BOOLEAN, sp : 0..(StackDepth - 1),
     stack : [0..(StackDepth - 1) -> Return], inIrq : BOOLEAN, extEnabled : BOOLEAN,
     timerEnabled : BOOLEAN, timerDue : BOOLEAN, timerOn : BOOLEAN, idle : BOOLEAN,
     stopped : BOOLEAN, ext : BOOLEAN]

\* What a return owed must find in its entry.
Kept(frame) == [pc |-> frame.pc, bank |-> frame.bank]

OwedOK(c, f, spoiled) ==
    /\ f \in Seq(Owed) /\ spoiled \in 0..Len(f) /\ Len(f) <= spoiled + StackDepth
    /\ c.sp = Len(f) % StackDepth
    /\ \A i \in 1..Len(f) : i > spoiled => c.stack[(i - 1) % StackDepth] = Kept(f[i])
    /\ c.inIrq <=> \E i \in 1..Len(f) : f[i].irq
    /\ \A i, j \in 1..Len(f) : f[i].irq /\ f[j].irq => i = j

CoreOK(c, f, spoiled) == c \in CoreRecords /\ OwedOK(c, f, spoiled)

CoreInv ==
    /\ CoreOK(core, coreFrames, coreSpoiled)
    /\ Len(coreFrames) <= MaxFrames8048
    /\ coreExecuted \in 0..MaxExecuted

LEMMA CoreInvImplies == CoreInv => CoreTypeOK /\ ReturnsKept
<1> SUFFICES ASSUME CoreInv PROVE CoreTypeOK /\ ReturnsKept
  OBVIOUS
<1> DEFINE L == Len(coreFrames)
           D == StackDepth
<1>1. /\ core \in CoreRecords /\ coreFrames \in Seq(Owed) /\ L \in Nat /\ L <= MaxFrames8048
      /\ DOMAIN coreFrames = 1..L /\ D \in Nat \ {0} /\ MaxFrames8048 \in Nat
      /\ coreSpoiled \in 0..L /\ core.sp = L % D
      /\ core.inIrq <=> \E i \in 1..L : coreFrames[i].irq
      /\ \A i, j \in 1..L : coreFrames[i].irq /\ coreFrames[j].irq => i = j
  BY CoreAssumption DEF CoreInv, CoreOK, OwedOK
<1>2. CoreTypeOK
  BY <1>1 DEF CoreTypeOK, CoreRecords, CoreInv
<1>3. core.inIrq <=> \E i \in DOMAIN coreFrames : coreFrames[i].irq
  BY <1>1
<1>4. Cardinality({i \in DOMAIN coreFrames : coreFrames[i].irq}) <= 1
  <2> DEFINE I == {i \in DOMAIN coreFrames : coreFrames[i].irq}
  <2>1. CASE I = {}
    <3>1. Cardinality(I) = 0
      BY <2>1, FS_EmptySet
    <3> QED
      BY <3>1
  <2>2. CASE I # {}
    <3>1. PICK i : I = {i}
      BY <1>1, <2>2
    <3>2. Cardinality(I) = 1
      BY <3>1, FS_Singleton
    <3> QED
      BY <3>2
  <2> QED
    BY <2>1, <2>2
<1>5. ASSUME NEW i \in (coreSpoiled + 1)..L
      PROVE  core.stack[(core.sp + (D * MaxFrames8048) - (L - i + 1)) % D] = Kept(coreFrames[i])
  <2>1. i \in 1..L /\ i > coreSpoiled
    BY <1>1
  <2>2. (core.sp + (D * MaxFrames8048) - (L - i + 1)) % D = (i - 1) % D
    <3> HIDE DEF D, L
    <3>1. L \in Nat /\ D \in Nat \ {0} /\ MaxFrames8048 \in Nat /\ L <= MaxFrames8048 /\ core.sp = L % D
      BY <1>1
    <3>2. ((L % D) + (D * MaxFrames8048) - (L - i + 1)) % D = (i - 1) % D
      BY <2>1, <3>1, PointerBack
    <3> QED
      BY <3>1, <3>2
  <2>3. core.stack[(i - 1) % D] = Kept(coreFrames[i])
    BY <2>1 DEF CoreInv, CoreOK, OwedOK
  <2> QED
    BY <2>2, <2>3
<1> QED
  BY <1>2, <1>3, <1>4, <1>5 DEF ReturnsKept, Kept

\* A core that keeps its stack and its interrupt state owes what it owed.
LEMMA OwedSame ==
    ASSUME NEW c, NEW d, NEW f, NEW spoiled, OwedOK(c, f, spoiled),
           d.sp = c.sp, d.stack = c.stack, d.inIrq = c.inIrq
    PROVE  OwedOK(d, f, spoiled)
  BY DEF OwedOK

LEMMA OwedSpoilt ==
    ASSUME NEW c, NEW f, NEW spoiled, OwedOK(c, f, spoiled), NEW more \in spoiled..Len(f)
    PROVE  OwedOK(c, f, more)
<1>1. Len(f) \in Nat /\ spoiled \in 0..Len(f) /\ StackDepth \in Nat
  BY CoreAssumption DEF OwedOK
<1> QED
  BY <1>1 DEF OwedOK

\* What is overwritten when a return is pushed.
SpoiltBy(spoiled, owed) == IF owed > StackDepth THEN Larger(spoiled, owed - StackDepth) ELSE spoiled

\* A return pushed takes the entry of the one that is StackDepth below it, and no other.
LEMMA OwedPushed ==
    ASSUME NEW c \in CoreRecords, NEW d, NEW f, NEW spoiled, OwedOK(c, f, spoiled), NEW irq \in BOOLEAN,
           irq => ~c.inIrq,
           d.sp = (c.sp + 1) % StackDepth,
           d.stack = [c.stack EXCEPT ![c.sp] = [pc |-> c.pc, bank |-> c.bank]],
           d.inIrq = (c.inIrq \/ irq)
    PROVE  OwedOK(d, Append(f, [pc |-> c.pc, bank |-> c.bank, irq |-> irq]), SpoiltBy(spoiled, Len(f) + 1))
<1> DEFINE frame == [pc |-> c.pc, bank |-> c.bank, irq |-> irq]
           g == Append(f, frame)
           L == Len(f)
           D == StackDepth
           s == SpoiltBy(spoiled, L + 1)
<1>1. /\ f \in Seq(Owed) /\ L \in Nat /\ D \in Nat \ {0} /\ spoiled \in 0..L /\ L <= spoiled + D
      /\ c.sp = L % D /\ c.sp \in 0..(D - 1) /\ c.stack \in [0..(D - 1) -> Return]
      /\ c.inIrq \in BOOLEAN /\ c.pc \in Addresses /\ c.bank \in BOOLEAN
      /\ \A i \in 1..L : i > spoiled => c.stack[(i - 1) % D] = Kept(f[i])
      /\ c.inIrq <=> \E i \in 1..L : f[i].irq
      /\ \A i, j \in 1..L : f[i].irq /\ f[j].irq => i = j
  <2>1. D \in Nat \ {0} /\ f \in Seq(Owed) /\ L \in Nat
    BY CoreAssumption DEF OwedOK
  <2>2. /\ c.sp \in 0..(D - 1) /\ c.stack \in [0..(D - 1) -> Return]
        /\ c.inIrq \in BOOLEAN /\ c.pc \in Addresses /\ c.bank \in BOOLEAN
    BY DEF CoreRecords
  <2> QED
    BY <2>1, <2>2 DEF OwedOK
<1>2. frame \in Owed /\ frame.irq = irq /\ Kept(frame) = [pc |-> c.pc, bank |-> c.bank]
  BY <1>1 DEF Owed, Kept
<1> HIDE DEF frame
<1>3. /\ g \in Seq(Owed) /\ Len(g) = L + 1 /\ g[L + 1] = frame
      /\ \A i \in 1..L : g[i] = f[i]
  BY <1>1, <1>2
<1>4. s \in 0..(L + 1) /\ L + 1 <= s + D /\ spoiled <= s
  <2> HIDE DEF L
  <2>1. s = IF L + 1 > D THEN IF spoiled > L + 1 - D THEN spoiled ELSE L + 1 - D ELSE spoiled
    BY <1>1 DEF SpoiltBy, Larger
  <2> HIDE DEF s, D
  <2> QED
    BY <1>1, <2>1
<1>5. d.sp = (L + 1) % D
  <2> HIDE DEF L, D
  <2>1. (c.sp + 1) % D = (L + 1) % D
    BY <1>1, PointerUp
  <2> QED
    BY <2>1 DEF D
<1> HIDE DEF g, s
<1>6. ASSUME NEW i \in 1..(L + 1), i > s
      PROVE  d.stack[(i - 1) % D] = Kept(g[i])
  <2>1. CASE i = L + 1
    <3>1. (i - 1) % D = c.sp
      BY <1>1, <2>1
    <3>2. d.stack[c.sp] = [pc |-> c.pc, bank |-> c.bank]
      BY <1>1
    <3> QED
      BY <1>2, <1>3, <2>1, <3>1, <3>2
  <2>2. CASE i # L + 1
    <3>1. i \in 1..L /\ i > spoiled /\ i - 1 \in Nat /\ i - 1 < L /\ L < (i - 1) + D
      <4>1. L \in Nat /\ D \in Nat \ {0} /\ spoiled \in 0..L
        BY <1>1
      <4> HIDE DEF L, D
      <4>2. s \in 0..(L + 1) /\ L + 1 <= s + D /\ spoiled <= s /\ i > s /\ i \in 1..(L + 1)
        BY <1>4, <1>6
      <4> QED
        BY ONLY <2>2, <4>1, <4>2
    <3>2. L % D # (i - 1) % D
      <4> HIDE DEF L, D
      <4> QED
        BY <1>1, <3>1, RemaindersDiffer
    <3>3. (i - 1) % D \in 0..(D - 1)
      BY <1>1, <3>1, DivMod
    <3>4. d.stack[(i - 1) % D] = c.stack[(i - 1) % D]
      BY <1>1, <3>2, <3>3
    <3> QED
      BY <1>1, <1>3, <3>1, <3>4
  <2> QED
    BY <2>1, <2>2
<1>7. \A i \in 1..(L + 1) : i \in 1..L \/ i = L + 1
  BY <1>1, SMTT(60)
<1>8. L + 1 \in 1..(L + 1) /\ \A i \in 1..L : i \in 1..(L + 1)
  BY <1>1
<1> HIDE DEF L
<1>9. d.inIrq <=> \E i \in 1..(L + 1) : g[i].irq
  BY <1>1, <1>2, <1>3, <1>7, <1>8
<1>10. \A i, j \in 1..(L + 1) : g[i].irq /\ g[j].irq => i = j
  BY <1>1, <1>2, <1>3, <1>7
<1>11. OwedOK(d, g, s)
  BY <1>3, <1>4, <1>5, <1>6, <1>9, <1>10 DEF OwedOK
<1> QED
  BY <1>11 DEF g, frame, s, L

\* A return taken leaves the others owed.
LEMMA OwedPopped ==
    ASSUME NEW c \in CoreRecords, NEW d, NEW f, NEW spoiled, OwedOK(c, f, spoiled), f # <<>>,
           d.sp = (c.sp + StackDepth - 1) % StackDepth, d.stack = c.stack,
           d.inIrq = (c.inIrq /\ ~Last(f).irq)
    PROVE  OwedOK(d, Front(f), IF spoiled > Len(f) - 1 THEN Len(f) - 1 ELSE spoiled)
<1> DEFINE g == Front(f)
           L == Len(f)
           D == StackDepth
           s == IF spoiled > L - 1 THEN L - 1 ELSE spoiled
<1>1. /\ f \in Seq(Owed) /\ L \in Nat \ {0} /\ D \in Nat \ {0} /\ spoiled \in 0..L /\ L <= spoiled + D
      /\ c.sp = L % D /\ c.sp \in 0..(D - 1)
      /\ c.inIrq \in BOOLEAN
      /\ \A i \in 1..L : i > spoiled => c.stack[(i - 1) % D] = Kept(f[i])
      /\ c.inIrq <=> \E i \in 1..L : f[i].irq
      /\ \A i, j \in 1..L : f[i].irq /\ f[j].irq => i = j
      /\ \A i \in 1..L : f[i].irq \in BOOLEAN
  <2>1. L \in Nat \ {0}
    BY EmptySeq DEF OwedOK
  <2>2. \A i \in 1..L : f[i] \in Owed
    BY ElementOfSeq DEF OwedOK
  <2> QED
    BY <2>1, <2>2, CoreAssumption DEF OwedOK, CoreRecords, Owed
<1>2. /\ g \in Seq(Owed) /\ Len(g) = L - 1 /\ L - 1 \in Nat
      /\ \A i \in 1..(L - 1) : g[i] = f[i] /\ i \in 1..L
      /\ Last(f) = f[L] /\ L \in 1..L
  <2>1. g = [i \in 1..(L - 1) |-> f[i]] /\ Last(f) = f[L]
    BY <1>1 DEF Front, Last
  <2>2. L - 1 \in Nat /\ L \in 1..L /\ \A i \in 1..(L - 1) : i \in 1..L
    BY <1>1
  <2>3. \A i \in 1..L : f[i] \in Owed
    BY <1>1, ElementOfSeq
  <2>4. g \in [1..(L - 1) -> Owed]
    <3> HIDE DEF L
    <3> QED
      BY <2>1, <2>2, <2>3
  <2>5. \A i \in 1..(L - 1) : g[i] = f[i]
    BY <2>1
  <2> HIDE DEF g, L
  <2> QED
    BY <2>1, <2>2, <2>4, <2>5, SeqOfFunction
<1>3. s \in 0..(L - 1) /\ L - 1 <= s + D /\ \A i \in 1..(L - 1) : i > s => i > spoiled
  BY <1>1
<1>4. d.sp = (L - 1) % D
  <2> HIDE DEF L, D
  <2>1. (c.sp + D - 1) % D = (L - 1) % D
    BY <1>1, PointerDown
  <2> QED
    BY <2>1 DEF D
<1>5. \A i \in 1..L : i \in 1..(L - 1) \/ i = L
  BY <1>1
<1> HIDE DEF g, s, L
<1>6. ASSUME NEW i \in 1..(L - 1), i > s
      PROVE  d.stack[(i - 1) % D] = Kept(g[i])
  BY <1>1, <1>2, <1>3, <1>6
<1>7. ASSUME d.inIrq PROVE \E i \in 1..(L - 1) : g[i].irq
  <2>1. c.inIrq /\ ~f[L].irq
    BY <1>1, <1>2, <1>7
  <2>2. PICK i \in 1..L : f[i].irq
    BY <1>1, <2>1
  <2>3. i \in 1..(L - 1)
    BY <1>5, <2>1, <2>2
  <2> QED
    BY <1>2, <2>2, <2>3
<1>8. ASSUME NEW i \in 1..(L - 1), g[i].irq PROVE d.inIrq
  <2>1. f[i].irq /\ i \in 1..L /\ i # L
    BY <1>1, <1>2, <1>8, SMTT(60)
  <2>2. c.inIrq /\ ~f[L].irq
    BY <1>1, <1>2, <2>1
  <2> QED
    BY <1>2, <2>2
<1>9. \A i, j \in 1..(L - 1) : g[i].irq /\ g[j].irq => i = j
  BY <1>1, <1>2
<1>10. OwedOK(d, g, s)
  BY <1>2, <1>3, <1>4, <1>6, <1>7, <1>8, <1>9 DEF OwedOK
<1> QED
  BY <1>10 DEF g, s, L

CoreFacts(c) ==
    /\ c.pc \in Addresses /\ c.bank \in BOOLEAN /\ c.sp \in 0..(StackDepth - 1)
    /\ c.stack \in [0..(StackDepth - 1) -> Return] /\ c.inIrq \in BOOLEAN

LEMMA CoreFields == ASSUME NEW c \in CoreRecords PROVE CoreFacts(c)
  BY DEF CoreRecords, CoreFacts

\* Two cores that owe the same returns.
Alike(c, d) == d \in CoreRecords /\ d.sp = c.sp /\ d.stack = c.stack /\ d.inIrq = c.inIrq

LEMMA AlikeOK ==
    ASSUME NEW c, NEW d, NEW f, NEW spoiled, CoreOK(c, f, spoiled), Alike(c, d)
    PROVE  CoreOK(d, f, spoiled)
  BY OwedSame DEF CoreOK, Alike

LEMMA SettledAlike == ASSUME NEW c \in CoreRecords PROVE Alike(c, Settled(c))
<1> DEFINE due == c.timerDue /\ c.timerEnabled
<1>1. due \in BOOLEAN
  BY DEF CoreRecords
<1>2. Settled(c) = [c EXCEPT !.timerDue = due]
  BY DEF Settled, CoreRecords
<1> HIDE DEF due
<1> QED
  BY <1>1, <1>2 DEF CoreRecords, Alike

LEMMA CycledAlike == ASSUME NEW c \in CoreRecords, NEW d \in Cycled(c) PROVE Alike(c, d)
<1>1. Alike(c, [c EXCEPT !.timerDue = TRUE])
  BY DEF CoreRecords, Alike
<1> QED
  BY <1>1 DEF Cycled, Alike

LEMMA PcAlike == ASSUME NEW c \in CoreRecords, NEW a \in Addresses PROVE Alike(c, [c EXCEPT !.pc = a])
  BY DEF CoreRecords, Alike

LEMMA FetchedAlike == ASSUME NEW c \in CoreRecords, NEW n \in Nat PROVE Alike(c, Fetched(c, n))
<1> DEFINE a == (c.pc + n) % ProgramSize
<1>1. c.pc \in Nat /\ ProgramSize \in Nat \ {0}
  BY CoreFields, CoreAssumption DEF CoreFacts, Addresses
<1>2. a \in Addresses
  BY <1>1, DivMod DEF Addresses
<1>3. Fetched(c, n) = [c EXCEPT !.pc = a]
  BY DEF Fetched, CoreRecords
<1> HIDE DEF a
<1> QED
  BY <1>2, <1>3 DEF CoreRecords, Alike

\* The entry pushed is in the stack, and the pointer has moved.
LEMMA PushedFields ==
    ASSUME NEW c \in CoreRecords
    PROVE  /\ Push(c) \in CoreRecords
           /\ Push(c).sp = (c.sp + 1) % StackDepth
           /\ Push(c).stack = [c.stack EXCEPT ![c.sp] = [pc |-> c.pc, bank |-> c.bank]]
           /\ Push(c).inIrq = c.inIrq
<1> DEFINE k == [c.stack EXCEPT ![c.sp] = [pc |-> c.pc, bank |-> c.bank]]
           n == (c.sp + 1) % StackDepth
           d == [c EXCEPT !.stack = k, !.sp = n]
<1>1. CoreFacts(c) /\ c.sp \in Nat /\ StackDepth \in Nat \ {0}
  BY CoreFields, CoreAssumption DEF CoreFacts
<1>2. n \in 0..(StackDepth - 1)
  BY <1>1, DivMod
<1>3. k \in [0..(StackDepth - 1) -> Return]
  BY <1>1 DEF CoreFacts, Return
<1>4. Push(c) = d
  BY DEF Push, CoreRecords
<1> HIDE DEF k, n
<1>5. d \in CoreRecords /\ d.sp = n /\ d.stack = k /\ d.inIrq = c.inIrq
  BY <1>2, <1>3 DEF CoreRecords
<1> QED
  BY <1>4, <1>5 DEF k, n

\* The core with its interrupt entered owes the return to what was interrupted.
Interrupted(c) ==
    [Push(c) EXCEPT !.pc = IF ExternalTaken(c) THEN ExternalVector ELSE TimerVector,
                    !.timerDue = @ /\ ExternalTaken(c),
                    !.inIrq = TRUE, !.idle = FALSE, !.stopped = FALSE]

LEMMA InterruptedFields ==
    ASSUME NEW c \in CoreRecords
    PROVE  /\ Interrupted(c) \in CoreRecords
           /\ Interrupted(c).sp = Push(c).sp /\ Interrupted(c).stack = Push(c).stack
           /\ Interrupted(c).inIrq /\ ~Interrupted(c).idle /\ ~Interrupted(c).stopped
<1> DEFINE p == Push(c)
           a == IF ExternalTaken(c) THEN ExternalVector ELSE TimerVector
           due == p.timerDue /\ ExternalTaken(c)
           d == [p EXCEPT !.pc = a, !.timerDue = due, !.inIrq = TRUE, !.idle = FALSE, !.stopped = FALSE]
           A == Addresses
           B == BOOLEAN
           P == 0..(StackDepth - 1)
           K == [0..(StackDepth - 1) -> Return]
<1>1. p \in CoreRecords
  BY PushedFields
<1>2. Interrupted(c) = d
  BY <1>1 DEF Interrupted, CoreRecords
<1>3. a \in A
  BY CoreAssumption DEF Addresses, ExternalVector, TimerVector
<1>4. due \in B
  BY <1>1 DEF CoreRecords
<1>5. CoreRecords = [pc : A, bank : B, sp : P, stack : K, inIrq : B, extEnabled : B, timerEnabled : B,
                     timerDue : B, timerOn : B, idle : B, stopped : B, ext : B]
  BY DEF CoreRecords
<1>6. TRUE \in B /\ FALSE \in B
  OBVIOUS
<1> HIDE DEF p, a, due
<1>7. d \in CoreRecords
  <2> HIDE DEF A, B, P, K
  <2> QED
    BY <1>1, <1>3, <1>4, <1>5, <1>6, Zenon
<1>8. d.sp = p.sp /\ d.stack = p.stack /\ d.inIrq /\ ~d.idle /\ ~d.stopped
  BY <1>1 DEF CoreRecords
<1> QED
  BY <1>2, <1>7, <1>8 DEF p

EntrySpoilt == SpoiltBy(coreSpoiled, Len(OwedNow))

LEMMA NowOK ==
    ASSUME CoreInv
    PROVE  CoreOK(Now, OwedNow, EntrySpoilt)
<1> DEFINE c == Settled(core)
<1>1. CoreOK(core, coreFrames, coreSpoiled) /\ core \in CoreRecords
  BY DEF CoreInv, CoreOK
<1>2. c \in CoreRecords /\ CoreOK(c, coreFrames, coreSpoiled)
  BY <1>1, SettledAlike, AlikeOK DEF Alike
<1>3. /\ coreFrames \in Seq(Owed) /\ Len(coreFrames) \in Nat /\ StackDepth \in Nat \ {0}
      /\ coreSpoiled \in 0..Len(coreFrames) /\ Len(coreFrames) <= coreSpoiled + StackDepth
  BY <1>1, CoreAssumption DEF CoreOK, OwedOK
<1>4. CASE ~Taken(c)
  <2>1. Now = c /\ OwedNow = coreFrames
    BY <1>4 DEF Now, Entered, OwedNow, FramesAfterEntry
  <2>2. EntrySpoilt \in coreSpoiled..Len(coreFrames)
    BY <1>3, <2>1 DEF EntrySpoilt, SpoiltBy, Larger
  <2> HIDE DEF c
  <2>3. OwedOK(c, coreFrames, EntrySpoilt)
    BY <1>2, <2>2, OwedSpoilt DEF CoreOK
  <2> QED
    BY <1>2, <2>1, <2>3 DEF CoreOK
<1>5. CASE Taken(c)
  <2> DEFINE d == Interrupted(c)
             frame == [pc |-> c.pc, bank |-> c.bank, irq |-> TRUE]
  <2>1. Now = d /\ OwedNow = Append(coreFrames, frame)
    BY <1>5 DEF Now, Entered, OwedNow, FramesAfterEntry, Interrupted
  <2>2. ~c.inIrq
    BY <1>5 DEF Taken, ExternalTaken, TimerTaken
  <2> HIDE DEF c
  <2>3. /\ d \in CoreRecords /\ d.sp = (c.sp + 1) % StackDepth
        /\ d.stack = [c.stack EXCEPT ![c.sp] = [pc |-> c.pc, bank |-> c.bank]]
        /\ d.inIrq
    BY <1>2, PushedFields, InterruptedFields
  <2> HIDE DEF d
  <2>4. d.inIrq = (c.inIrq \/ TRUE)
    <3>1. d.inIrq \in BOOLEAN
      BY <2>3, CoreFields DEF CoreFacts
    <3> QED
      BY <2>3, <3>1
  <2>5. OwedOK(d, Append(coreFrames, frame), SpoiltBy(coreSpoiled, Len(coreFrames) + 1))
    BY <1>2, <2>2, <2>3, <2>4, OwedPushed DEF CoreOK
  <2>6. Len(OwedNow) = Len(coreFrames) + 1
    <3>1. frame \in Owed
      BY <1>2, CoreFields DEF CoreFacts, Owed
    <3> QED
      BY <1>3, <2>1, <3>1
  <2> QED
    BY <2>1, <2>3, <2>5, <2>6 DEF CoreOK, EntrySpoilt
<1> QED
  BY <1>4, <1>5

LEMMA LargerSpoilt ==
    ASSUME NEW s \in Nat, NEW n \in Nat
    PROVE  SpoiltBy(s, n) \in Nat /\ SpoiltBy(SpoiltBy(s, n), n + 1) = SpoiltBy(s, n + 1)
  BY CoreAssumption DEF SpoiltBy, Larger

LEMMA OverwrittenAs ==
    ASSUME CoreInv
    PROVE  /\ Len(OwedNow) \in Nat
           /\ Overwritten(OwedNow) = EntrySpoilt
           /\ \A left : Len(left) = Len(OwedNow) + 1 =>
                 Overwritten(left) = SpoiltBy(EntrySpoilt, Len(OwedNow) + 1)
           /\ \A left : OwedNow # <<>> /\ Len(left) = Len(OwedNow) - 1 =>
                 Overwritten(left) = IF EntrySpoilt > Len(OwedNow) - 1 THEN Len(OwedNow) - 1 ELSE EntrySpoilt
<1> DEFINE n == Len(OwedNow)
           s == EntrySpoilt
           D == StackDepth
<1>1. OwedOK(Now, OwedNow, EntrySpoilt)
  BY NowOK DEF CoreOK
<1>2. /\ OwedNow \in Seq(Owed) /\ n \in Nat /\ s \in 0..n /\ D \in Nat \ {0}
      /\ coreSpoiled \in Nat
  BY <1>1, CoreAssumption DEF OwedOK, CoreInv, CoreOK
<1>3. s = SpoiltBy(coreSpoiled, n)
  BY DEF EntrySpoilt
<1>4. SpoiltBy(s, n + 1) = SpoiltBy(coreSpoiled, n + 1)
  BY <1>2, <1>3, LargerSpoilt
<1>5. Overwritten(OwedNow) = s
  <2>1. Larger(n, n) = n
    BY DEF Larger
  <2>2. Overwritten(OwedNow) = IF s > n THEN n ELSE s
    BY <1>3, <2>1 DEF Overwritten, SpoiltBy
  <2> HIDE DEF s, n
  <2> QED
    BY <1>2, <2>2
<1>6. ASSUME NEW left, Len(left) = n + 1 PROVE Overwritten(left) = SpoiltBy(s, n + 1)
  <2> DEFINE t == SpoiltBy(coreSpoiled, n + 1)
  <2>1. Larger(n + 1, n) = n + 1
    BY <1>2 DEF Larger
  <2>2. Overwritten(left) = IF t > n + 1 THEN n + 1 ELSE t
    BY <1>6, <2>1 DEF Overwritten, SpoiltBy
  <2>3. t <= n + 1 /\ t \in Nat
    <3> HIDE DEF n, s
    <3>1. coreSpoiled <= n + 1
      <4>1. coreSpoiled <= s
        BY <1>2, <1>3 DEF SpoiltBy, Larger
      <4> QED
        BY <1>2, <4>1
    <3> QED
      BY <1>2, <3>1 DEF SpoiltBy, Larger
  <2> HIDE DEF t
  <2>4. Overwritten(left) = t
    BY <1>2, <2>2, <2>3
  <2> QED
    BY <1>4, <2>4 DEF t
<1>7. ASSUME NEW left, OwedNow # <<>>, Len(left) = n - 1
      PROVE  Overwritten(left) = IF s > n - 1 THEN n - 1 ELSE s
  <2>1. n \in Nat \ {0}
    BY <1>2, <1>7, EmptySeq
  <2>2. Larger(n - 1, n) = n
    <3> HIDE DEF n
    <3> QED
      BY <2>1 DEF Larger
  <2> QED
    BY <1>3, <1>7, <2>2 DEF Overwritten, SpoiltBy
<1> QED
  BY <1>2, <1>5, <1>6, <1>7

\* One instruction that goes on owing what it owed.
LEMMA GoesOn ==
    ASSUME CoreInv, NEW d, Alike(Now, d), Executes(d, OwedNow)
    PROVE  CoreInv'
<1>1. CoreOK(Now, OwedNow, EntrySpoilt)
  BY NowOK
<1>2. CoreOK(d, OwedNow, EntrySpoilt) /\ d \in CoreRecords
  BY <1>1, AlikeOK DEF Alike
<1>3. /\ core' \in Cycled(d) /\ coreFrames' = OwedNow /\ coreSpoiled' = EntrySpoilt
      /\ Len(coreFrames') <= MaxFrames8048 /\ coreExecuted' = coreExecuted + 1 /\ coreExecuted < MaxExecuted
  BY OverwrittenAs DEF Executes
<1>4. CoreOK(core', coreFrames', coreSpoiled')
  BY <1>2, <1>3, CycledAlike, AlikeOK
<1>5. coreExecuted' \in 0..MaxExecuted
  BY <1>3, CoreAssumption DEF CoreInv
<1> QED
  BY <1>3, <1>4, <1>5 DEF CoreInv, CoreOK, OwedOK, CoreRecords

LEMMA CoreFlagInv == ASSUME CoreInv, CoreFlag PROVE CoreInv'
<1> DEFINE c == Fetched(Now, 1)
<1>1. Now \in CoreRecords /\ Alike(Now, c)
  BY NowOK, FetchedAlike DEF CoreOK
<1>2. c \in CoreRecords /\ c.sp = Now.sp /\ c.stack = Now.stack /\ c.inIrq = Now.inIrq
  BY <1>1 DEF Alike
<1>3. PICK d \in {[c EXCEPT !.extEnabled = TRUE], [c EXCEPT !.extEnabled = FALSE],
                  [c EXCEPT !.timerEnabled = TRUE], [c EXCEPT !.timerEnabled = FALSE],
                  [c EXCEPT !.bank = TRUE], [c EXCEPT !.bank = FALSE],
                  [c EXCEPT !.timerOn = TRUE],
                  [c EXCEPT !.timerOn = FALSE, !.stopped = StopOnStopTcnt],
                  [c EXCEPT !.idle = TRUE]} : Executes(d, OwedNow)
  BY DEF CoreFlag
<1> HIDE DEF c
<1>4. Alike(c, [c EXCEPT !.extEnabled = TRUE]) /\ Alike(c, [c EXCEPT !.extEnabled = FALSE])
  BY <1>2 DEF Alike, CoreRecords
<1>5. Alike(c, [c EXCEPT !.timerEnabled = TRUE]) /\ Alike(c, [c EXCEPT !.timerEnabled = FALSE])
  BY <1>2 DEF Alike, CoreRecords
<1>6. Alike(c, [c EXCEPT !.bank = TRUE]) /\ Alike(c, [c EXCEPT !.bank = FALSE])
  BY <1>2 DEF Alike, CoreRecords
<1>7. Alike(c, [c EXCEPT !.timerOn = TRUE]) /\ Alike(c, [c EXCEPT !.idle = TRUE])
  BY <1>2 DEF Alike, CoreRecords
<1>8. Alike(c, [c EXCEPT !.timerOn = FALSE, !.stopped = StopOnStopTcnt])
  BY <1>2, CoreAssumption DEF Alike, CoreRecords
<1>9. Alike(c, d)
  BY <1>3, <1>4, <1>5, <1>6, <1>7, <1>8
<1>10. Alike(Now, d)
  BY <1>2, <1>9 DEF Alike
<1> QED
  BY <1>3, <1>10, GoesOn

LEMMA CoreCallInv == ASSUME CoreInv, CoreCall PROVE CoreInv'
<1> DEFINE c == Fetched(Now, 2)
           frame == [pc |-> c.pc, bank |-> c.bank, irq |-> FALSE]
           left == Append(OwedNow, frame)
<1>1. CoreOK(Now, OwedNow, EntrySpoilt)
  BY NowOK
<1>2. c \in CoreRecords /\ CoreOK(c, OwedNow, EntrySpoilt)
  BY <1>1, FetchedAlike, AlikeOK DEF CoreOK, Alike
<1>3. PICK target \in Labels : Executes([Push(c) EXCEPT !.pc = target], left)
  BY DEF CoreCall
<1> HIDE DEF c
<1> DEFINE d == [Push(c) EXCEPT !.pc = target]
<1>4. target \in Addresses
  BY CoreAssumption DEF Addresses
<1>5. /\ d \in CoreRecords /\ d.sp = (c.sp + 1) % StackDepth
      /\ d.stack = [c.stack EXCEPT ![c.sp] = [pc |-> c.pc, bank |-> c.bank]]
      /\ d.inIrq = c.inIrq
  <2>1. Push(c) \in CoreRecords /\ Alike(Push(c), d)
    BY <1>2, <1>4, PushedFields, PcAlike
  <2> QED
    BY <1>2, <2>1, PushedFields DEF Alike
<1>6. d.inIrq = (c.inIrq \/ FALSE)
  <2>1. c.inIrq \in BOOLEAN
    BY <1>2, CoreFields DEF CoreFacts
  <2> QED
    BY <1>5, <2>1
<1> HIDE DEF d
<1>7. OwedOK(d, left, SpoiltBy(EntrySpoilt, Len(OwedNow) + 1))
  BY <1>2, <1>5, <1>6, OwedPushed DEF CoreOK
<1>8. Len(left) = Len(OwedNow) + 1
  <2>1. frame \in Owed
    BY <1>2, CoreFields DEF CoreFacts, Owed
  <2> QED
    BY <1>2, <2>1 DEF CoreOK, OwedOK
<1> HIDE DEF left
<1>9. /\ core' \in Cycled(d) /\ coreFrames' = left
      /\ coreSpoiled' = SpoiltBy(EntrySpoilt, Len(OwedNow) + 1)
      /\ Len(coreFrames') <= MaxFrames8048 /\ coreExecuted' = coreExecuted + 1 /\ coreExecuted < MaxExecuted
  BY <1>3, <1>8, OverwrittenAs DEF Executes, d
<1>10. CoreOK(core', coreFrames', coreSpoiled')
  <2>1. CoreOK(d, left, SpoiltBy(EntrySpoilt, Len(OwedNow) + 1))
    BY <1>5, <1>7 DEF CoreOK
  <2> QED
    BY <1>5, <1>9, <2>1, CycledAlike, AlikeOK
<1>11. coreExecuted' \in 0..MaxExecuted
  BY <1>9, CoreAssumption DEF CoreInv
<1> QED
  BY <1>9, <1>10, <1>11 DEF CoreInv, CoreOK, OwedOK, CoreRecords

LEMMA FrontLen ==
    ASSUME NEW S, NEW f \in Seq(S), f # <<>>
    PROVE  Len(Front(f)) = Len(f) - 1
<1> DEFINE L == Len(f)
           g == Front(f)
<1>1. L \in Nat \ {0}
  BY EmptySeq
<1>2. g = [i \in 1..(L - 1) |-> f[i]]
  BY DEF Front
<1>3. \A i \in 1..L : f[i] \in S
  BY ElementOfSeq
<1>4. L - 1 \in Nat /\ \A i \in 1..(L - 1) : i \in 1..L
  BY <1>1
<1>5. g \in [1..(L - 1) -> S]
  <2> HIDE DEF L
  <2> QED
    BY <1>2, <1>3, <1>4
<1> HIDE DEF L, g
<1>6. Len(g) = L - 1
  BY <1>4, <1>5, SeqOfFunction
<1> QED
  BY <1>6 DEF L, g

\* A return, whose core d has the stack of Now and the pointer of the entry taken.
LEMMA ReturnsInv ==
    ASSUME CoreInv, OwedNow # <<>>, NEW d \in CoreRecords,
           d.sp = (Now.sp + StackDepth - 1) % StackDepth, d.stack = Now.stack,
           d.inIrq = (Now.inIrq /\ ~Last(OwedNow).irq),
           Executes(d, Front(OwedNow))
    PROVE  CoreInv'
<1> DEFINE left == Front(OwedNow)
           s == IF EntrySpoilt > Len(OwedNow) - 1 THEN Len(OwedNow) - 1 ELSE EntrySpoilt
<1>1. CoreOK(Now, OwedNow, EntrySpoilt) /\ Now \in CoreRecords
  BY NowOK DEF CoreOK
<1>2. OwedOK(d, left, s)
  BY <1>1, OwedPopped DEF CoreOK
<1>3. Len(left) = Len(OwedNow) - 1
  <2>1. OwedNow \in Seq(Owed)
    BY <1>1 DEF CoreOK, OwedOK
  <2> QED
    BY <2>1, FrontLen
<1> HIDE DEF left
<1>4. /\ core' \in Cycled(d) /\ coreFrames' = left /\ coreSpoiled' = s
      /\ Len(coreFrames') <= MaxFrames8048 /\ coreExecuted' = coreExecuted + 1 /\ coreExecuted < MaxExecuted
  BY <1>3, OverwrittenAs DEF Executes, left
<1> HIDE DEF s
<1>5. CoreOK(core', coreFrames', coreSpoiled')
  <2>1. CoreOK(d, left, s)
    BY <1>2 DEF CoreOK
  <2> QED
    BY <1>4, <2>1, CycledAlike, AlikeOK
<1>6. coreExecuted' \in 0..MaxExecuted
  BY <1>4, CoreAssumption DEF CoreInv
<1> QED
  BY <1>4, <1>5, <1>6 DEF CoreInv, CoreOK, OwedOK, CoreRecords

LEMMA PoppedFields ==
    ASSUME NEW c \in CoreRecords, NEW whole \in BOOLEAN
    PROVE  /\ Pop(c, whole) \in CoreRecords
           /\ Pop(c, whole).sp = (c.sp + StackDepth - 1) % StackDepth
           /\ Pop(c, whole).stack = c.stack /\ Pop(c, whole).inIrq = c.inIrq
<1> DEFINE n == (c.sp + StackDepth - 1) % StackDepth
           top == c.stack[n]
           a == top.pc
           b == IF whole THEN top.bank ELSE c.bank
           d == [c EXCEPT !.sp = n, !.pc = a, !.bank = b]
           A == Addresses
           B == BOOLEAN
           P == 0..(StackDepth - 1)
           K == [0..(StackDepth - 1) -> Return]
<1>1. CoreFacts(c) /\ c.sp \in Nat /\ StackDepth \in Nat \ {0}
  BY CoreFields, CoreAssumption DEF CoreFacts
<1>2. n \in P
  <2>1. c.sp + StackDepth - 1 \in Nat
    BY <1>1
  <2> QED
    BY <1>1, <2>1, DivMod
<1>3. top \in Return
  BY <1>1, <1>2 DEF CoreFacts
<1>4. a \in A /\ b \in B
  BY <1>1, <1>3 DEF CoreFacts, Return
<1>5. Pop(c, whole) = d
  BY DEF Pop, CoreRecords
<1>6. CoreRecords = [pc : A, bank : B, sp : P, stack : K, inIrq : B, extEnabled : B, timerEnabled : B,
                     timerDue : B, timerOn : B, idle : B, stopped : B, ext : B]
  BY DEF CoreRecords
<1> HIDE DEF n, a, b
<1>7. d \in CoreRecords
  <2> HIDE DEF A, B, P, K
  <2> QED
    BY <1>2, <1>4, <1>6, Zenon
<1>8. d.sp = n /\ d.stack = c.stack /\ d.inIrq = c.inIrq
  BY DEF CoreRecords
<1> QED
  BY <1>5, <1>7, <1>8 DEF n

LEMMA CoreResetOK == CoreOK(CoreReset, <<>>, 0)
<1> DEFINE k == [i \in 0..(StackDepth - 1) |-> [pc |-> 0, bank |-> FALSE]]
<1>1. 0 \in Addresses /\ StackDepth \in Nat \ {0} /\ 0 \in 0..(StackDepth - 1)
  BY CoreAssumption DEF Addresses
<1>2. k \in [0..(StackDepth - 1) -> Return]
  BY <1>1 DEF Return
<1>3. CoreReset = [pc |-> 0, bank |-> FALSE, sp |-> 0, stack |-> k, inIrq |-> FALSE,
                   extEnabled |-> FALSE, timerEnabled |-> FALSE, timerDue |-> FALSE,
                   timerOn |-> FALSE, idle |-> FALSE, stopped |-> FALSE, ext |-> FALSE]
  BY DEF CoreReset
<1> HIDE DEF k
<1>4. CoreReset \in CoreRecords
  BY <1>1, <1>2, <1>3 DEF CoreRecords
<1>5. <<>> \in Seq(Owed) /\ Len(<<>>) = 0
  BY EmptySeq
<1>6. 0 % StackDepth = 0
  <2>1. 0 = (StackDepth * (0 \div StackDepth)) + (0 % StackDepth) /\ 0 % StackDepth \in Nat
        /\ 0 \div StackDepth \in Nat
    BY <1>1, DivMod
  <2>2. StackDepth * (0 \div StackDepth) \in Nat
    BY <1>1, <2>1
  <2> QED
    BY <2>1, <2>2
<1> QED
  BY <1>1, <1>3, <1>4, <1>5, <1>6 DEF CoreOK, OwedOK

LEMMA CoreInitInv == CoreInit => CoreInv
  BY CoreResetOK, CoreAssumption, EmptySeq DEF CoreInit, CoreInv

\* Asleep, no interrupt is taken.
LEMMA SleepsOn ==
    ASSUME CoreInv, CoreSleep
    PROVE  Now = Settled(core)
<1>1. core \in CoreRecords
  BY DEF CoreInv, CoreOK
<1>2. ~Taken(Settled(core))
  <2> SUFFICES ASSUME Taken(Settled(core)) PROVE FALSE
    OBVIOUS
  <2>1. Settled(core) \in CoreRecords
    BY <1>1, SettledAlike DEF Alike
  <2>2. Now = Interrupted(Settled(core))
    BY DEF Now, Entered, Interrupted
  <2>3. ~Now.idle /\ ~Now.stopped
    BY <2>1, <2>2, InterruptedFields
  <2> QED
    BY <2>3 DEF CoreSleep, Awake, Now
<1> QED
  BY <1>2 DEF Now, Entered

LEMMA CoreStepInv == CoreInv /\ [CoreNext]_coreVars => CoreInv'
<1> SUFFICES ASSUME CoreInv, [CoreNext]_coreVars PROVE CoreInv'
  OBVIOUS
<1>0. CoreOK(Now, OwedNow, EntrySpoilt) /\ Now \in CoreRecords /\ core \in CoreRecords
  BY NowOK DEF CoreInv, CoreOK
<1>1. CASE CoreGo
  <2>1. Alike(Now, Fetched(Now, 1))
    BY <1>0, FetchedAlike
  <2> QED
    BY <1>1, <2>1, GoesOn DEF CoreGo
<1>2. CASE CoreJump
  <2>1. PICK target \in Labels : Executes([Fetched(Now, 2) EXCEPT !.pc = target], OwedNow)
    BY <1>2 DEF CoreJump
  <2> DEFINE c == Fetched(Now, 2)
             d == [c EXCEPT !.pc = target]
  <2>2. Alike(Now, c)
    BY <1>0, FetchedAlike
  <2>3. c \in CoreRecords /\ target \in Addresses
    BY <2>2, CoreAssumption DEF Alike, Addresses
  <2>4. Executes(d, OwedNow)
    BY <2>1
  <2> HIDE DEF c
  <2>5. Alike(c, d)
    BY <2>3, PcAlike
  <2>6. Alike(Now, d)
    BY <2>2, <2>5 DEF Alike
  <2> HIDE DEF d
  <2> QED
    BY <2>4, <2>6, GoesOn
<1>3. CASE CoreFlag
  BY <1>3, CoreFlagInv
<1>4. CASE CoreCall
  BY <1>4, CoreCallInv
<1>5. CASE CoreReturn
  <2> DEFINE d == Pop(Now, FALSE)
  <2>1. /\ d \in CoreRecords /\ d.sp = (Now.sp + StackDepth - 1) % StackDepth
        /\ d.stack = Now.stack /\ d.inIrq = Now.inIrq
    BY <1>0, PoppedFields
  <2>2. OwedNow # <<>> /\ ~Last(OwedNow).irq /\ Executes(d, Front(OwedNow))
    BY <1>5 DEF CoreReturn
  <2> HIDE DEF d
  <2>3. d.inIrq = (Now.inIrq /\ ~Last(OwedNow).irq)
    <3>1. Now.inIrq \in BOOLEAN
      BY <1>0, CoreFields DEF CoreFacts
    <3> QED
      BY <2>1, <2>2, <3>1
  <2> QED
    BY <2>1, <2>2, <2>3, ReturnsInv
<1>6. CASE CoreReturnFromIrq
  <2> DEFINE p == Pop(Now, TRUE)
             d == [p EXCEPT !.inIrq = FALSE]
  <2>1. /\ p \in CoreRecords /\ p.sp = (Now.sp + StackDepth - 1) % StackDepth
        /\ p.stack = Now.stack
    BY <1>0, PoppedFields
  <2>2. OwedNow # <<>> /\ Last(OwedNow).irq /\ Executes(d, Front(OwedNow))
    BY <1>6 DEF CoreReturnFromIrq
  <2> HIDE DEF p
  <2>3. d \in CoreRecords /\ d.sp = p.sp /\ d.stack = p.stack /\ d.inIrq = FALSE
    BY <2>1 DEF CoreRecords
  <2> HIDE DEF d
  <2>4. d.inIrq = (Now.inIrq /\ ~Last(OwedNow).irq)
    BY <2>2, <2>3
  <2> QED
    BY <2>1, <2>2, <2>3, <2>4, ReturnsInv
<1>7. CASE CoreSleep
  <2>1. Now = Settled(core)
    BY <1>7, SleepsOn
  <2>2. Alike(core, core')
    <3>1. Alike(core, Now)
      BY <1>0, <2>1, SettledAlike
    <3>2. core' = Now \/ core' \in Cycled(Now)
      BY <1>7 DEF CoreSleep
    <3>3. core' = Now \/ Alike(Now, core')
      BY <1>0, <3>2, CycledAlike
    <3> QED
      BY <3>1, <3>3 DEF Alike
  <2>3. CoreOK(core', coreFrames, coreSpoiled)
    BY <2>2, AlikeOK DEF CoreInv
  <2> QED
    BY <1>7, <2>3 DEF CoreSleep, CoreInv, CoreOK, OwedOK, CoreRecords
<1>8. CASE CoreWire
  <2>1. Alike(core, core')
    <3> DEFINE level == ~core.ext
    <3>1. level \in BOOLEAN
      OBVIOUS
    <3>2. core' = [core EXCEPT !.ext = level]
      BY <1>0, <1>8 DEF CoreWire, CoreRecords
    <3> HIDE DEF level
    <3> QED
      BY <1>0, <3>1, <3>2 DEF Alike, CoreRecords
  <2>2. CoreOK(core', coreFrames, coreSpoiled)
    BY <2>1, AlikeOK DEF CoreInv
  <2> QED
    BY <1>8, <2>2 DEF CoreWire, CoreInv, CoreOK, OwedOK, CoreRecords
<1>9. CASE CoreRestart
  <2>1. CoreOK(CoreReset, <<>>, 0)
    BY CoreResetOK
  <2> QED
    BY <1>9, <2>1, CoreAssumption, EmptySeq DEF CoreRestart, CoreInv, CoreOK, OwedOK, CoreRecords
<1>10. CASE UNCHANGED coreVars
  BY <1>10 DEF coreVars, CoreInv, CoreOK, OwedOK, CoreRecords
<1> QED
  BY <1>1, <1>2, <1>3, <1>4, <1>5, <1>6, <1>7, <1>8, <1>9, <1>10 DEF CoreNext

-------------------------------------------------------------------------------
(* The core implements returns to any depth: the returns owed are the history's, and every      *)
(* instruction, with the interrupt before it, is one step of ReturnStack.                        *)

\* Where a core is, and its bank: what ReturnStack sees of it.
Placed(c, d) == d.pc = c.pc /\ d.bank = c.bank

LEMMA SettledPlaced == ASSUME NEW c \in CoreRecords PROVE Placed(c, Settled(c))
  BY DEF CoreRecords, Settled, Placed

LEMMA CycledPlaced == ASSUME NEW c \in CoreRecords, NEW d \in Cycled(c) PROVE Placed(c, d)
<1>1. Placed(c, [c EXCEPT !.timerDue = TRUE]) /\ Placed(c, c)
  BY DEF CoreRecords, Placed
<1> QED
  BY <1>1 DEF Cycled

LEMMA FetchedPlace ==
    ASSUME NEW c \in CoreRecords, NEW n \in Nat
    PROVE  Fetched(c, n).pc = (c.pc + n) % ProgramSize /\ Fetched(c, n).bank = c.bank
  BY DEF CoreRecords, Fetched

LEMMA PushedPlace == ASSUME NEW c \in CoreRecords PROVE Placed(c, Push(c))
  BY DEF CoreRecords, Push, Placed

LEMMA InterruptedPlace ==
    ASSUME NEW c \in CoreRecords
    PROVE  /\ Interrupted(c).bank = c.bank
           /\ Interrupted(c).pc \in {ExternalVector, TimerVector}
<1> DEFINE p == Push(c)
<1>1. p \in CoreRecords /\ p.bank = c.bank
  BY PushedFields, PushedPlace DEF Placed
<1>2. Interrupted(c) = [p EXCEPT !.pc = IF ExternalTaken(c) THEN ExternalVector ELSE TimerVector,
                                 !.timerDue = @ /\ ExternalTaken(c),
                                 !.inIrq = TRUE, !.idle = FALSE, !.stopped = FALSE]
  BY DEF Interrupted
<1> HIDE DEF p
<1> QED
  BY <1>1, <1>2 DEF CoreRecords

LEMMA PoppedPlace ==
    ASSUME NEW c \in CoreRecords, NEW whole \in BOOLEAN
    PROVE  LET top == c.stack[(c.sp + StackDepth - 1) % StackDepth]
           IN /\ Pop(c, whole).pc = top.pc
              /\ Pop(c, whole).bank = IF whole THEN top.bank ELSE c.bank
  BY DEF CoreRecords, Pop

\* Before an instruction: the interrupt entered, if there is one, is one ReturnStack allows.
LEMMA StartsHere ==
    ASSUME CoreInv
    PROVE  [at |-> Now.pc, owed |-> OwedNow] \in Routines!Starts /\ Now.bank = core.bank
<1> DEFINE c == Settled(core)
<1>1. CoreOK(core, coreFrames, coreSpoiled) /\ core \in CoreRecords
  BY DEF CoreInv, CoreOK
<1>2. c \in CoreRecords /\ c.pc = core.pc /\ c.bank = core.bank /\ c.inIrq = core.inIrq
  BY <1>1, SettledAlike, SettledPlaced DEF Alike, Placed
<1>3. CASE ~Taken(c)
  <2>1. Now = c /\ OwedNow = coreFrames
    BY <1>3 DEF Now, Entered, OwedNow, FramesAfterEntry
  <2> HIDE DEF c
  <2> QED
    BY <1>2, <2>1 DEF Routines!Starts
<1>4. CASE Taken(c)
  <2> DEFINE d == Interrupted(c)
             frame == [pc |-> core.pc, bank |-> core.bank, irq |-> TRUE]
  <2>1. Now = d /\ OwedNow = Append(coreFrames, [pc |-> c.pc, bank |-> c.bank, irq |-> TRUE])
    BY <1>4 DEF Now, Entered, OwedNow, FramesAfterEntry, Interrupted
  <2>2. ~core.inIrq
    BY <1>2, <1>4 DEF Taken, ExternalTaken, TimerTaken
  <2> HIDE DEF c
  <2>3. d.bank = core.bank /\ d.pc \in {ExternalVector, TimerVector}
    BY <1>2, InterruptedPlace
  <2>4. OwedNow = Append(coreFrames, frame)
    BY <1>2, <2>1
  <2>5. Routines!Interruptible
    BY <1>1, <2>2 DEF CoreOK, OwedOK, Routines!Interruptible
  <2> HIDE DEF d
  <2> QED
    BY <2>1, <2>3, <2>4, <2>5, Zenon DEF Routines!Starts
<1> QED
  BY <1>3, <1>4

\* What an instruction owes in the end is what ReturnStack lets it owe.
LEMMA OwesLess ==
    ASSUME NEW n \in Nat, NEW m \in Nat, NEW lost \in Nat, NEW after, NEW deepest,
           deepest = Larger(n, m),
           after = (IF SpoiltBy(lost, deepest) > n THEN n ELSE SpoiltBy(lost, deepest))
    PROVE  after \in 0..n /\ (after > lost => after + StackDepth <= deepest)
  BY CoreAssumption DEF SpoiltBy, Larger

LEMMA OwesAsStack ==
    ASSUME CoreInv, NEW d, NEW left, Executes(d, left), Len(left) \in Nat
    PROVE  Routines!Owes(left, Larger(Len(left), Len(OwedNow)))
<1> DEFINE n == Len(left)
           m == Len(OwedNow)
           deepest == Larger(n, m)
<1>1. n \in Nat /\ m \in Nat /\ coreSpoiled \in Nat
  <2>1. m \in Nat
    BY OverwrittenAs
  <2> QED
    BY <2>1, EmptySeq DEF CoreInv, CoreOK, OwedOK
<1>2. coreFrames' = left /\ coreSpoiled' = Overwritten(left)
  BY DEF Executes
<1>3. Overwritten(left) = IF SpoiltBy(coreSpoiled, deepest) > n THEN n ELSE SpoiltBy(coreSpoiled, deepest)
  BY DEF Overwritten, SpoiltBy
<1>4. Overwritten(left) \in 0..n /\ (Overwritten(left) > coreSpoiled => Overwritten(left) + StackDepth <= deepest)
  <2> HIDE DEF n, m
  <2> QED
    BY <1>1, <1>3, OwesLess
<1> QED
  BY <1>2, <1>4 DEF Routines!Owes

\* An instruction of the routine the program is in.
LEMMA GoesAsRuns ==
    ASSUME CoreInv, CoreInv', NEW d, Executes(d, OwedNow)
    PROVE  Routines!Runs
<1> DEFINE s == [at |-> Now.pc, owed |-> OwedNow]
<1>1. s \in Routines!Starts /\ s.owed = OwedNow
  BY StartsHere
<1>2. Len(OwedNow) \in Nat
  BY OverwrittenAs
<1>3. Larger(Len(OwedNow), Len(OwedNow)) = Len(OwedNow)
  BY DEF Larger
<1>4. Routines!Owes(s.owed, Len(s.owed))
  BY <1>1, <1>2, <1>3, OwesAsStack
<1>5. core'.pc \in 0..(ProgramSize - 1) /\ core'.bank \in BOOLEAN
  BY CoreFields DEF CoreInv, CoreOK, CoreFacts, Addresses, CoreRecords
<1> HIDE DEF s
<1> QED
  BY <1>1, <1>4, <1>5, Zenon DEF Routines!Runs

LEMMA CallAsCalls == ASSUME CoreInv, CoreInv', CoreCall PROVE Routines!Calls
<1> DEFINE s == [at |-> Now.pc, owed |-> OwedNow]
           c == Fetched(Now, 2)
           frame == [pc |-> c.pc, bank |-> c.bank, irq |-> FALSE]
           back == [pc |-> (s.at + 2) % ProgramSize, bank |-> core.bank, irq |-> FALSE]
           left == Append(OwedNow, frame)
<1>1. s \in Routines!Starts /\ s.owed = OwedNow /\ s.at = Now.pc /\ Now.bank = core.bank
  BY StartsHere
<1>2. Now \in CoreRecords /\ OwedNow \in Seq(Owed) /\ Len(OwedNow) \in Nat
  BY NowOK DEF CoreOK, OwedOK
<1>3. c \in CoreRecords /\ c.pc = (Now.pc + 2) % ProgramSize /\ c.bank = Now.bank
  BY <1>2, FetchedAlike, FetchedPlace DEF Alike
<1>4. frame = back
  BY <1>1, <1>3
<1>5. PICK target \in Labels : Executes([Push(c) EXCEPT !.pc = target], left)
  BY DEF CoreCall
<1>6. Len(left) = Len(OwedNow) + 1
  <2>1. frame \in Owed
    BY <1>3, CoreFields DEF CoreFacts, Owed
  <2> HIDE DEF frame
  <2> QED
    BY <1>2, <2>1
<1> HIDE DEF c, left
<1> DEFINE d == [Push(c) EXCEPT !.pc = target]
<1>7. core'.bank = core.bank
  <2>1. Push(c) \in CoreRecords /\ Push(c).bank = c.bank
    BY <1>3, PushedFields, PushedPlace DEF Placed
  <2>2. target \in Addresses
    BY CoreAssumption DEF Addresses
  <2>3. d \in CoreRecords /\ d.bank = c.bank
    BY <2>1, <2>2 DEF CoreRecords
  <2>4. core' \in Cycled(d)
    BY <1>5 DEF Executes
  <2> HIDE DEF d
  <2>5. core'.bank = d.bank
    BY <2>3, <2>4, CycledPlaced DEF Placed
  <2> QED
    BY <1>1, <1>3, <2>3, <2>5
<1>8. Routines!Owes(left, Len(OwedNow) + 1)
  <2>1. Larger(Len(left), Len(OwedNow)) = Len(OwedNow) + 1
    BY <1>2, <1>6 DEF Larger
  <2>2. Executes(d, left) /\ Len(left) \in Nat
    BY <1>2, <1>5, <1>6
  <2> HIDE DEF d
  <2>3. Routines!Owes(left, Larger(Len(left), Len(OwedNow)))
    BY <2>2, OwesAsStack
  <2> QED
    BY <2>1, <2>3
<1>9. left = Append(s.owed, back)
  BY <1>1, <1>4 DEF left
<1>10. core'.pc \in 0..(ProgramSize - 1)
  BY CoreFields DEF CoreInv, CoreOK, CoreFacts, Addresses, CoreRecords
<1>11. Routines!Owes(Append(s.owed, back), Len(s.owed) + 1)
  BY <1>1, <1>8, <1>9
<1> HIDE DEF s
<1> QED
  BY <1>1, <1>7, <1>10, <1>11, Zenon DEF Routines!Calls, back

\* The entry a return finds is the one it is owed, unless that is lost.
LEMMA ReturnFound ==
    ASSUME CoreInv, OwedNow # <<>>, Len(OwedNow) > coreSpoiled
    PROVE  Now.stack[(Now.sp + StackDepth - 1) % StackDepth] = Kept(Last(OwedNow))
<1> DEFINE n == Len(OwedNow)
           D == StackDepth
<1>1. OwedOK(Now, OwedNow, EntrySpoilt)
  BY NowOK DEF CoreOK
<1>2. n \in Nat \ {0} /\ D \in Nat \ {0} /\ coreSpoiled \in Nat /\ Last(OwedNow) = OwedNow[n]
  BY <1>1, CoreAssumption, EmptySeq DEF OwedOK, CoreInv, CoreOK, Last
<1>3. EntrySpoilt < n
  <2> HIDE DEF n, D
  <2> QED
    BY <1>2 DEF EntrySpoilt, SpoiltBy, Larger, n, D
<1>4. Now.sp = n % D /\ Now.stack[(n - 1) % D] = Kept(OwedNow[n])
  BY <1>1, <1>2, <1>3 DEF OwedOK
<1> HIDE DEF n, D
<1>5. ((n % D) + D - 1) % D = (n - 1) % D
  BY <1>2, PointerDown
<1> QED
  BY <1>2, <1>4, <1>5 DEF D

\* A return whose core d is where the entry says, with the bank if the return is an interrupt's.
LEMMA ReturnAsReturns ==
    ASSUME CoreInv, CoreInv', OwedNow # <<>>, NEW whole \in BOOLEAN, whole <=> Last(OwedNow).irq,
           NEW d \in CoreRecords, Placed(Pop(Now, whole), d), Executes(d, Front(OwedNow))
    PROVE  Routines!Returns
<1> DEFINE s == [at |-> Now.pc, owed |-> OwedNow]
           top == Now.stack[(Now.sp + StackDepth - 1) % StackDepth]
           f == Last(OwedNow)
           left == Front(OwedNow)
<1>1. s \in Routines!Starts /\ s.owed = OwedNow /\ Now.bank = core.bank
  BY StartsHere
<1>2. Now \in CoreRecords /\ OwedNow \in Seq(Owed) /\ Len(OwedNow) \in Nat \ {0}
  BY NowOK, EmptySeq DEF CoreOK, OwedOK
<1>3. core'.pc = d.pc /\ core'.bank = d.bank
  <2>1. core' \in Cycled(d)
    BY DEF Executes
  <2> QED
    BY <2>1, CycledPlaced DEF Placed
<1>4. core'.pc = top.pc /\ core'.bank = IF whole THEN top.bank ELSE core.bank
  BY <1>1, <1>2, <1>3, PoppedPlace DEF Placed
<1>5. Len(OwedNow) > coreSpoiled => top.pc = f.pc /\ top.bank = f.bank
  BY ReturnFound DEF Kept
<1>6. Routines!Owes(left, Len(OwedNow))
  <2>1. Len(left) = Len(OwedNow) - 1
    BY <1>2, FrontLen
  <2>2. Len(left) \in Nat /\ Larger(Len(left), Len(OwedNow)) = Len(OwedNow)
    <3> HIDE DEF left
    <3> QED
      BY <1>2, <2>1 DEF Larger
  <2> HIDE DEF left
  <2>3. Executes(d, left)
    BY DEF left
  <2>4. Routines!Owes(left, Larger(Len(left), Len(OwedNow)))
    BY <2>2, <2>3, OwesAsStack
  <2> QED
    BY <2>2, <2>4
<1>7. core'.pc \in 0..(ProgramSize - 1) /\ core'.bank \in BOOLEAN
  BY CoreFields DEF CoreInv, CoreOK, CoreFacts, Addresses, CoreRecords
<1>8. ~Last(s.owed).irq => core'.bank = core.bank
  BY <1>1, <1>4
<1>9. Len(s.owed) > coreSpoiled => /\ core'.pc = Last(s.owed).pc
                                   /\ Last(s.owed).irq => core'.bank = Last(s.owed).bank
  BY <1>1, <1>4, <1>5
<1>10. s.owed # <<>> /\ Routines!Owes(Front(s.owed), Len(s.owed))
  BY <1>1, <1>6
<1> HIDE DEF s
<1>11. Routines!Front(s.owed) = Front(s.owed) /\ Routines!Last(s.owed) = Last(s.owed)
  BY DEF Front, Last, Routines!Front, Routines!Last
<1> QED
  BY ONLY <1>1, <1>7, <1>8, <1>9, <1>10, <1>11 DEF Routines!Returns

LEMMA CoreStepStack ==
    CoreInv /\ CoreInv' /\ [CoreNext]_coreVars => [Routines!Next]_(Routines!vars)
<1> SUFFICES ASSUME CoreInv, CoreInv', [CoreNext]_coreVars
             PROVE  [Routines!Next]_(Routines!vars)
  OBVIOUS
<1>0. Now \in CoreRecords /\ core \in CoreRecords
  BY NowOK DEF CoreInv, CoreOK
<1>1. ASSUME NEW d, Executes(d, OwedNow) PROVE Routines!Next
  BY <1>1, GoesAsRuns DEF Routines!Next
<1>2. CASE CoreGo \/ CoreJump \/ CoreFlag
  <2>1. \E d : Executes(d, OwedNow)
    BY <1>2, Zenon DEF CoreGo, CoreJump, CoreFlag
  <2> QED
    BY <1>1, <2>1
<1>3. CASE CoreCall
  BY <1>3, CallAsCalls DEF Routines!Next
<1>4. CASE CoreReturn
  <2> DEFINE d == Pop(Now, FALSE)
  <2>1. d \in CoreRecords /\ Placed(d, d)
    BY <1>0, PoppedFields DEF Placed
  <2>2. OwedNow # <<>> /\ (FALSE <=> Last(OwedNow).irq) /\ Executes(d, Front(OwedNow))
    BY <1>4 DEF CoreReturn
  <2> QED
    BY <2>1, <2>2, ReturnAsReturns DEF Routines!Next
<1>5. CASE CoreReturnFromIrq
  <2> DEFINE p == Pop(Now, TRUE)
             d == [p EXCEPT !.inIrq = FALSE]
  <2>1. p \in CoreRecords
    BY <1>0, PoppedFields
  <2>2. OwedNow # <<>> /\ (TRUE <=> Last(OwedNow).irq) /\ Executes(d, Front(OwedNow))
    BY <1>5 DEF CoreReturnFromIrq
  <2>3. d \in CoreRecords /\ Placed(p, d)
    <3> HIDE DEF p
    <3> QED
      BY <2>1 DEF CoreRecords, Placed
  <2> HIDE DEF d
  <2> QED
    BY <2>2, <2>3, ReturnAsReturns DEF Routines!Next
<1>6. CASE CoreSleep
  <2>1. Now = Settled(core)
    BY <1>6, SleepsOn
  <2>2. Placed(core, Now)
    BY <1>0, <2>1, SettledPlaced
  <2>3. core' = Now \/ core' \in Cycled(Now)
    BY <1>6 DEF CoreSleep
  <2>4. core' = Now \/ Placed(Now, core')
    BY <1>0, <2>3, CycledPlaced
  <2>5. core'.pc = core.pc /\ core'.bank = core.bank
    BY <2>2, <2>4 DEF Placed
  <2> QED
    BY <1>6, <2>5 DEF CoreSleep, Routines!vars
<1>7. CASE CoreWire
  <2>1. core'.pc = core.pc /\ core'.bank = core.bank
    BY <1>0, <1>7 DEF CoreWire, CoreRecords
  <2> QED
    BY <1>7, <2>1 DEF CoreWire, Routines!vars
<1>8. CASE CoreRestart
  <2>1. Routines!Restarts
    BY <1>8 DEF CoreRestart, CoreReset, Routines!Restarts
  <2> QED
    BY <2>1 DEF Routines!Next
<1>9. CASE UNCHANGED coreVars
  BY <1>9 DEF coreVars, Routines!vars
<1> QED
  BY <1>2, <1>3, <1>4, <1>5, <1>6, <1>7, <1>8, <1>9 DEF CoreNext

LEMMA CoreStackInit == CoreInit => Routines!Init
  BY DEF CoreInit, CoreReset, Routines!Init

-------------------------------------------------------------------------------
(* The modem: its state is an event of the line, whatever a script replays.  *)

\* Of a set of numbers up to a bound that is not empty, Max is a member.
LEMMA LargestIn ==
    ASSUME NEW n \in Nat, NEW S \in SUBSET (1 .. n), S # {}
    PROVE  Max(S) \in S
<1> DEFINE T == {n - k : k \in S}
<1>1. T \in SUBSET Nat /\ T # {}
  <2>1. \A k \in S : n - k \in Nat
    OBVIOUS
  <2> QED
    BY <2>1, Zenon
<1>2. PICK t \in T : \A m \in T : t <= m
  <2> HIDE DEF T
  <2> QED
    BY <1>1, LeastNumber
<1>3. PICK k \in S : t = n - k
  BY <1>2
<1>4. k \in S /\ \A m \in S : k >= m
  <2> SUFFICES ASSUME NEW m \in S PROVE k >= m
    BY <1>3
  <2>1. n - m \in T
    OBVIOUS
  <2>2. t <= n - m
    BY <1>2, <2>1
  <2> QED
    BY <1>3, <2>2
<1> QED
  BY <1>4, Zenon DEF Max

\* What a script leaves the modem as: its last line decides, and one of the first three lines of
\* bytes is a stage of a call.
LEMMA ReplayType ==
    ASSUME NEW m \in Modem, NEW lines \in Seq(LineEvents \cup {"bytes", "bad"})
    PROVE  AfterReplay(m, lines) \in Modem
<1> DEFINE good == {k \in DOMAIN lines : \A j \in 1 .. k : lines[j] # "bad"}
           upTo(k) == {j \in 1 .. k : lines[j] = "bytes"}
           nth(k) == Cardinality(upTo(k))
           events == {k \in good : lines[k] # "bytes" \/ nth(k) <= 3}
           event(k) == IF lines[k] = "bytes" THEN CleanConnect[nth(k)] ELSE lines[k]
           turns == {k \in events : event(k) \in {"connected", "carrier_lost", "idle"}}
           s == IF events = {} THEN m.state ELSE event(Max(events))
           d == IF turns = {} THEN m.dcd ELSE event(Max(turns)) = "connected"
<1>1. DOMAIN lines = 1 .. Len(lines) /\ Len(lines) \in Nat
  OBVIOUS
<1>2. ASSUME NEW k \in good PROVE k \in 1 .. Len(lines) /\ lines[k] \in LineEvents \cup {"bytes"}
  <2>1. k \in 1 .. Len(lines) /\ k \in 1 .. k
    BY <1>1, <1>2
  <2> QED
    BY <1>2, <2>1
<1>3. ASSUME NEW k \in events PROVE event(k) \in LineEvents
  <2>1. CASE lines[k] = "bytes"
    <3>1. k \in good /\ nth(k) <= 3 /\ k \in Nat /\ k \in 1 .. k
      BY <1>2, <2>1
    <3>2. IsFiniteSet(1 .. k)
      BY <3>1, FS_Interval
    <3>3. IsFiniteSet(upTo(k)) /\ upTo(k) # {}
      BY <2>1, <3>1, <3>2, FS_Subset
    <3>4. nth(k) \in Nat /\ nth(k) # 0
      BY <3>3, FS_CardinalityType, FS_EmptySet
    <3>5. nth(k) \in 1 .. 3
      <4> HIDE DEF nth
      <4> QED
        BY <3>1, <3>4
    <3>6. \A i \in 1 .. 3 : CleanConnect[i] \in LineEvents
      BY DEF CleanConnect, LineEvents
    <3> QED
      BY <2>1, <3>5, <3>6
  <2>2. CASE lines[k] # "bytes"
    BY <1>2, <1>3, <2>2
  <2> QED
    BY <2>1, <2>2
<1>4. events # {} => Max(events) \in events
  <2>1. events \in SUBSET (1 .. Len(lines))
    BY <1>1
  <2> HIDE DEF events
  <2> QED
    BY <1>1, <2>1, LargestIn
<1>5. s \in LineEvents
  <2> HIDE DEF events, event
  <2> QED
    BY <1>3, <1>4 DEF Modem
<1>6. d \in BOOLEAN
  <2> HIDE DEF turns, event
  <2> QED
    BY DEF Modem
<1>7. AfterReplay(m, lines) = [m EXCEPT !.state = s, !.dcd = d]
  BY DEF AfterReplay, Modem
<1> HIDE DEF s, d
<1> QED
  BY <1>5, <1>6, <1>7 DEF Modem

LEMMA ModemType == modem \in Modem /\ [LineNext]_lineVars => modem' \in Modem
<1> SUFFICES ASSUME modem \in Modem, [LineNext]_lineVars PROVE modem' \in Modem
  OBVIOUS
<1>1. ASSUME NEW e \in LineEvents, LineEvent(e) PROVE modem' \in Modem
  <2> DEFINE d == IF e = "connected" THEN TRUE ELSE modem.dcd /\ e \notin {"carrier_lost", "idle"}
  <2>1. modem' = [modem EXCEPT !.state = e, !.dcd = d] /\ d \in BOOLEAN
    BY <1>1 DEF LineEvent, AfterEvent, Modem
  <2> HIDE DEF d
  <2> QED
    BY <2>1 DEF Modem
<1>2. ASSUME NEW lines \in ModemFixtures, ReplayFixture(lines) PROVE modem' \in Modem
  <2>1. ModemFixtures \subseteq Seq(LineEvents \cup {"bytes", "bad"})
    BY LineAudioFixtures
  <2> QED
    BY <1>2, <2>1, ReplayType DEF ReplayFixture
<1>3. ASSUME NEW v \in BOOLEAN, SetDtr(v) \/ SetRts(v) PROVE modem' \in Modem
  <2>1. "idle" \in LineEvents
    BY DEF LineEvents
  <2> QED
    BY <1>3, <2>1 DEF SetDtr, SetRts, Modem
<1>4. CASE LineReset
  BY <1>4 DEF LineReset, IdleModem, Modem, LineEvents
<1>5. CASE UNCHANGED modem
  BY <1>5
<1> QED
  BY <1>1, <1>2, <1>3, <1>4, <1>5 DEF LineNext, ScreenUpdate, NotifyHook, NotifyVoice, HostCommand, lineVars

LEMMA LineTyped == LineInv /\ modem \in Modem => LineTypeOK
  BY DEF LineInv, RouteToldOf, LineTypeOK

LEMMA ModemInitType == LineInit => modem \in Modem
  BY DEF LineInit, IdleModem, Modem, LineEvents

-------------------------------------------------------------------------------
(* The terminal: a step of it is a step of the device exercised, so that an invariant of *)
(* a device holds in every behaviour that exercises it.                                   *)

LEMMA DeviceStep ==
    ASSUME [TerminalNext]_terminalVars
    PROVE  /\ active' = active
           /\ active = "coin" => [CoinNext]_coinVars
           /\ active = "smartcard" => [SmartNext]_smartVars
           /\ active = "card" => [CardNext]_cardVars
           /\ active = "supervision" => [SupervisionNext]_supervisionVars
           /\ active = "line" => [LineNext]_lineVars
           /\ active = "uart" => [UartNext]_uartVars
           /\ active = "ncc_frame" => [NccFrameNext]_nccVars
           /\ active = "ncc_session" => [NccSessionNext]_sessionVars
           /\ active = "bridge" => [HostBridgeTcpNext]_bridgeVars
           /\ active = "phrase" => [VoiceNext]_voiceVars
           /\ active = "voiceware" => [VoicewareNext]_voicewareVars
           /\ active = "vfd" => [VfdNext]_vfdVars
           /\ active = "keypad" => [KeypadNext]_keypadVars
           /\ active = "core" => [CoreNext]_coreVars
           /\ active = "alu" => [AluNext]_aluVars
           /\ active = "backend" => [BackendNext]_backendVars
           /\ active = "milestones" => [MilestonesNext]_bootVars
           /\ active = "nvram" => [NvramNext]_nvVars
           /\ active = "panel" => [PanelEventsNext]_panelEventVars
           /\ active = "ring" => [RingNext]_ring
           /\ active = "alarm" => [AlarmNext]_alarm
           /\ active = "jack" => [JackNext]_jack
           /\ active = "memory" => [MemoryNext]_memory
           /\ active = "cashbox" => [CashboxNext]_cashbox
           /\ active = "health" => [PeripheralsHealthNext]_health
           /\ active = "csio" => [CsioNext]_csioVars
           /\ active = "security" => [SecurityNext]_securityVars
<1>1. CASE TerminalNext
  <2>1. active' = active
    BY <1>1 DEF TerminalNext, OthersStand
  <2> QED
    BY <1>1, <2>1 DEF TerminalNext
<1>2. CASE UNCHANGED terminalVars
  BY <1>2 DEF terminalVars, peripheralVars
<1> QED
  BY <1>1, <1>2

\* The records the terminal keeps about itself: each of the four devices in its invariant.
RecordsInv ==
    /\ active = "milestones" => MilestonesInv
    /\ active = "nvram" => NvramInv
    /\ active = "memory" => MemoryInv
    /\ active = "health" => PeriphHealthInv

\* What the terminal keeps about itself is true, in every behaviour: a boot milestone is
\* logged only after those it builds on, the checksum beside the NVRAM is that of its octets
\* whatever sessions wrote or lost, a record of parameter memory that was spoilt in one octet
\* is refused, and a peripheral's alarm is raised only on its evidence.
THEOREM RecordsAlwaysHonest == TerminalSpec => []RecordsHonest
<1>1. TerminalInit => RecordsInv
  BY MilestonesInitInv, NvramInitInv, MemoryInitInv, PeriphHealthInitInv
     DEF TerminalInit, RecordsInv, PeripheralsInit
<1>2. RecordsInv /\ [TerminalNext]_terminalVars => RecordsInv'
  <2> SUFFICES ASSUME RecordsInv, [TerminalNext]_terminalVars PROVE RecordsInv'
    OBVIOUS
  <2> QED
    BY DeviceStep, MilestonesStepInv, NvramStepInv, MemoryStepInv, PeriphHealthStepInv DEF RecordsInv
<1>3. RecordsInv => RecordsHonest
  BY MilestonesInvImplies, NvramInvImplies, MemoryInvImplies DEF RecordsInv, RecordsHonest, PeriphHealthInv
<1> QED
  BY <1>1, <1>2, <1>3, PTL DEF TerminalSpec

\* The processor of the TP and what is around it: each of the five devices in its invariant.
TpBackendInv ==
    /\ active = "core" => CoreInv
    /\ active = "alu" => AluInv
    /\ active = "backend" => BackendInv
    /\ active = "ring" => RingInv
    /\ active = "jack" => JackInv

\* In every behaviour a routine of the 8048 returns to where it was called or interrupted unless
\* deeper calls have overwritten its return, and interrupts do not nest; DA A gives the decimal
\* sum of what was added; the backend's octets reach the link once and in order, its contract
\* rests on the three it stands for, and no tone stays in an earpiece the CP has seized; a call
\* is announced only after a ring; and the relays of the data jack are on only under a data call.
THEOREM TpBackendAlwaysRight == TerminalSpec => []TpBackendRight
<1>1. TerminalInit => TpBackendInv
  BY CoreInitInv, AluInitInv, BackendInitInv, RingInitInv, JackInitInv
     DEF TerminalInit, TpBackendInv, PeripheralsInit
<1>2. TpBackendInv /\ [TerminalNext]_terminalVars => TpBackendInv'
  <2> SUFFICES ASSUME TpBackendInv, [TerminalNext]_terminalVars PROVE TpBackendInv'
    OBVIOUS
  <2> QED
    BY DeviceStep, CoreStepInv, AluStepInv, BackendStepInv, RingStepInv, JackStepInv DEF TpBackendInv
<1>3. TpBackendInv => TpBackendRight
  BY CoreInvImplies, AluInvImplies
     DEF TpBackendInv, TpBackendRight, BackendInv, RingInv, JackInv
<1> QED
  BY <1>1, <1>2, <1>3, PTL DEF TerminalSpec

\* In every behaviour of the core a routine goes on where it was called or interrupted.
THEOREM RoutinesReturn == TerminalSpec => ReturnsSpec
<1> DEFINE I == active = "core" => CoreInv
<1>1. TerminalInit => I /\ Routines!Init
  BY CoreInitInv, CoreStackInit DEF TerminalInit
<1>2. I /\ [TerminalNext]_terminalVars => I'
  <2> SUFFICES ASSUME I, [TerminalNext]_terminalVars PROVE I'
    OBVIOUS
  <2> QED
    BY DeviceStep, CoreStepInv
<1>3. I /\ I' /\ [TerminalNext]_terminalVars => [Routines!Next]_(Routines!vars)
  <2> SUFFICES ASSUME I, I', [TerminalNext]_terminalVars PROVE [Routines!Next]_(Routines!vars)
    OBVIOUS
  <2>1. CASE active = "core"
    BY <2>1, DeviceStep, CoreStepStack
  <2>2. CASE active # "core"
    <3>1. UNCHANGED coreVars
      BY <2>2 DEF TerminalNext, terminalVars, OthersStand
    <3> QED
      BY <3>1 DEF coreVars, Routines!vars
  <2> QED
    BY <2>1, <2>2
<1> HIDE DEF I
<1> QED
  BY <1>1, <1>2, <1>3, PTL DEF TerminalSpec, ReturnsSpec, Routines!Spec

\* The payment devices: each of the five in its invariant.
PaymentInv ==
    /\ active = "coin" => CoinInv
    /\ active = "smartcard" => SmartInv
    /\ active = "card" => CardInv
    /\ active = "alarm" => AlarmInv
    /\ active = "cashbox" => CashboxInv

\* In every behaviour what was paid is what is read: a firmware that samples the coin line has
\* counted the pulses of each coin, one that samples a whole swipe holds the card's track and
\* knows whether its LRC holds, one that reads the smartcard's FIFO gets the ATR once and one
\* answer per command in the order asked, the card alarm is sent when it is due, and every
\* collection of the cash box is counted.
THEOREM PaymentAlwaysRead == TerminalSpec => []PaymentRead
<1>1. TerminalInit => PaymentInv
  BY CoinInvInitially, SmartInitInv, CardInitInv, AlarmInitInv, CashboxInitInv
     DEF TerminalInit, PaymentInv, PeripheralsInit
<1>2. PaymentInv /\ [TerminalNext]_terminalVars => PaymentInv'
  <2> SUFFICES ASSUME PaymentInv, [TerminalNext]_terminalVars PROVE PaymentInv'
    OBVIOUS
  <2> QED
    BY DeviceStep, CoinInvStep, SmartStepInv, CardStepInv, AlarmStepInv, CashboxStepInv DEF PaymentInv
<1>3. PaymentInv => PaymentRead
  BY CoinInvImplies, SmartInvImplies, CardInvImplies, AlarmInvImplies
     DEF PaymentInv, PaymentRead, CashboxInv
<1> QED
  BY <1>1, <1>2, <1>3, PTL DEF TerminalSpec

\* The voice: the chip and the phrase it decodes, each in its invariant.
VoicesInv ==
    /\ active = "voiceware" => VoicewareInv
    /\ active = "phrase" => VoiceInv

\* In every behaviour the caller hears the phrase that was asked for: the chip plays only what
\* the audio route knows of, the commands of a message are read in a line with one block for
\* each, and a phrase number means the same message whichever bank is latched.
THEOREM VoiceAlwaysHeard == TerminalSpec => []VoiceHeard
<1>1. TerminalInit => VoicesInv
  BY VoicewareInitInv, VoiceInitInv DEF TerminalInit, VoicesInv
<1>2. VoicesInv /\ [TerminalNext]_terminalVars => VoicesInv'
  <2> SUFFICES ASSUME VoicesInv, [TerminalNext]_terminalVars PROVE VoicesInv'
    OBVIOUS
  <2> QED
    BY DeviceStep, VoicewareStepInv, VoiceStepInv DEF VoicesInv
<1>3. VoicesInv => VoiceHeard
  BY VoiceInvImplies DEF VoicesInv, VoiceHeard, VoicewareInv
<1> QED
  BY <1>1, <1>2, <1>3, PTL DEF TerminalSpec

\* What the patron sees and presses, and the locks: each of the four devices in its invariant.
PanelDevicesInv ==
    /\ active = "vfd" => VfdInv
    /\ active = "keypad" => KeypadInv
    /\ active = "panel" => PanelInv
    /\ active = "security" => SecurityInv

\* In every behaviour the display shows the text, the marks and the glyphs it was given, a row
\* of the keypad is low only with a key held in it, a soft key is reported once while it is down
\* and only alone and steady, and a lock or a door is told of only as it has stood for the debounce.
THEOREM PanelAlwaysHonest == TerminalSpec => []PanelHonest
<1>1. TerminalInit => PanelDevicesInv
  BY VfdInitInv, KeypadResetInv, PanelInitInv, SecurityResetInv
     DEF TerminalInit, PanelDevicesInv, KeypadInit, SecurityInit
<1>2. PanelDevicesInv /\ [TerminalNext]_terminalVars => PanelDevicesInv'
  <2> SUFFICES ASSUME PanelDevicesInv, [TerminalNext]_terminalVars PROVE PanelDevicesInv'
    OBVIOUS
  <2> QED
    BY DeviceStep, VfdStepInv, KeypadStepInv, PanelStepInv, SecurityStepInv DEF PanelDevicesInv
<1>3. PanelDevicesInv => PanelHonest
  BY VfdInvImplies, KeypadInvImplies, PanelInvImplies, SecurityInvImplies DEF PanelDevicesInv, PanelHonest
<1> QED
  BY <1>1, <1>2, <1>3, PTL DEF TerminalSpec

\* What the terminal sends: the frames of the NCC line, the host bridge and the CSIO
\* transmitter, each in its invariant.
ArrivalInv ==
    /\ active = "ncc_frame" => FrameInv
    /\ active = "bridge" => BridgeInv
    /\ active = "csio" => CsioInv

\* In every behaviour what is sent is what arrives, or nothing: the NCC decoder gives back the
\* frame that encode was given and refuses one with a byte changed, lost or doubled, a reader
\* of a stream cut anywhere takes whole frames in their order, and the board judges each octet
\* of the CSIO transmitter as its place in a frame demands.  A frame whose control byte is 171
\* is left out: with its count lost, the CRC of such a frame can still hold.
THEOREM FramesAlwaysArrive ==
    ASSUME \A f \in Frames : f.control # 171
    PROVE  TerminalSpec => []FramesArrive
<1>1. TerminalInit => ArrivalInv
  BY FrameInitInv, BridgeInitInv, CsioInitInv DEF TerminalInit, ArrivalInv
<1>2. ArrivalInv /\ [TerminalNext]_terminalVars => ArrivalInv'
  <2> SUFFICES ASSUME ArrivalInv, [TerminalNext]_terminalVars PROVE ArrivalInv'
    OBVIOUS
  <2>1. FrameInv /\ [NccFrameNext]_nccVars => FrameInv'
    BY FrameStepInv
  <2> QED
    BY DeviceStep, <2>1, BridgeStepInv, CsioStepInv DEF ArrivalInv
<1>3. ArrivalInv => FramesArrive
  BY FrameInvExact, BridgeInvImplies, CsioInvImplies DEF ArrivalInv, FramesArrive
<1> QED
  BY <1>1, <1>2, <1>3, PTL DEF TerminalSpec

\* The six peripherals are typed in every behaviour, and only the one exercised ever moves.
PeripheralsInv == RingInv /\ AlarmInv /\ JackInv /\ MemoryInv /\ CashboxInv /\ PeriphHealthInv

LEMMA PeripheralsStand ==
    ASSUME [TerminalNext]_terminalVars
    PROVE  /\ [RingNext]_ring /\ [AlarmNext]_alarm /\ [JackNext]_jack
           /\ [MemoryNext]_memory /\ [CashboxNext]_cashbox /\ [PeripheralsHealthNext]_health
<1>1. CASE TerminalNext
  <2>1. OthersStand
    BY <1>1 DEF TerminalNext
  <2> QED
    BY <2>1, DeviceStep DEF OthersStand
<1>2. CASE UNCHANGED terminalVars
  BY <1>2 DEF terminalVars, peripheralVars
<1> QED
  BY <1>1, <1>2

LEMMA PeripheralsInitInv == TerminalInit => PeripheralsInv
  BY RingInitInv, AlarmInitInv, JackInitInv, MemoryInitInv, CashboxInitInv, PeriphHealthInitInv
     DEF TerminalInit, PeripheralsInit, PeripheralsInv

LEMMA PeripheralsStepInv == PeripheralsInv /\ [TerminalNext]_terminalVars => PeripheralsInv'
  BY PeripheralsStand, RingStepInv, AlarmStepInv, JackStepInv, MemoryStepInv, CashboxStepInv,
     PeriphHealthStepInv DEF PeripheralsInv

LEMMA PeripheralsTyped == PeripheralsInv => PeripheralsTypeOK
<1> SUFFICES ASSUME PeripheralsInv PROVE PeripheralsTypeOK
  OBVIOUS
<1>1. ring \in [disabled : SUBSET DisableReasons, ringing : BOOLEAN, incoming : BOOLEAN,
               abandoned : BOOLEAN, pulses : 0..MaxPulses]
  BY DEF PeripheralsInv, RingInv, RingType
<1>2. /\ alarm.phase \in {"off", "armed", "active"} /\ alarm.tone \in BOOLEAN
      /\ alarm.relay \in BOOLEAN /\ alarm.t \in Nat /\ alarm.cadence \in Nat
  BY DEF PeripheralsInv, AlarmInv, AlarmTimed, AlarmState
<1>3. jack \in [state : JackStates, control : BOOLEAN, established : BOOLEAN,
               session : BOOLEAN, pending : BOOLEAN]
  BY DEF PeripheralsInv, JackInv, JackType
<1>4. memory.octets \in [Offsets -> 0..255]
  BY DEF PeripheralsInv, MemoryInv, Octet
<1>5. cashbox.box \in Boxes \cup {NoBox} /\ cashbox.seq \in 0..MaxCommits
  BY DEF PeripheralsInv, CashboxInv
<1>6. health.misses \in 0..MaxSamples /\ health.owner \in Owners
  BY DEF PeripheralsInv, PeriphHealthInv, HealthState
<1> QED
  BY <1>1, <1>2, <1>3, <1>4, <1>5, <1>6 DEF PeripheralsTypeOK

\* Every device in its invariant while it is exercised, and the peripherals in theirs always.
TypedInv ==
    /\ active \in Devices
    /\ RecordsInv /\ TpBackendInv /\ PaymentInv /\ VoicesInv /\ PanelDevicesInv /\ PeripheralsInv
    /\ active = "supervision" => SupervisionInv
    /\ active = "line" => LineInv /\ modem \in Modem
    /\ active = "uart" => UartInv
    /\ active = "ncc_frame" => NccFrameTypeOK
    /\ active = "ncc_session" => SessionType /\ SessionInv
    /\ active = "bridge" => BridgeInv
    /\ active = "csio" => CsioInv

LEMMA TypedInitInv == TerminalInit => TypedInv
<1> SUFFICES ASSUME TerminalInit PROVE TypedInv
  OBVIOUS
<1>1. active \in Devices
  BY DEF TerminalInit
<1>2. RecordsInv /\ TpBackendInv /\ PaymentInv /\ VoicesInv
  BY MilestonesInitInv, NvramInitInv, MemoryInitInv, PeriphHealthInitInv, CoreInitInv, AluInitInv,
     BackendInitInv, RingInitInv, JackInitInv, CoinInvInitially, SmartInitInv, CardInitInv,
     AlarmInitInv, CashboxInitInv, VoicewareInitInv, VoiceInitInv
     DEF TerminalInit, PeripheralsInit, RecordsInv, TpBackendInv, PaymentInv, VoicesInv
<1>3. PanelDevicesInv
  BY VfdInitInv, KeypadResetInv, PanelInitInv, SecurityResetInv
     DEF TerminalInit, PanelDevicesInv, KeypadInit, SecurityInit
<1>4. PeripheralsInv
  BY PeripheralsInitInv
<1>5. SupervisionInv
  BY SupervisionInitInv DEF TerminalInit, SupervisionInit
<1>6. LineInv /\ modem \in Modem /\ UartInv
  BY LineInitInv, ModemInitType, UartInitInv DEF TerminalInit
<1>7. NccFrameTypeOK
  BY FrameInitInv DEF TerminalInit, FrameInv
<1>8. SessionType /\ SessionInv /\ BridgeInv /\ CsioInv
  BY SessionInitType, SessionInitInv, BridgeInitInv, CsioInitInv DEF TerminalInit
<1> QED
  BY <1>1, <1>2, <1>3, <1>4, <1>5, <1>6, <1>7, <1>8 DEF TypedInv

LEMMA TypedStepInv == TypedInv /\ [TerminalNext]_terminalVars => TypedInv'
<1> SUFFICES ASSUME TypedInv, [TerminalNext]_terminalVars PROVE TypedInv'
  OBVIOUS
<1>1. active' = active
  BY DeviceStep
<1>2. RecordsInv'
  BY DeviceStep, MilestonesStepInv, NvramStepInv, MemoryStepInv, PeriphHealthStepInv DEF RecordsInv, TypedInv
<1>3. TpBackendInv'
  BY DeviceStep, CoreStepInv, AluStepInv, BackendStepInv, RingStepInv, JackStepInv DEF TpBackendInv, TypedInv
<1>4. PaymentInv'
  BY DeviceStep, CoinInvStep, SmartStepInv, CardStepInv, AlarmStepInv, CashboxStepInv DEF PaymentInv, TypedInv
<1>5. VoicesInv'
  BY DeviceStep, VoicewareStepInv, VoiceStepInv DEF VoicesInv, TypedInv
<1>6. PanelDevicesInv'
  BY DeviceStep, VfdStepInv, KeypadStepInv, PanelStepInv, SecurityStepInv DEF PanelDevicesInv, TypedInv
<1>7. PeripheralsInv'
  BY PeripheralsStepInv DEF TypedInv
<1>8. active' = "supervision" => SupervisionInv'
  BY DeviceStep, SupervisionStepInv DEF TypedInv
<1>9. active' = "line" => LineInv' /\ modem' \in Modem
  BY DeviceStep, LineStepInv, ModemType DEF TypedInv
<1>10. active' = "uart" => UartInv'
  BY DeviceStep, UartStepInv DEF TypedInv
<1>11. active' = "ncc_frame" => NccFrameTypeOK'
  BY DeviceStep, FrameTypeStep DEF TypedInv
<1>12. active' = "ncc_session" => SessionType' /\ SessionInv'
  BY DeviceStep, SessionStep DEF TypedInv
<1>13. active' = "bridge" => BridgeInv'
  BY DeviceStep, BridgeStepInv DEF TypedInv
<1>14. active' = "csio" => CsioInv'
  BY DeviceStep, CsioStepInv DEF TypedInv
<1>15. active' \in Devices
  BY <1>1 DEF TypedInv
<1> QED
  BY <1>2, <1>3, <1>4, <1>5, <1>6, <1>7, <1>8, <1>9, <1>10, <1>11, <1>12, <1>13, <1>14, <1>15
     DEF TypedInv

\* In every behaviour the device exercised keeps its type: no counter leaves its octet, no pointer
\* its ring and no queue its length, in any of the devices of the terminal.
THEOREM TerminalAlwaysTyped == TerminalSpec => []TerminalTypeOK
<1>1. TypedInv => TerminalTypeOK
  <2> SUFFICES ASSUME TypedInv PROVE TerminalTypeOK
    OBVIOUS
  <2>1. /\ active = "coin" => CoinTypeOK
        /\ active = "smartcard" => SmartTypeOK
        /\ active = "card" => CardTypeOK
    BY SmartInvImplies, CardInvImplies DEF TypedInv, PaymentInv, CoinInv
  <2>2. /\ active = "supervision" => SupervisionTypeOK
        /\ active = "line" => LineTypeOK
        /\ active = "uart" => UartTypeOK
    BY LineTyped DEF TypedInv, SupervisionInv, UartInv
  <2>3. /\ active = "ncc_frame" => NccFrameTypeOK
        /\ active = "ncc_session" => NccSessionTypeOK
        /\ active = "bridge" => HostBridgeTcpTypeOK
        /\ active = "csio" => CsioTypeOK
    BY BridgeInvImplies, CsioInvImplies DEF TypedInv, SessionType
  <2>4. /\ active = "phrase" => VoiceTypeOK
        /\ active = "voiceware" => VoicewareTypeOK
    BY VoiceInvImplies DEF TypedInv, VoicesInv, VoicewareInv
  <2>5. active = "vfd" => VfdTypeOK
    BY VfdInvImplies DEF TypedInv, PanelDevicesInv
  <2>6. active = "keypad" => KeypadTypeOK
    BY KeypadInvImplies DEF TypedInv, PanelDevicesInv
  <2>7. active = "panel" => PanelEventsTypeOK
    BY PanelInvImplies DEF TypedInv, PanelDevicesInv
  <2>8. active = "security" => SecurityTypeOK
    BY SecurityInvImplies DEF TypedInv, PanelDevicesInv
  <2>9. /\ active = "core" => CoreTypeOK
        /\ active = "alu" => AluTypeOK
        /\ active = "backend" => BackendTypeOK
    BY CoreInvImplies, AluInvImplies DEF TypedInv, TpBackendInv, BackendInv
  <2>10. /\ active = "milestones" => MilestonesTypeOK
         /\ active = "nvram" => NvramTypeOK
    BY MilestonesInvImplies, NvramInvImplies DEF TypedInv, RecordsInv
  <2>11. PeripheralsTypeOK /\ active \in Devices
    BY PeripheralsTyped DEF TypedInv
  <2> QED
    BY <2>1, <2>2, <2>3, <2>4, <2>5, <2>6, <2>7, <2>8, <2>9, <2>10, <2>11 DEF TerminalTypeOK
<1> QED
  BY <1>1, TypedInitInv, TypedStepInv, PTL DEF TerminalSpec
===============================================================================
