----------------------------- MODULE Peripherals -----------------------------
(***************************************************************************)
(* Six small machines of the terminal's periphery: the ring alerter, the   *)
(* alarm for a card left behind, the relays of the data jack, the records  *)
(* of the parameter memory, the cash box and the health of the             *)
(* peripherals.  They share nothing; each has its own variable and its own *)
(* next-state action.                                                      *)
(***************************************************************************)
EXTENDS Octets, FiniteSets

CONSTANTS
    DisableReasons,    \* why the ring may be disabled
    AlarmTimings,      \* what the alarm may be started with
    MemoryOctets,      \* values of an octet of the parameter memory
    MemorySize,        \* octets of the parameter memory
    PayloadSize,       \* octets of a record before its checksum
    Boxes,             \* cash boxes
    MaxPulses, MaxCommits, MaxSamples   \* bounds: rings, commits, samples in a row

ASSUME PeripheralsAssumption ==
    /\ AlarmTimings \subseteq [delay : Nat, on : Nat, off : Nat, total : Nat]
    /\ MemoryOctets \subseteq 0..255 /\ 0 \in MemoryOctets
    /\ MemorySize \in Nat /\ PayloadSize \in Nat \ {0} /\ PayloadSize < MemorySize
    /\ "none" \notin Boxes
    /\ MaxPulses \in Nat /\ MaxCommits \in Nat /\ MaxSamples \in Nat /\ MaxSamples > 2

VARIABLES ring, alarm, jack, memory, cashbox, health
peripheralVars == <<ring, alarm, jack, memory, cashbox, health>>

Capped(n) == IF n < MaxSamples THEN n + 1 ELSE n

-------------------------------------------------------------------------------
\* Ring alerter.

RingInit == ring = [disabled |-> {}, ringing |-> FALSE, incoming |-> FALSE,
                    abandoned |-> FALSE, pulses |-> 0]
Disable == \E r \in DisableReasons : ring' = [ring EXCEPT !.disabled = @ \cup {r}]
Enable == \E r \in DisableReasons : ring' = [ring EXCEPT !.disabled = @ \ {r}]
RingOn ==
    /\ ring.pulses < MaxPulses
    /\ ring' = [ring EXCEPT !.ringing = TRUE, !.pulses = @ + 1,
                            !.incoming = @ \/ ring.disabled = {}]
\* Abandoned by the caller, or timed out.
RingEnds == ring' = [ring EXCEPT !.ringing = FALSE,
                                 !.abandoned = @ \/ (ring.ringing /\ ring.disabled = {})]
ClearEvents == ring' = [ring EXCEPT !.incoming = FALSE, !.abandoned = FALSE, !.pulses = 0]
RingNext == Disable \/ Enable \/ RingOn \/ RingEnds \/ ClearEvents

-------------------------------------------------------------------------------
\* Forgotten card: a delay, then a tone with a cadence until the card is taken or time is up.
\* since is a history: the ticks since the alarm was started.

AlarmIdle == [phase |-> "off", tone |-> FALSE, relay |-> FALSE, t |-> 0, cadence |-> 0,
              timing |-> [delay |-> 0, on |-> 0, off |-> 0, total |-> 0], since |-> 0]
AlarmInit == alarm = AlarmIdle
StartAlarm == \E timing \in AlarmTimings :
    alarm' = [AlarmIdle EXCEPT !.phase = "armed", !.timing = timing]
Cancelled(a) == [a EXCEPT !.phase = "off", !.tone = FALSE, !.relay = FALSE]
CancelAlarm == alarm' = Cancelled(alarm)

Armed(a) ==
    IF a.t + 1 < a.timing.delay THEN [a EXCEPT !.t = @ + 1]
    ELSE [a EXCEPT !.phase = "active", !.tone = TRUE, !.relay = TRUE, !.t = 0, !.cadence = 0]
\* The other half of the cadence once this one is through.
Cadence(a) ==
    IF a.cadence + 1 >= (IF a.tone THEN a.timing.on ELSE a.timing.off)
    THEN [a EXCEPT !.tone = ~@, !.cadence = 0]
    ELSE [a EXCEPT !.cadence = @ + 1]
Sounding(a) ==
    LET b == [a EXCEPT !.t = @ + 1]
    IN IF a.timing.total # 0 /\ b.t >= a.timing.total THEN Cancelled(b) ELSE Cadence(b)
Tick ==
    /\ alarm.phase # "off" /\ alarm.t < MaxSamples
    /\ LET a == [alarm EXCEPT !.since = @ + 1]
       IN alarm' = IF a.phase = "armed" THEN Armed(a) ELSE Sounding(a)
AlarmNext == StartAlarm \/ CancelAlarm \/ Tick

-------------------------------------------------------------------------------
\* Data jack: the relays of a data call dialled on the keypad.

JackStates == {"idle", "connecting_sink", "dialing_completed", "disconnecting_sink",
               "data_active", "disconnect_delay"}
JackIdle == [state |-> "idle", control |-> FALSE, established |-> FALSE, session |-> FALSE,
             pending |-> FALSE]
JackInit == jack = JackIdle
DigitSignal == /\ jack.state = "idle"
               /\ jack' = [JackIdle EXCEPT !.state = "connecting_sink", !.control = TRUE]
RelaySequenceComplete ==
    \/ /\ jack.state = "connecting_sink"
       /\ jack' = [jack EXCEPT !.state = "dialing_completed"]
    \/ /\ jack.state = "disconnecting_sink"
       /\ jack' = [JackIdle EXCEPT !.established = TRUE]
DialingComplete == /\ jack.state = "dialing_completed"
                   /\ jack' = [jack EXCEPT !.state = "data_active"]
LaptopDrop == jack' = JackIdle
SessionEstablished == /\ jack.state = "data_active"
                      /\ jack' = [jack EXCEPT !.session = TRUE]
DelayExpired ==
    \/ /\ jack.state = "data_active"
       /\ jack' = [jack EXCEPT !.state = "disconnect_delay", !.pending = TRUE]
    \/ /\ jack.state = "disconnect_delay"
       /\ jack' = [jack EXCEPT !.state = "disconnecting_sink"]
JackNext == \/ DigitSignal \/ RelaySequenceComplete \/ DialingComplete \/ LaptopDrop
            \/ SessionEstablished \/ DelayExpired

-------------------------------------------------------------------------------
\* Parameter memory: records with an exclusive-or checksum.  wrote is a history: the payload
\* last written at each offset.

Offsets == 0..(MemorySize - 1)
Payloads == [1..PayloadSize -> MemoryOctets]
NoPayload == [i \in 1..PayloadSize |-> 256]
MemoryInit == memory = [octets |-> [o \in Offsets |-> 0], wrote |-> [o \in Offsets |-> NoPayload]]
Checksum(p) == LET x[i \in 0..PayloadSize] == IF i = 0 THEN 0 ELSE XorByte(x[i - 1], p[i])
               IN x[PayloadSize]
Framed(p) == [i \in 1..(PayloadSize + 1) |-> IF i > PayloadSize THEN Checksum(p) ELSE p[i]]
RecordFits(offset, size) == offset <= MemorySize /\ size <= MemorySize - offset

WriteRecord == \E offset \in Offsets, p \in Payloads :
    /\ RecordFits(offset, PayloadSize + 1)
    /\ memory' = [octets |-> [o \in Offsets |-> IF o \in offset..(offset + PayloadSize)
                                                THEN Framed(p)[o - offset + 1] ELSE memory.octets[o]],
                  wrote |-> [memory.wrote EXCEPT ![offset] = p]]
WriteOctet == \E offset \in Offsets, b \in MemoryOctets :
    memory' = [memory EXCEPT !.octets[offset] = b]
MemoryNext == WriteRecord \/ WriteOctet

\* What a record reads as: NoPayload when its checksum is wrong or it does not fit.
ReadRecord(offset) ==
    IF ~RecordFits(offset, PayloadSize + 1) THEN NoPayload
    ELSE LET p == [i \in 1..PayloadSize |-> memory.octets[offset + i - 1]]
         IN IF Checksum(p) = memory.octets[offset + PayloadSize] THEN p ELSE NoPayload

-------------------------------------------------------------------------------
\* Cash box: the record of a collection.  counted is a history: the records of the box in place.

NoBox == "none"
CashboxInit == cashbox = [box |-> NoBox, seq |-> 0, status |-> {}, counted |-> 0]
CommitRecord == \E box \in Boxes, upload \in BOOLEAN :
    LET fresh == cashbox.box # box
        seq   == IF fresh THEN 1 ELSE cashbox.seq + 1
    IN /\ seq <= MaxCommits
       /\ cashbox' = [box |-> box, seq |-> seq,
                      status |-> {"new_status"} \cup (IF fresh THEN {"new_box"} ELSE {})
                                 \cup (IF upload THEN {"log_request"} ELSE {}),
                      counted |-> IF box = cashbox.box THEN cashbox.counted + 1 ELSE 1]
CashboxNext == CommitRecord

-------------------------------------------------------------------------------
\* Health: misses of the telephony board, faults of the coin and card hardware, and who owns
\* the shared hardware.  evidence is a history: the blocked samples since the card reader was
\* last known to be clear.

Owners == {"none", "coin", "card", "data_jack", "supervision"}
Healthy == [misses |-> 0, telAlarm |-> FALSE, faults |-> 0, recovers |-> 0, coinAlarm |-> FALSE,
            blocked |-> 0, clears |-> 0, cardAlarm |-> FALSE, owner |-> "none", evidence |-> 0]
PeripheralsHealthInit == health = Healthy

TelephonyAlive == \E ok \in BOOLEAN :
    health' = IF ok THEN [health EXCEPT !.misses = 0, !.telAlarm = FALSE]
              ELSE [health EXCEPT !.misses = Capped(@), !.telAlarm = @ \/ health.misses + 1 >= 3]
CoinAlive == \E ok \in BOOLEAN : health' = [health EXCEPT !.coinAlarm = ~ok]
CoinSample == \E fault \in BOOLEAN :
    health' = IF fault
              THEN [health EXCEPT !.faults = Capped(@), !.recovers = 0,
                                  !.coinAlarm = @ \/ health.faults + 1 >= 2]
              ELSE [health EXCEPT !.faults = 0, !.recovers = Capped(@),
                                  !.coinAlarm = @ /\ health.recovers + 1 < 2]
Blocked(h) == [h EXCEPT !.blocked = Capped(@), !.cardAlarm = @ \/ h.blocked + 1 >= 3,
                        !.evidence = Capped(@)]
\* A slip: the clear samples count as before, and the blocked ones are kept.
UnblockedAlarmOnly(h) == [h EXCEPT !.cardAlarm = FALSE, !.evidence = 0]

Unblocked(h) == [h EXCEPT !.blocked = 0, !.cardAlarm = FALSE, !.evidence = 0]
CardSensor == \E idle \in BOOLEAN :
    health' = IF idle THEN Unblocked(health) ELSE Blocked(health)
CardSample == \E blocked \in BOOLEAN :
    health' = IF blocked THEN [Blocked(health) EXCEPT !.clears = 0]
              ELSE LET h == [health EXCEPT !.clears = Capped(@)]
                   IN IF h.clears >= 2 THEN Unblocked(h) ELSE h

RequestOwner == \E o \in Owners : /\ health.owner = "none"
                                  /\ health' = [health EXCEPT !.owner = o]
ForceSupervision == health' = [health EXCEPT !.owner = "supervision"]
ReleaseOwner == \E o \in Owners : /\ health.owner = o
                                  /\ health' = [health EXCEPT !.owner = "none"]
PeripheralsHealthNext == \/ TelephonyAlive \/ CoinAlive \/ CoinSample \/ CardSensor \/ CardSample
                         \/ RequestOwner \/ ForceSupervision \/ ReleaseOwner

-------------------------------------------------------------------------------
PeripheralsInit == /\ RingInit /\ AlarmInit /\ JackInit /\ MemoryInit /\ CashboxInit
                   /\ PeripheralsHealthInit

PeripheralsTypeOK ==
    /\ ring \in [disabled : SUBSET DisableReasons, ringing : BOOLEAN, incoming : BOOLEAN,
                 abandoned : BOOLEAN, pulses : 0..MaxPulses]
    /\ alarm.phase \in {"off", "armed", "active"} /\ alarm.tone \in BOOLEAN
    /\ alarm.relay \in BOOLEAN /\ alarm.t \in Nat /\ alarm.cadence \in Nat
    /\ jack \in [state : JackStates, control : BOOLEAN, established : BOOLEAN,
                 session : BOOLEAN, pending : BOOLEAN]
    /\ memory.octets \in [Offsets -> 0..255]
    /\ cashbox.box \in Boxes \cup {NoBox} /\ cashbox.seq \in 0..MaxCommits
    /\ health.misses \in 0..MaxSamples /\ health.owner \in Owners

\* The alarm is silent until its delay is over and after its total; the tone and the relay are
\* never on without it.  Names forgotten_card_alarm_model.
CardAlarmTimely ==
    /\ alarm.phase # "active" => ~alarm.tone /\ ~alarm.relay
    /\ alarm.phase = "active" =>
         /\ alarm.relay /\ alarm.since >= alarm.timing.delay
         /\ alarm.timing.total # 0 =>
              alarm.since < alarm.timing.total + (IF alarm.timing.delay = 0 THEN 1
                                                  ELSE alarm.timing.delay)

\* A data session runs over relays that are connected, its disconnection is supervised until the
\* modem sink is off, and the relays are controlled exactly while a data call is under way: so a
\* dropped laptop, in any phase, leaves nothing on.  Names data_jack_model.
JackInStep ==
    /\ jack.control <=> jack.state # "idle"
    /\ jack.session => jack.state \in {"data_active", "disconnect_delay", "disconnecting_sink"}
    /\ jack.pending <=> jack.state \in {"disconnect_delay", "disconnecting_sink"}
    /\ jack.established => jack.state = "idle"

\* A call is announced only after a ring the patron may hear.  Names ring_alerter_model.
RingAnnounced == ring.incoming => ring.pulses > 0

\* However records and single octets overlap, a record that is whole reads as it was written,
\* and one of which a single octet has changed is never taken for a record.  Names
\* write_record_with_checksum and read_record_with_checksum.
SpoiltOctets(o) == {i \in 0..PayloadSize : memory.octets[o + i] # Framed(memory.wrote[o])[i + 1]}
RecordsChecked ==
    \A o \in Offsets : memory.wrote[o] # NoPayload =>
        /\ SpoiltOctets(o) = {} => ReadRecord(o) = memory.wrote[o]
        /\ Cardinality(SpoiltOctets(o)) = 1 => ReadRecord(o) = NoPayload

\* Sequence numbers count the collections of the box in place, and a box is announced once.
\* Names cashbox_collection_model::commit_record.
CollectionsCounted ==
    /\ cashbox.seq = cashbox.counted
    /\ cashbox.box # NoBox => ("new_box" \in cashbox.status <=> cashbox.seq = 1)

\* Two sources report on the card reader and share one count: the alarm stands exactly while
\* three reports say it is blocked since both were last satisfied.  Names
\* on_card_sensor_idle, on_card_blocked_sample and on_telephony_alive_result.
AlarmsEarned ==
    /\ health.telAlarm <=> health.misses >= 3
    /\ health.cardAlarm <=> health.evidence >= 3
    /\ health.faults = 0 \/ health.recovers = 0
===============================================================================
