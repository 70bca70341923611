# CoinLine-emu in TLA+

CoinLine-emu is a MAME driver for a Millennium payphone terminal. A Z180 (the
*control processor*, CP) runs the terminal's firmware; the driver supplies the board
around it: the *telephony processor* (TP), which talks to the CP over a clocked serial
link, owns the keypad and the hook switch, and is watched by a supervision that raises
"telephony board not responding"; the EEPROM and the NVRAM; and the devices a patron and
the telephone network meet, from the coin validator to the NCC session over the modem.
This directory holds TLA+ models of that code, the TLC configurations that check them on
small instances, and TLAPS proofs of what matters most for every instance.

Paths below are relative to the repository's `src/mame/coinline/`; `state.cpp` stands
for `millennium_state.cpp`, and the prefix `millennium_` is left out of the others.

## Inventory

| Component | State it keeps | Operations | Interacts with |
|---|---|---|---|
| TP->CP byte link (`state.cpp`) | priority and normal queue, shift register, bit counter, RTS | queue an octet, clock a bit, reset | every producer of TP octets; the CP's SCLK |
| CP<->TP conversation, legacy backend | command parser, frame parser, boot flags, judgement of CP octets | reply to a command, count a download, watch frames | byte link, supervision, hook |
| Telephony supervision | boot evidence, contract, alarm, deadlines, graces | HOST_POLL, good report, PWR_FAIL edges | conversation, display, start-up scheduler |
| Front panel: keys | edges, owed releases, autorepeat hold, craft window | HOST_POLL | byte link (as events) |
| Front panel: hook | debounce counters, two hook states, abuse guard | HOST_POLL, key-matrix query | byte link, supervision of the line |
| Front panel: soft and edge keys, absorb policy | stable and last raw mask, illegal episode | HOST_POLL | byte link |
| PCD3349A backend, 8048 core, TP firmware | relays, tone, contract; stack, interrupt state, accumulator | CP octets, interrupts, main loop | byte link, front panel |
| Microwire EEPROM | command decoder, contents, write enable | chip select, clock edges, reset | CP through the parallel port; NVRAM |
| NVRAM | regions, checksum, saved image | mirrored writes, save, restore, envelope | EEPROM, file system |
| Coin validator | state, pulse train, escrow, jam and reject latches | insert, status read, control, protocol commands | CP through I/O ports |
| Card reader, smartcard | track bits, path sensors; ATR, FIFO, half a command | swipe, insert, reset, octets | CP through I/O ports |
| Modem, audio route | carrier, line state; call, mutes, gain, last trace strings | line events, commands, frame refresh | external UART, voice, hook |
| External UART | MCR, IER, MSR with its deltas | register reads and writes | terminal firmware, modem lines |
| NCC session | packet id, retries, state; the frame codec | send, receive, time-out | host over the modem line |
| Line supervision | carrier, reversal phase, latch, timer | status codes, carrier, ticks | audio route, supervision device |
| Host bridge | sockets, partial frame | listen, accept, send, receive with a deadline | host process |
| Keypad scan | strobes, observed scan | column writes, row reads | parallel port |
| Voiceware | bank, phrase buffer, reset, completion interrupt; decoder state | phrase writes, bank latches, reads, stream updates | audio route, INT0 |
| Display | cells, cursor, escape and parameter state, busy | data and command octets | CP, supervision (its text) |
| Security inputs | debounce | port reads | locks and doors |
| Boot milestones | which were reached, readiness | memory, display, link and timer events | everything, as an observer |
| Terminal peripherals | ring alerter, card alarm, data jack, parameter memory, cash box, health | calls of their models | the firmware's tasks |
| Audio synthesis, tracing, evidence, configuration, offline tools | | | not behavioural for our purposes |

`PROJECT.json` lists every component with its files and what is or is not modelled.

Everything runs on MAME's emulated time, on one host thread: concurrency here is the
order of *emulated* events. The CP clocks the link whenever it pleases; HOST_POLL comes
every 10 ms, the first time after 5; a user presses keys, inserts coins and withdraws cards; deadlines expire; the
line garbles and loses; PWR_FAIL and the watchdog reset the TP in the middle of anything.

What makes each part correct:

* **Byte link.** No octet is lost, duplicated or reordered within its class; priority
  octets go first; RTS says exactly whether the CP has something to fetch.
* **Conversation.** The CP finds the frame boundaries the TP meant; a download is
  counted in step and acknowledged once; a boot code waits at most once; boot completes.
* **Supervision.** Readiness rests on evidence; an alarm rests on three unanswered
  deadlines and resets the TP; no alarm once the contract is closed; boot completes and the
  link comes back after every reset.
* **Keys and hook.** One release for each press; autorepeat only for a key that is really
  held; CP, TP and switch agree in the end; the abuse guard only fires when earned.
* **EEPROM and NVRAM.** A command takes effect as a whole or not at all; nothing the chip
  holds is taken back by a reset that the NVRAM could have kept; the checksum is the image's.
* **Payment.** The firmware reads exactly the pulses, the track and the answers of what was
  put in, whatever jam, reset or withdrawal comes between.
* **Network.** A frame decodes to what was sent or not at all; an established session means
  that the data arrived; one disconnect is told for each call, for the right reason.
* **Voice, display, panel.** What plays, what shows and what is pressed is what the
  firmware asked for and what it is told.

## Modules

| Module | Models | Composition |
|---|---|---|
| `IpComm` | the TP->CP link as a value: queueing, priming, clocking (operators, no state) | used by the next three |
| `TwoClassFifo` | *abstract*: two FIFOs, the priority one first | |
| `IpCommLink` | the link as a component, one bit per step; implements `TwoClassFifo` | INSTANCE IpComm, TwoClassFifo |
| `WordStore` | *abstract*: atomic reads, writes and erases of words; resets; saved image | |
| `Eeprom`, `MCEeprom` | the serial EEPROM edge by edge, its NVRAM mirror, the image file; implements `WordStore` | INSTANCE WordStore; MC gives words and commands |
| `SerialLinks` | both bit-serial links of the board | EXTENDS IpCommLink, MCEeprom |
| `TelephonyLink` | the CP<->TP conversation octet by octet, with resets | INSTANCE IpComm |
| `TelephonyHealth` | enable ladder, boot contract, keepalive, watchdog, alarm, in seconds | |
| `DialKeys`, `MCDialKeys` | dial and repertory keys, craft window, autorepeat | MC gives keys and sequences |
| `HookSwitch` | debounce, bounce guard, abuse guard, stabilisation | |
| `FrontPanel` | both halves behind one HOST_POLL | EXTENDS MCDialKeys, HookSwitch |
| `CoinValidator` | pulse train, escrow, jam, reject, control, the counting firmware | |
| `CardReader` | swipe, bit stream, LRC, decoding of track 2 | |
| `SmartCard` | ATR, two-octet commands, insertion and removal, negotiation | |
| `Supervision` | disconnect supervision FSM with its timer | |
| `LineAudio` | modem and audio route with its trace | |
| `ExternalUart` | TL16C550 shadow: MCR loop-back, deltas, interrupt identification | |
| `NccFrame` | frame codec and CRC over a damaging line | |
| `NccSession` | session model, retries, a lossy line, a host | |
| `HostBridgeTcp` | length-prefixed frames over TCP streams | |
| `VoiceDecode` | the uPD7759 message decoder, command by command | |
| `Voiceware` | the voice device, its two ports, INT0 and the route | |
| `Vfd` | display octets, escapes, parameters, cursor, dots | |
| `KeypadScan` | column strobes and row reads | |
| `ReturnStack` | *abstract*: routines that end where they were called or interrupted, to any depth | |
| `Am8048` | interrupts, stack and sleep of the TP's core, which implements `ReturnStack`; decimal addition | INSTANCE ReturnStack |
| `TelephonyBackend` | the PCD3349A wrapper: relays, tone, contract, routing | |
| `CsioTransmit` | which CP octets the board accepts as sent | |
| `PanelEvents` | soft keys, edge keys, reversals, absorb policy | |
| `NvramImage` | regions, checksum, binary image and JSON envelope | |
| `BootMilestones` | the milestone ladder over resets | |
| `Peripherals` | ring alerter, card alarm, data jack, parameter memory, cash box, health | |
| `SecurityInputs` | debounce of locks and doors | |
| `Octets` | exclusive-or of two octets, by their bits | used by the codecs and the parameter memory |
| `Terminal`, `MCTerminal` | every module from `CoinValidator` down, one at a time behind one bus | EXTENDS all of them; MC gives coins, cards, scripts, frames, ROMs |
| `SerialLinksProofs`, `TelephonyLinkProofs`, `TelephonyHealthProofs`, `FrontPanelProofs` | theorems about the module they are named for and the modules it composes | EXTENDS it |
| `DeviceProofs`, `NetworkProofs` | theorems about the devices one by one; `NetworkProofs` has the NCC session and frames, the host bridge, the CSIO transmitter and the algebra of the CRC | EXTENDS the devices |
| `TerminalProofs` | the TP's core and decimal addition, the backend, milestones, NVRAM and peripherals; every device's invariant carried to `Terminal` | EXTENDS Terminal, DeviceProofs, NetworkProofs |
| `BoundedInduction` | induction up to a bound and iteration of a step, from the well-foundedness of the numbers | |

### The byte link

`state.cpp` 1991-2015, 3247-3268 and 3662-3688. A link is a record of the two queues, the
shift register, the bit counter and RTS. `Prime`
(`prime_ipcomm_rx_shift_from_queues`) fills an empty register from the priority queue first; `Clocked` is the SCLK
edge of `board_status_w`, which frees the register at the eighth bit, drops RTS and primes
again. `IpCommLink` lets any octet of a small set be queued in either class at any time,
clocks a bit, and resets as `machine_reset` does. Its refinement mapping takes the octet
in the register and the rest of the two queues to the abstract FIFOs; clocking seven of
eight edges is a stutter.

### The conversation

`TelephonyLink` works in octets: a CP transfer is eight clock edges, and each carries a CP
octet out and any waiting TP octet in (`CpOctet`). Every octet on the link has a `role`,
what the TP meant by it; the code has no such thing and the CP must infer it, which is what
`FramesIntact` is about. `CommandOctet`, `HeaderOctet`, `LengthOctet` and `PayloadOctet`
follow the early returns of `ipcomm_complete_csio_tx_byte` in order; `Reply` is its
catalogue. `RxByte` is the frame parser of `telephony_note_csio_rx_byte`, which feeds the
boot contract. `HostPoll` does the whole tick in the code's order. Time is abstracted to the set of
deadlines that are due, any set at any tick: more behaviours than the code has, which is
sound for safety. The CP is external: it starts talking when it has seen a boot code,
sends commands and downloads, and gives up a download when it resets the TP.

`CsioTransmit` looks at the same transfers from below: `qualify_cp_to_tp_csio_byte`
(`state.cpp` 1692-1776) must tell an octet the CP sent from what an idle transmitter leaves in the
register. `Accepted` is its chain of early returns; the CP's own view of where its frames
are is a history variable, and `OctetsJudged` says when the two may part.

### The supervision

`TelephonyHealth` models the deadlines themselves. One message stands for a report
(`TelephonyLink` shows frames arrive whole, with one exception recorded below). Tick is
one second; between two ticks HOST_POLL runs at least once. `HostPoll` is one operator
for the whole of lines 6157-6314, in order: enable ladder, boot code, keepalive, C4
deadline, graces, threshold, `csio_runtime_ok`, alarm and reset, retry. `Receive` is the CP
draining one report. The start-up scheduler (`rtos_startup_model.cpp`) enters through the
one signal the watchdog asks for, `InitDone`. `m_not_responding_display_seen` is
taken to be set when the display shows it; the code sets it only when the readiness
trace is being written (`BootMilestones` has that condition, as `DecisionTraced`).

### The front panel

`DialKeys` follows `tp_process_front_panel_events` for the keys that owe a release: edges
in mask order, `EmitKey` with the craft recogniser, the synthesised release after 3 s, the
suppression of held keys during a craft window, and autorepeat. `HookSwitch` follows the
hook half of the same function with `apply_hook_debounce` (`keypad_model.cpp`), the
key-matrix query that also samples the switch, and the CP's relay commands 0x3C and 0x3D
(`state.cpp` 4036-4045), which write the telephony side's hook state without a report to the
CP (`HookRelay`). So the CP knows of a hook state from two sources, the last report and its
own last command: the history variable `hookTold.known` has the later of the two, and
`TelAgrees` holds the telephony side to that, at once and, when the stabilisation is over, in
what queries and boot codes carry. In both halves, one HOST_POLL is one unit of time and
the user acts between polls. `PanelEvents` has what is left of the function: soft keys with their
25 ms debounce and the illegal chord, keys that report an edge only, line reversals, and
the policy that keeps reports from the CP.

### The EEPROM and its NVRAM

`Eeprom` has one action per case of `notify_port_b_clock` (`microwire_93c66.cpp`
123-250), on rising edges of SK while selected, and one for each way a command is cut short: chip
select falling (91-109), a machine reset, the end of a session. An address or word is a sequence
of bits; the opcode is START and the two bits after it, and of the eleven bits that follow
START the last is dropped, as the code's shift does. The write callback of `state.cpp`
1093-1099 is part of the action that runs it (`Mirrored`). `Synced` is
`sync_microwire_from_nvram`, which every reset ends with. `NewSession` is an exit, clean or not,
and the next start: `nvram_write`, then `nvram_read` with its check of the validity words.

The host is external: the terminal firmware, known here by the encoding in
`eprm_command.h`, the comments of the decoder and its test. It clocks out one
command after the other on one chip select or several, may drop chip select after
any edge, and samples DO before each edge of a read; like the firmware it may leave out the last.
In the mapping to `WordStore` a command is executed by the edge that completes it, and by
chip select falling when a read lacks only its last edge.

`NvramImage` has the image as the file system sees it: the regions and the sum over them,
and writes within bounds. A session starts from the binary image, where there is one: one of
another profile is refused after it was taken in, and one without the three validity words gives way
to the defaults (`nvram.cpp` 102-111). Otherwise it starts from the JSON envelope: one of the model's own, whose base64
codec is modelled by the octets it keeps, or one from elsewhere, which
`load_envelope_json` refuses before or after it takes its octets, or accepts with a note of a sum that does not
match (`StartFromOtherEnvelope`); or from the defaults.

### The devices

Each module's head says what it models and what is external. In short:

* `CoinValidator`: a coin is a train of pulses that the model lengthens lazily, at the status reads of
  the firmware; `Sampler` is the firmware counting them. `PulsesCounted` holds for a firmware that reads
  once a sample period, the constant `SamplePeriod`.
* `CardReader`, `SmartCard`: the firmware's dialogue is a history variable (`heard`, `dialogue`),
  and the property compares it with a reference (`DecodeTrack2` of the clean track, `CardAnswers`).
* `NccFrame` sends one frame over a line that may change an octet to any other, lose or repeat one, or cut the frame off;
  `Verdict` is `decode` with all its refusals. `NccSession` abstracts the frame to its
  kind and two-bit id, and adds the number of the data frame, which only the host and the
  property know.
* `Supervision`, `LineAudio`, `ExternalUart`: every call of the model in any order.
* `HostBridgeTcp`: two ends, a stream cut anywhere, a reader with a deadline.
* `VoiceDecode` decodes one whole message of `MCRom`, `Voiceware` plays phrases of which only the
  number of pieces is known.
* `Vfd` keeps one glyph column per cell, so that `DotsShowText` compares the dots with the text.
* `Am8048` executes any instruction that matters to control at any place; the returns owed
  (`coreFrames`) and how many of the oldest were overwritten (`coreSpoiled`) are history variables. They are
  what the mapping to `ReturnStack` shows of the stack; the pointer and the entries stay inside. An interrupt
  taken and the instruction that follows it are one `step()` of the code, so one step of either specification.
  The decimal addition (`alu`) is exact on eight bits.
* `TelephonyBackend` takes the program's output octets as arbitrary. Each joins one of the two queues of the link,
  the priority one from 0xC0 on (`QueueOf`, `state.cpp` 2372), and the octets of one may overtake those of the other.
  So `BackendSound` claims an order for each queue, and that the contract rests on evidence in the queues.
* `SecurityInputs` records each read of the lines with its time; gaps between reads go up to one cycle beyond the
  debounce, past which all are alike.
* `BootMilestones` logs each milestone as the code traces it. What was seen of the boot contract (`seen`) is
  apart from the frames that came whole (`error`, `status`): the default backend counts a frame as seen from its first octet.

They share no state but the bus, so `Terminal` runs one of them in each behaviour, chosen
at the start; `OthersStand` keeps the rest still. The product would say nothing more.

## Runs

| Run | Shows |
|---|---|
| `serial_links` | `FifoSpec`: the link implements the two FIFOs. `LinkInv`: RTS is up exactly while a byte waits, and none is stranded. `PriorityFirst`. `StoreSpec`: the EEPROM, its mirror and the image implement the word store. `InStep`: the decoder waits for START exactly while the host is between commands. `MirrorAgrees` |
| `link` | `FramesIntact`, `BootCodeOnce`, `DownloadInStep`, `DownloadAcked`; `NormalDrains` |
| `link_version` | violated: `FramesIntact` with the version query |
| `link_reset` | violated: `DownloadAckedAlways`, after a TP reset |
| `health` | `NoAlarmAfterContract`, `ContractEvidence`, `AlarmRaised`, with the durations of the code |
| `health_live` | `ContractCloses` and `LinkStaysUp` under the policy that withholds error reports until an alarm |
| `health_third` | violated: `ThirdMissLatches` |
| `front_panel` | `PendingHeld`, `ReleasesMatch`, `ReleaseOnce`, `RepeatsNeedHold`, `ReleaseComes`; `TelAgrees`, `AbuseEarned`, `HookSettles` |
| `terminal` | `PaymentRead`, `FramesArrive`, `VoiceHeard`, `TpBackendRight`, `PanelHonest`, `RecordsHonest` (each a conjunction over several devices), `DisconnectEarned`, `RouteTold`, `DeltaOfOneWrite`, `EstablishedMeansArrived`; `ReturnsSpec`: the core implements `ReturnStack`. `TpBackendRight` says what the entries of the stack hold, `ReturnsSpec` that a return goes there and that the end of an interrupt, and nothing else, brings its bank back |
| `dial_keys_two` | violated: `ReleasesMatchRolled` |
| `hook_bounce` | violated: `HookSettles` with a switch that bounces |
| `nvram_envelope` | violated: `EnvelopeReloads`, when the size is not a multiple of three |

### Bounds, and why they are enough

* `serial_links`: two data values and four waiting bytes. Two values tell any two bytes of a
  class apart in order; four leave bytes in both queues behind the register. The
  real eight bits per octet are kept. For the EEPROM two address and two data bits (8 and 16 in
  the code). The four words are one that holds a validity mark, an ordinary one, one beyond
  the NVRAM, and the write-enable address. The values written differ in both bits, so that the
  bit order shows. Sessions, resets and commands are unlimited. The proofs lift all of it.
* `link`: two commands or downloads, one front-panel report and one PWR_FAIL pulse. One
  reply meeting another on the link needs two; every kind of reply is in `Commands` (hook and
  power queries, both reports, the key query, and a relay command, which has none), but for the version
  report, which is `link_version`'s. The line and handset queries (0x37, 0x3B) answer with one octet, like the power and key queries. A frame length of five
  (`CfgLen`, 126 in the code) gives every phase of a download: header, length, first,
  middle and last payload octet. Download data includes an octet that is also a command.
* `health`: the durations of the code in seconds. An alarm needs three missed deadlines while
  the init evidence is in and the contract is not: one status query and three error-report
  queries waiting at once, hence `MaxQueries = 4`, `MaxQueue = 3`; with less the alarm is
  unreachable and the run would show nothing. PWR_FAIL pulses are left to `health_live` and,
  for the safety properties, to the proofs: in this run they only quadruple the graph.
  `health_live` uses shorter durations in the same order, because liveness doubles the graph.
* `front_panel`: three keys, two down at a time, four presses. The craft sequence `<<k2, k2, k7>>`
  starts over within itself as "2727378" does, and k5 is outside it. The
  durations keep the order of the code: repeat before craft idle before synthesised release.
  Five moves of the hook, which with the handset off hook at the start are the six transitions the abuse guard
  fires on, by a user slower than the guard, and two relay commands: one that takes back
  another, or two about one move of the switch. `hook_bounce` drops that restriction (`Dwell = 0`).
* `terminal`: for each device the least that brings all of its control out. Denominations of
  one and of several pulses and one the validator refuses; a memory card, a locked one and a
  CPU card; a track with and one without sentinels; line scripts whole, cut, and with carrier
  that comes back; payloads made of framing octets; five data frames, so that a two-bit id
  comes round; a stream of three-octet frames (the length prefix is kept at four octets); a ROM with every
  kind of command, a message that runs out of its window and a bank without the magic; a
  display of two rows and two columns, which scrolls; a stack of two levels under three calls
  and interrupts, so that the oldest return is lost and the two above it are not; operands of the decimal addition on both sides of each carry; an NVRAM
  of 43 octets, so that the validity words fit and one octet is left over, where the firmware writes one octet
  of a validity word (`nvram_envelope` also writes the odd one); three answers of the backend, so that its contract can close.
* Every name beginning with `Max` bounds the environment (moves, presses, frames, ticks) and
  none of them the code.

### Fairness, and why the code justifies it

* HOST_POLL is a timer that reschedules itself every 10 ms, so polls and the passing of time
  are weakly fair; in `TelephonyLink`, so is a poll at which a standing deadline is due.
* `CpReceive` and the CP's draining of reports are weakly fair: the CP firmware services
  RTS in its main loop. It is external code, and this is the one assumption about it.
* A CP that has begun a download ends it (weak fairness of `CpContinueDownload`), unless it
  resets the TP.
* Queries, pulses, presses and moves are never fair: nobody has to do them. They are
  bounded, so that "eventually" is asked of what follows the last of them. Without the bound on
  queries `ContractCloses` fails: a CP that asked for nothing but error reports for ever
  would keep the keepalive, which waits for empty queues, from running.
* `Terminal` states no fairness: its devices answer calls and start nothing of their own.

`CHECK_DEADLOCK FALSE` stands where the bounded environment may come to rest.

## What is proved

For every value of the constants (under the named assumptions of the modules):

* `SerialLinksProofs!LinkTypeCorrect`, `RtsCorrect`, `ImplementsFifo`, `PriorityCorrect`. The inductive
  invariant is the type, `LinkOK` (RTS exact, nothing stranded, counter at zero while the register is
  empty), and `ClassInv`: every byte sits in the queue of its own class. The last is
  what the mapping needs, since the abstract FIFOs are told apart by the class of a byte and
  the code by the queue it is in. Lemmas state what `Prime`, queueing and clocking do to the
  abstract FIFOs; `ImplementsFifo` is initial states and step simulation.
* `SerialLinksProofs!EepromTypeCorrect`, `StepCorrect`, `MirrorCorrect`, `ImplementsStore`. None of the
  properties is inductive. The strengthening, `Framed`, says that the decoder's phase is the
  host's position in its command: the shift register holds exactly the bits clocked since
  START, the accumulator those of the data, DO the bit of the word the host samples next, and the
  samples taken so far are the word's. `Samples` adds that only a read leaves any. The
  refinement has one lemma per action: every edge but a command's last is a stutter.
  `SerialTypeCorrect`, `SerialSafe`, `SerialPriority` and `SerialImplements` carry all of it to the
  composition of the two links.
* `TelephonyLinkProofs!LinkTypesCorrect`, `DownloadStaysInStep`, `OneBootCode`, `FramesStayIntact`,
  `FramesIntactUntilReset`, `DownloadIsAcked`: every safety property of `TelephonyLink`, for every length of the
  download. The first three rest on one inductive invariant: no queue holds a boot code (it is queued
  on an empty link only, so it is in the register or nowhere), and until a reset under way a CP that
  talks talks to an enabled TP whose parser is idle or at the CP's place in its download. Intact frames need what waits
  behind the register: every octet there can be marked with the number of octets of its frame that
  follow it, and the CP's parser holds the mark of the octet in the register. The normal
  queue holds single octets only, which is why the theorems assume that nobody asks for the version, the one frame queued there.
  `FramesStayIntact` assumes it also of the length and the data of a download, and that is not idle: a TP reset under
  way may leave its parser where it takes an octet of the next download for a command.
  `FramesIntactUntilReset` shows that only a reset does. `DownloadIsAcked` counts 0x74 on the
  link: priming moves octets and queueing adds what is queued.
* `TelephonyHealthProofs!TypeCorrect`, `HealthCorrect`, `ContractKeepsEvidence`, `MissesCounted`,
  `AlarmJustified`. `HealthCorrect` has `NoAlarmAfterContract` with `AlarmExclusive` (the
  two alarm flags never both stand). One inductive invariant: readiness implies the
  three pieces of evidence, evidence is never taken back, and the misses counted never exceed
  those that happened. `AlarmJustified` is an action property: only three missed deadlines latch the
  alarm, and doing so resets the TP.
* `FrontPanelProofs!PanelTypeCorrect`, `PanelPendingHeld`, `PanelReleasesMatch`, `PanelReleaseOnce`,
  `PanelRepeatsNeedHold`. A poll passes over the keys one by one, so what it does is proved by induction over
  the keys already passed. `KeysInv` adds to the properties that with one key at a time the CP has been told of
  exactly the presses whose release is owed, and that, as long as no craft window has been open, a hold
  is no older than its key has been down.
* `FrontPanelProofs!HookTypeCorrect`, `HookAgrees`, `HookAbuseEarned`, and `PanelHookCorrect` for the composition.
  `TelAgrees` is inductive with the type: both writers of the telephony side's state go through `SetTelHook`, which
  leaves alone only a state already believed (`SetTelHookTakes`), and a poll that ends the stabilisation makes it believed
  (`TelAgreesPoll`). The
  abuse guard's invariant adds to the transitions counted those still on their way from the switch through the
  sampler: their sum never exceeds the moves of the user by more than one, the handset found off hook at the start.
* `DeviceProofs`: one theorem per device, each with its type.
  `UartCorrect`, `RouteCorrect`, `SupervisionCorrect`: the invariants add the registers the property does not
  name (the shadow behind the deltas, the strings behind the trace, the order of the calls heard behind the phases
  of the machine). `CoinCorrect`: the k-th sample of a train is taken a fixed time after its start, k sample
  periods later, so that pulse and gap can be read off the number of samples. `CardCorrect`: the bits heard are
  the cells gone by. `SmartcardCorrect`: what was read and what is in the FIFO make up the answers due to the
  commands taken. `VoicewareCorrect`. `PhraseCorrect`: the decoder is at the n-th command when n blocks are made, and the
  starts of the commands climb, so that a loop over them ends; banks are told apart by counting.
  `DisplayCorrect`: the dots are those rebuilt from the cells, marks and glyphs, with
  the parameters an escape still waits for. `KeypadCorrect`. `SoftKeysCorrect`: while a change waits, the wait and
  the polls that read the same add up to the debounce, and a key is reported only since it is down.
  `SecurityCorrect`: the debounce's clock is never behind the stretch of equal reads that ends now, and no further
  ahead of it except over lines open since the reset.
* `NetworkProofs!SessionTypeCorrect`, `SessionCorrect`. That an established session means that the
  data arrived rests on what may be on the line at all. The argument is stop-and-wait's on a line
  that keeps order: every frame carries the id of its number, every acknowledgement under way is of a
  frame that arrived, and between a clear and the host's first frame of its own nothing older than
  the frame before the last is under way, oldest first (`OrderOk`). So an acknowledgement
  with the two-bit id of the last frame is that frame's, although the ids come round every four.
* `NetworkProofs!FrameCorrect`, `FrameTypeCorrect`: the NCC decoder gives back what `encode` was given, and refuses
  the frame with any one octet changed, lost or doubled, or cut off. The length checks settle a cut. For the rest the CRC is
  taken back through its table: a shift can be undone since the bit that went out shows in the top bit, so the
  rows of the table differ, and differ in their high octets, since a step by two octets that differ cannot agree. The CRC step is
  therefore one-to-one in the register and in the octet, and two sequences with a common end and the same CRC have
  the same CRC before it. A loss or a doubling behind the count leaves a length the count does not state. One before it
  shifts the few octets up to the count and leaves the end as it was, so that equal CRCs would mean equal CRCs of those
  few; that is possible in one case only, when the count itself is lost behind a certain control octet (below).
  Hence the hypothesis: no frame has the control octet 171 (0xAB). The flags of the header
  (`modem_ncc.h` 27-31) end at 0x20, so the protocol never makes one.
* `NetworkProofs!BridgeCorrect`: what a reader holds and what is on its stream are together the frames
  not yet taken, wherever the stream is cut. `CsioCorrect`: the two parsers of a CP octet are both outside a
  frame, both at its length, or both inside it with the mark of its header.
* `TerminalProofs!PaymentAlwaysRead`, `FramesAlwaysArrive`, `VoiceAlwaysHeard`, `TpBackendAlwaysRight`,
  `PanelAlwaysHonest`, `RecordsAlwaysHonest`, `TerminalAlwaysTyped`: the invariants of the `terminal` run, for every
  value of its constants. `DeviceStep` says that a step of the terminal is a step of the device exercised or
  leaves it alone, and each theorem puts one device's invariant under its guard. The devices without a
  theorem of their own are proved here: decimal addition from the carries of the two nibbles, the returns of the
  8048 with its pointer modulo the depth of the stack, the backend's queues (what a list of answers adds to a queue is a fold, and the
  fold of two lists is that of the first and then that of the second: `ForQueueJoined`), the order of the milestones, the NVRAM's sum as a fold kept
  by every write and recomputed by every recovery, the checksum of the parameter memory (an exclusive-or with one octet changed is changed), alarm, cash box,
  ring, jack and health. `TerminalAlwaysTyped` takes the six peripherals together, since their types are stated
  together, and needs that the last event of a line script exists: the largest of a set of numbers, `LargestIn`.

* `TerminalProofs!RoutinesReturn`: the terminal implements `ReturnStack`. The inductive invariant has the pointer, which is the number
  of returns owed modulo the depth, and the entry of every return not overwritten. The lemmas follow a step through its
  parts: fetching, being interrupted (`InterruptedPlace`), pushing and popping (`PushedPlace`, `PoppedPlace`) keep the pointer and
  the entries of the returns still owed, and a push overwrites one only under `StackDepth` newer ones (`OwesLess`). So
  an instruction, a call and a return, each with or without an interrupt before it, are `Runs`, `Calls` and
  `Returns`, a reset is `Restarts`, and a step of another device or of a sleeping core is a stutter. In `ReturnAsReturns` the entry
  popped is the one of the newest return, since a return that is not lost is not overwritten.

Folds and recursive functions are met by `BoundedInduction`: the least element of a set of numbers (from the
library's theorem that `<` is well-founded) gives induction over a set instead of a formula, which the provers can
instantiate. So every invariant and every action property that a passing run checks is proved.

Only model-checked: liveness (`NormalDrains`, `ContractCloses`, `LinkStaysUp`, `ReleaseComes`, `HookSettles`, and of
`FifoSpec` its fairness), which the prover does not reach; and the properties of the violation runs, which do not hold.

## Where the code and the repository's statements disagree

Shown by a violation run:

* the 0xC2 version report goes to the normal queue octet by octet, and a priority reply
  may land inside it (`link_version`);
* a TP reset leaves the command parser in the middle of the old download (`link_reset`);
* after boot, a third miss raises no alarm, and a test of a copy of the watchdog says it must
  (`health_third`);
* two keys held past the synthesised release get one release between them
  (`dial_keys_two`);
* a hook transition inside the bounce guard is dropped and never reported (`hook_bounce`);
* the base64 decoder drops the padded last group, so an NVRAM envelope whose size is not a
  multiple of three reloads without its last octets (`nvram_envelope`).

Met while modelling, without a run of their own:

* readiness is inferred from reports alone, so it may precede the hook and power statuses;
* the 500 ms fallback enables the link while PWR_FAIL is still low;
* a TP reset and enabled again while the CP is in a download takes its data for commands: 0x34 among
  them queues a version report, and the next reply can land inside it (with 0x34 in `CfgData`
  and three commands TLC finds it; without a reset `FramesIntactUntilReset` excludes it);
* with keys rolled over each other a synthesised release may be followed by a real one;
* an autorepeat hold survives a craft window, after which a fresh press repeats at once;
* the EEPROM's write disable and erase-all are recognised by command bodies below 0x400, and a
  body on the wire always has its START bit at 0x400: once enabled, writes stay enabled until
  a reset, and the array cannot be erased. `Eeprom` therefore has no action for them;
* a word of the EEPROM beyond a small configured NVRAM is lost at every reset, since the callback
  ignores the refusal of `write_nvram` (the constant `Backed`; the factory profile backs all words);
* an image saved while one of the three validity words is erased is replaced as a whole at the
  next start (`Trusted`);
* the abuse guard reports a line interruption (0x64) and nothing takes it back;
* after a relay command (0x3C, 0x3D) hook queries and boot codes carry what the CP ordered, wherever the handset is,
  until the switch's next transition is reported (why `TelAgrees` compares with `hookTold.known` and not with the last report);
* two answers of the default backend may reach the CP in another order than the program wrote them, if only the later is 0xC0 or above;
* the default backend closes the boot contract on the first octet of a C4 and a C0 frame, whole or not (`state.cpp` 2381-2384);
* the board clears the voice completion interrupt when bit 3 of the control port is low
  (`state.cpp` 3330), and the voice device takes bit 3 high for its reset (`voiceware.cpp` 716);
* a header equal to the octet accepted before it, or one with too few clock edges, is refused
  by `qualify_cp_to_tp_csio_byte`, and the board then takes the payload for commands;
* a card withdrawn between the two octets of a command leaves the slot expecting the second;
* a soft key pressed while an illegal chord stands is never reported;
* an acknowledgement the terminal sends settles its own session, whatever it was waiting for
  (`sender.crossed` records it);
* the NCC decoder refuses a frame with any one octet lost, but for one: a frame with control 171, 162 octets of
  payload and a terminal id that begins with 169 still passes `decode` without its count octet, as another
  frame. No header the protocol makes has that control octet (found in the proof of `FrameCorrect`);
* after `RET` in an interrupt routine the core stays in its interrupt state and takes no
  other (`am8048_core.cpp` 202); the program uses `RETR`.

`ReleasesMatch`, `ReleaseOnce`, `RepeatsNeedHold`, `AnswersInOrder`, `FramesTakenWhole` and
`EstablishedMeansArrived` are therefore stated up to such an event, which a history variable
records.

## Not modelled, and why

See the notes in `PROJECT.json`. In short: audio synthesis, Z180 register arithmetic, tracing and evidence
files, address decoding and the offline tools have no control state worth a model; configuration
parsing enters as CONSTANTS.

The TP firmware program is not modelled. Its ROM is assembled from
`tools/tp8048/src/telephony_subprocessor.asm` with segments that overlap: from `ORG 0300H` on,
the code overwrites the tail of the download handlers, the jump to the runtime commands and the
key and hook scans before it. The status note in the docs calls the assembler's warnings packaging hygiene. What
runs is then neither what the source says nor what anybody intends, and a model of either would
mislead. Reading it gave the hazards that `PROJECT.json` lists without a property: the two interrupt
routines share registers with the main loop, the external interrupt is held longer than its
routine runs, `START` sets the bit that says the boot acknowledgement was sent, and the rings
have no room checks. `Am8048` models the core those hazards rest on, and `TelephonyBackend` the
wrapper, for whatever the program emits.

Left out of modelled devices: the core's `MOV PSW,A` (`am8048_core.cpp` 220), which would set the stack pointer to
any value and which the source of the program does not contain, so that `ReturnsSpec` is a statement about programs
without it; of the display, the blink speed of the cursor and the decimal point, whose dots
`DotsShowText` therefore does not count.

Below the granularity of `TelephonyLink` is a TP octet primed in the middle of a
CP transfer, which loses its first bits. `m_not_responding_display_seen` is set there
by what the display shows.

## Plan

1. *(done)* byte link, conversation, supervision, keys, hook, EEPROM with its NVRAM; the devices of the
   terminal; proofs of every safety property that holds.
2. When the ROM of the TP is assembled from segments that do not overlap: its main loop, its rings and its two
   interrupt routines on `Am8048`. The first questions are whether a CP octet is processed once
   and whether a reply is ever sent that nobody asked for.
3. When the version report is queued as a whole: `FramesStayIntact` and `FramesIntactUntilReset` without their assumption
   about the version query. As the code stands it cannot be dropped, which is what `link_version` shows.
