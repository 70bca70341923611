------------------------------- MODULE Terminal -------------------------------
(***************************************************************************)
(* The devices of the terminal that meet only in the firmware, behind one  *)
(* bus.  A behaviour exercises one of them, chosen at the start, with      *)
(* everything the firmware, the patron, the line or the host may do to it; *)
(* devices that do interact are composed in their own modules (LineAudio,  *)
(* Voiceware, TelephonyBackend, NccSession, HostBridgeTcp).                *)
(***************************************************************************)
EXTENDS CoinValidator, SmartCard, CardReader, Supervision, LineAudio, ExternalUart,
        NccFrame, NccSession, HostBridgeTcp, VoiceDecode, Voiceware, Vfd, KeypadScan, Am8048,
        TelephonyBackend, BootMilestones, NvramImage, PanelEvents, Peripherals, CsioTransmit,
        SecurityInputs

VARIABLE active     \* the device this behaviour exercises

Devices == {"coin", "smartcard", "card", "supervision", "line", "uart", "ncc_frame",
            "ncc_session", "bridge", "phrase", "voiceware", "vfd", "keypad", "core", "alu",
            "backend", "milestones", "nvram", "panel", "ring", "alarm", "jack", "memory",
            "cashbox", "health", "csio", "security"}

\* A device that is not exercised stands still.
OthersStand ==
    /\ UNCHANGED active
    /\ active # "coin" => UNCHANGED coinVars
    /\ active # "smartcard" => UNCHANGED smartVars
    /\ active # "card" => UNCHANGED cardVars
    /\ active # "supervision" => UNCHANGED supervisionVars
    /\ active # "line" => UNCHANGED lineVars
    /\ active # "uart" => UNCHANGED uartVars
    /\ active # "ncc_frame" => UNCHANGED nccVars
    /\ active # "ncc_session" => UNCHANGED sessionVars
    /\ active # "bridge" => UNCHANGED bridgeVars
    /\ active # "phrase" => UNCHANGED voiceVars
    /\ active # "voiceware" => UNCHANGED voicewareVars
    /\ active # "vfd" => UNCHANGED vfdVars
    /\ active # "keypad" => UNCHANGED keypadVars
    /\ active # "core" => UNCHANGED coreVars
    /\ active # "alu" => UNCHANGED aluVars
    /\ active # "backend" => UNCHANGED backendVars
    /\ active # "milestones" => UNCHANGED bootVars
    /\ active # "nvram" => UNCHANGED nvVars
    /\ active # "panel" => UNCHANGED panelEventVars
    /\ active # "ring" => UNCHANGED ring
    /\ active # "alarm" => UNCHANGED alarm
    /\ active # "jack" => UNCHANGED jack
    /\ active # "memory" => UNCHANGED memory
    /\ active # "cashbox" => UNCHANGED cashbox
    /\ active # "health" => UNCHANGED health
    /\ active # "csio" => UNCHANGED csioVars
    /\ active # "security" => UNCHANGED securityVars

terminalVars ==
    <<active, coinVars, smartVars, cardVars, supervisionVars, lineVars, uartVars, nccVars,
      sessionVars, bridgeVars, voiceVars, voicewareVars, vfdVars, keypadVars, coreVars, aluVars,
      backendVars, bootVars, nvVars, panelEventVars, peripheralVars, csioVars, securityVars>>

\* Where a device has several initial states, all but one are left to its own behaviours.
TerminalInit ==
    /\ active \in Devices
    /\ CoinInit /\ CardInit /\ SupervisionInit /\ LineInit /\ UartInit /\ NccSessionInit
    /\ HostBridgeTcpInit /\ VfdInit /\ KeypadInit /\ CoreInit /\ BackendInit /\ MilestonesInit
    /\ NvramInit
    /\ SmartInit /\ (active # "smartcard" => slot.fixture = CHOOSE f \in CardFixtures : TRUE)
    /\ NccFrameInit /\ (active # "ncc_frame" => sentFrame = CHOOSE f \in Frames : TRUE)
    /\ VoiceInit /\ (active # "phrase" => <<voice.mode, voice.bank, voice.phrase>> = <<"spec", 1, 0>>)
    /\ VoicewareInit /\ (active # "voiceware" => policy.core /\ policy.allow /\ policy.fallback)
    /\ PanelEventsInit /\ (active # "panel" => panel.raw = {} /\ uiPolicy = CHOOSE p \in Policies : TRUE)
    /\ PeripheralsInit /\ CsioInit /\ SecurityInit
    /\ AluInit /\ (active # "alu" => alu.a = 0 /\ ~alu.carry)

TerminalNext ==
    \/ active = "coin" /\ CoinNext /\ OthersStand
    \/ active = "smartcard" /\ SmartNext /\ OthersStand
    \/ active = "card" /\ CardNext /\ OthersStand
    \/ active = "supervision" /\ SupervisionNext /\ OthersStand
    \/ active = "line" /\ LineNext /\ OthersStand
    \/ active = "uart" /\ UartNext /\ OthersStand
    \/ active = "ncc_frame" /\ NccFrameNext /\ OthersStand
    \/ active = "ncc_session" /\ NccSessionNext /\ OthersStand
    \/ active = "bridge" /\ HostBridgeTcpNext /\ OthersStand
    \/ active = "phrase" /\ VoiceNext /\ OthersStand
    \/ active = "voiceware" /\ VoicewareNext /\ OthersStand
    \/ active = "vfd" /\ VfdNext /\ OthersStand
    \/ active = "keypad" /\ KeypadNext /\ OthersStand
    \/ active = "core" /\ CoreNext /\ OthersStand
    \/ active = "alu" /\ AluNext /\ OthersStand
    \/ active = "backend" /\ BackendNext /\ OthersStand
    \/ active = "milestones" /\ MilestonesNext /\ OthersStand
    \/ active = "nvram" /\ NvramNext /\ OthersStand
    \/ active = "panel" /\ PanelEventsNext /\ OthersStand
    \/ active = "ring" /\ RingNext /\ OthersStand
    \/ active = "alarm" /\ AlarmNext /\ OthersStand
    \/ active = "jack" /\ JackNext /\ OthersStand
    \/ active = "memory" /\ MemoryNext /\ OthersStand
    \/ active = "cashbox" /\ CashboxNext /\ OthersStand
    \/ active = "health" /\ PeripheralsHealthNext /\ OthersStand
    \/ active = "csio" /\ CsioNext /\ OthersStand
    \/ active = "security" /\ SecurityNext /\ OthersStand

TerminalSpec == TerminalInit /\ [][TerminalNext]_terminalVars

-------------------------------------------------------------------------------
\* The device exercised keeps its type; the others keep the one they start with.
TerminalTypeOK ==
    /\ active \in Devices
    /\ active = "coin" => CoinTypeOK
    /\ active = "smartcard" => SmartTypeOK
    /\ active = "card" => CardTypeOK
    /\ active = "supervision" => SupervisionTypeOK
    /\ active = "line" => LineTypeOK
    /\ active = "uart" => UartTypeOK
    /\ active = "ncc_frame" => NccFrameTypeOK
    /\ active = "ncc_session" => NccSessionTypeOK
    /\ active = "bridge" => HostBridgeTcpTypeOK
    /\ active = "phrase" => VoiceTypeOK
    /\ active = "voiceware" => VoicewareTypeOK
    /\ active = "vfd" => VfdTypeOK
    /\ active = "keypad" => KeypadTypeOK
    /\ active = "core" => CoreTypeOK
    /\ active = "alu" => AluTypeOK
    /\ active = "backend" => BackendTypeOK
    /\ active = "milestones" => MilestonesTypeOK
    /\ active = "nvram" => NvramTypeOK
    /\ active = "panel" => PanelEventsTypeOK
    /\ active \in {"ring", "alarm", "jack", "memory", "cashbox", "health"} => PeripheralsTypeOK
    /\ active = "csio" => CsioTypeOK
    /\ active = "security" => SecurityTypeOK

\* What is put in is what the firmware reads: the pulses of a coin, the ATR and the answers of
\* a card, the track of a swipe, the alarm for a card left behind, the cash box's sequence.
PaymentRead ==
    /\ active = "coin" => PulsesCounted
    /\ active = "smartcard" => AnswersInOrder
    /\ active = "card" => SwipeReadWhole
    /\ active = "alarm" => CardAlarmTimely
    /\ active = "cashbox" => CollectionsCounted

\* What is sent is what arrives: frames through the NCC codec and its CRC, through TCP streams
\* cut anywhere, and octets through the board's judgement of the CSIO transmitter.
FramesArrive ==
    /\ active = "ncc_frame" => DecodeExact
    /\ active = "bridge" => FramesTakenWhole
    /\ active = "csio" => OctetsJudged

\* Voice: the decoder reads a message command by command, and the driver, the route and the
\* completion interrupt agree with what plays.
VoiceHeard ==
    /\ active = "phrase" => PhrasesReadInLine
    /\ active = "voiceware" => VoiceInStep

\* The TP's processor keeps its returns and its decimal sums, and the backend around it its
\* answers, its contract and its tone; calls are announced and data calls relayed in step.
TpBackendRight ==
    /\ active = "core" => ReturnsKept
    /\ active = "alu" => DecimalExact
    /\ active = "backend" => BackendSound
    /\ active = "ring" => RingAnnounced
    /\ active = "jack" => JackInStep

\* What the patron sees and presses is what the firmware means and reads: the dots on the
\* display, the rows of the keypad, the soft keys, and the locks and doors behind their debounce.
PanelHonest ==
    /\ active = "vfd" => DotsShowText
    /\ active = "keypad" => RowsSound
    /\ active = "panel" => SoftKeysHonest
    /\ active = "security" => LinesSettled

\* What the terminal keeps about itself is true: the milestones of its boot trace, the checksum
\* of its NVRAM and of its records, and the alarms of its peripherals.
RecordsHonest ==
    /\ active = "milestones" => LadderInOrder
    /\ active = "nvram" => SumHonest
    /\ active = "memory" => RecordsChecked
    /\ active = "health" => AlarmsEarned
===============================================================================
