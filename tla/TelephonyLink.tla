----------------------------- MODULE TelephonyLink -----------------------------
(***************************************************************************)
(* The byte-level conversation between the control processor (CP, the Z180 *)
(* firmware) and the host-modelled telephony processor (TP) of             *)
(* millennium_state.cpp, legacy catalog backend: the TP's command parser   *)
(* and its replies, the two-class byte link, the CSI/O frame parser that   *)
(* watches what the CP receives, the boot handshake, and the two ways the  *)
(* TP is reset under a running conversation.                               *)
(*                                                                         *)
(* Time is abstracted here: each HOST_POLL tick is told which deadlines    *)
(* are due.  TelephonyHealth models the deadlines themselves.              *)
(***************************************************************************)
EXTENDS Naturals, Sequences, FiniteSets

CONSTANTS
    CfgLen,         \* k_cfg_download_total_len (126 in the code)
    Commands,       \* the CP command octets exercised
    CfgData,        \* octets a configuration download may carry
    EmitC4,         \* tel_runtime_may_emit_c4() once the contract is satisfied
    MaxCommands,    \* bounds: CP commands and downloads, front-panel reports,
    MaxUi,          \*         PWR_FAIL pulses
    MaxPulses

ASSUME CfgLenAssumption == CfgLen \in 3 .. 126
ASSUME EmitC4Assumption == EmitC4 \in BOOLEAN
ASSUME OctetAssumption == /\ Commands \subseteq 0 .. 191
                          /\ CfgData \subseteq 0 .. 255
ASSUME BoundAssumption == MaxCommands \in Nat /\ MaxUi \in Nat /\ MaxPulses \in Nat

Octet == 0 .. 255
Role == {"single", "header", "length", "data", "check"}

\* An octet on the TP->CP link.  The role is what the TP meant by it; it is not in
\* the code, which is the point: the CP has to infer it.
Byte == [value : Octet, role : Role]
NoByte == [value |-> 0, role |-> "none"]

INSTANCE IpComm WITH OctetBits <- 8

HdrC0 == 192  \* 0xC0 status report
HdrC2 == 194  \* 0xC2 version report
HdrC4 == 196  \* 0xC4 error report
BootOn == 112   \* 0x70 boot code, on-hook
BootOff == 114  \* 0x72 boot code, off-hook

Single(v) == <<[value |-> v, role |-> "single"]>>

\* queue_raw_frame / queue_runtime_frame with an all-zero payload: header, length,
\* length - 3 payload octets, and the sum of what went before, modulo 256.
Frame(hdr, len) ==
    <<[value |-> hdr, role |-> "header"], [value |-> len, role |-> "length"]>>
        \o [i \in 1 .. len - 3 |-> [value |-> 0, role |-> "data"]]
        \o <<[value |-> (hdr + len) % 256, role |-> "check"]>>

ErrorReport == Frame(HdrC4, 4)
StatusReport == Frame(HdrC0, 8)
VersionReport == Frame(HdrC2, 14)

VARIABLES
    link,       \* TP->CP byte link
    csio,       \* the frame parser over received octets, and what it has established
    tx,         \* the TP's parser of CP octets
    enabled,    \* m_tel_ip_link_enabled
    bootSent,   \* m_tel_boot_code_sent
    hook,       \* m_tel_hook_onhook and m_tel_hook_onhook_stable
    cp,         \* CP firmware: started talking, its place in a download, and (history)
                \* whether the link has been up for all of that download
    wasReset,   \* history: the TP has been reset under way
    left        \* what remains of the bounds

vars == <<link, csio, tx, enabled, bootSent, hook, cp, wasReset, left>>

Evidence == {"ack", "hook", "power", "error", "status"}

Csio == [inFrame : BOOLEAN, code : Octet, len : Octet, sum : Octet, remaining : Octet,
         seen : SUBSET Evidence, contract : BOOLEAN, waitC4 : BOOLEAN]

Tx == [need : BOOLEAN, skip : 0 .. 124, hdr : Octet, declared : 0 .. 126]

IdleTx == [need |-> FALSE, skip |-> 0, hdr |-> 0, declared |-> 0]

\* Between downloads the CP has no frame open.
NoDownload == [len |-> 0, togo |-> 0, heard |-> TRUE]

\* machine_reset
Init ==
    /\ link = IdleLink
    /\ csio = [inFrame |-> FALSE, code |-> 0, len |-> 0, sum |-> 0, remaining |-> 0,
               seen |-> {}, contract |-> FALSE, waitC4 |-> FALSE]
    /\ tx = IdleTx
    /\ enabled = FALSE
    /\ bootSent = FALSE
    /\ hook = [now |-> TRUE, stable |-> TRUE]
    /\ cp = [up |-> FALSE, download |-> NoDownload]
    /\ wasReset = FALSE
    /\ left = [commands |-> MaxCommands, ui |-> MaxUi, pulses |-> MaxPulses]

-------------------------------------------------------------------------------
(***************************************************************************)
(* TP -> CP: telephony_note_csio_rx_byte                                   *)
(***************************************************************************)

\* note_boot_contract_progress
Progress(c) ==
    IF {"ack", "error", "status"} \subseteq c.seen THEN [c EXCEPT !.contract = TRUE] ELSE c

Saw(c, e) == Progress([c EXCEPT !.seen = @ \cup {e}])

SingleByte(c, v) ==
    CASE v \in {BootOn, BootOff} -> Saw(c, "ack")
      [] v \in {108, 110}        -> Saw(c, "hook")
      [] v \in {122, 124}        -> Saw(c, "power")
      [] OTHER                   -> Progress(c)

\* The checksum octet: a good C0 or C4 counts, anything else is dropped in silence.
FrameEnd(c, v) ==
    LET d == [c EXCEPT !.inFrame = FALSE, !.remaining = 0]
    IN  CASE c.sum = v /\ c.code = HdrC0 -> Saw(d, "status")
          [] c.sum = v /\ c.code = HdrC4 -> Saw([d EXCEPT !.waitC4 = FALSE], "error")
          [] OTHER                       -> d

\* on_var_len_byte
RxByte(c, v) ==
    IF ~c.inFrame
      THEN IF v >= HdrC0
             THEN [c EXCEPT !.inFrame = TRUE, !.code = v, !.sum = v, !.len = 0, !.remaining = 0]
             ELSE SingleByte(c, v)
    ELSE IF c.len = 0
      THEN IF v < 3
             THEN [c EXCEPT !.len = v, !.sum = (@ + v) % 256, !.inFrame = FALSE]
             ELSE [c EXCEPT !.len = v, !.sum = (@ + v) % 256, !.remaining = v - 2]
    ELSE IF c.remaining = 1 THEN FrameEnd(c, v)
    ELSE [c EXCEPT !.remaining = @ - 1, !.sum = (@ + v) % 256]

\* Eight SCLK rising edges, sent to clock an octet in or (the edges are the same)
\* to clock one out: a waiting TP octet is consumed either way.
CsioAfterClock == IF link.shift = NoByte THEN csio ELSE RxByte(csio, link.shift.value)
LinkAfterClock == IF link.shift = NoByte THEN link ELSE Shifted(link)

\* The CP firmware starts talking once it has a boot code from the TP.
CpUpAfterClock == cp.up \/ (~csio.inFrame /\ link.shift.value \in {BootOn, BootOff})

\* The CP, seeing RTS, clocks an octet in.
CpReceive ==
    /\ link.rts
    /\ link' = LinkAfterClock
    /\ csio' = CsioAfterClock
    /\ cp' = [cp EXCEPT !.up = CpUpAfterClock]
    /\ UNCHANGED <<tx, enabled, bootSent, hook, wasReset, left>>

-------------------------------------------------------------------------------
(***************************************************************************)
(* CP -> TP: ipcomm_complete_csio_tx_byte                                  *)
(***************************************************************************)

\* The payload of a download; its last octet is answered 0x74 on the normal queue
\* and with both reports on the priority queue, if the download had the length the
\* firmware uses.
PayloadOctet(l) ==
    LET done == tx.skip = 1
        ack  == done /\ tx.hdr = HdrC0 /\ tx.declared = CfgLen
    IN  /\ tx.skip > 0
        /\ tx' = IF done THEN IdleTx ELSE [tx EXCEPT !.skip = @ - 1]
        /\ link' = IF ack THEN QueuePrio(QueueNorm(l, Single(116)), ErrorReport \o StatusReport)
                          ELSE l

\* Slips: no upper bound on the length; the payload counted one octet short.
LengthOctetUnbounded(v) ==
    /\ tx.skip = 0
    /\ tx.need
    /\ tx' = IF v >= 3 THEN [tx EXCEPT !.need = FALSE, !.declared = v, !.skip = v - 2]
                       ELSE IdleTx

LengthOctetShort(v) ==
    /\ tx.skip = 0
    /\ tx.need
    /\ tx' = IF v \in 3 .. 126 THEN [tx EXCEPT !.need = FALSE, !.declared = v, !.skip = v - 3]
                               ELSE IdleTx

LengthOctet(v) ==
    /\ tx.skip = 0
    /\ tx.need
    /\ tx' = IF v \in 3 .. 126 THEN [tx EXCEPT !.need = FALSE, !.declared = v, !.skip = v - 2]
                               ELSE IdleTx

\* A slip: the header is not remembered, and the download looks like some other frame.
HeaderOctetForgets(v) ==
    /\ tx.skip = 0 /\ ~tx.need
    /\ v >= HdrC0
    /\ tx' = IF v = HdrC0 THEN [tx EXCEPT !.need = TRUE] ELSE IdleTx

HeaderOctet(v) ==
    /\ tx.skip = 0 /\ ~tx.need
    /\ v >= HdrC0
    /\ tx' = IF v = HdrC0 THEN [tx EXCEPT !.hdr = v, !.need = TRUE] ELSE IdleTx

\* A slip: the status report queued on the normal queue.
ReplyStatusNormal(l, c, v) ==
    CASE v = 48 -> QueuePrio(l, Single(IF hook.stable THEN 108 ELSE 110))
      [] v = 49 -> QueueNorm(l, StatusReport)
      [] v = 56 -> IF ~c.contract \/ EmitC4 THEN QueuePrio(l, ErrorReport) ELSE l
      [] v = 58 -> QueueNorm(l, Single(136))
      [] OTHER  -> l

\* The command catalog: what each query puts on the link.
Reply(l, c, v) ==
    CASE v = 48 -> QueuePrio(l, Single(IF hook.stable THEN 108 ELSE 110))    \* 0x30 hook
      [] v = 49 -> QueuePrio(l, StatusReport)                                \* 0x31 status
      [] v = 51 -> QueuePrio(l, Single(122))                                 \* 0x33 power
      [] v = 52 -> QueueNorm(l, VersionReport)                               \* 0x34 version
      [] v = 55 -> QueuePrio(l, Single(128))                                 \* 0x37 line
      [] v = 56 -> IF ~c.contract \/ EmitC4 THEN QueuePrio(l, ErrorReport) ELSE l
      [] v = 58 -> QueueNorm(l, Single(136))                                 \* 0x3A keys idle
      [] v = 59 -> QueueNorm(l, Single(140))                                 \* 0x3B handset ok
      [] OTHER  -> l

CommandOctet(l, c, v) ==
    /\ tx.skip = 0 /\ ~tx.need
    /\ v < HdrC0
    /\ link' = Reply(l, c, v)
    /\ csio' = IF v = 56 THEN [c EXCEPT !.waitC4 = ~c.contract \/ EmitC4] ELSE c
    /\ hook' = CASE v = 60 -> [hook EXCEPT !.now = TRUE]     \* 0x3C release hook relay
                 [] v = 61 -> [hook EXCEPT !.now = FALSE]    \* 0x3D seize hook relay
                 [] OTHER  -> hook
    /\ tx' = tx

\* One octet from the CP: the edges that carry it consume a waiting TP octet, then
\* the TP takes it - or ignores it while the link is inhibited.
CpOctet(v) ==
    LET l == LinkAfterClock
        c == CsioAfterClock
    IN  \/ /\ ~enabled
           /\ link' = l /\ csio' = c
           /\ UNCHANGED <<tx, hook>>
        \/ /\ enabled
           /\ PayloadOctet(l)
           /\ csio' = c
           /\ UNCHANGED hook
        \/ /\ enabled
           /\ LengthOctet(v) \/ HeaderOctet(v)
           /\ link' = l /\ csio' = c
           /\ UNCHANGED hook
        \/ /\ enabled
           /\ CommandOctet(l, c, v)

CpCommand ==
    /\ cp.up /\ cp.download = NoDownload
    /\ left.commands > 0
    /\ left' = [left EXCEPT !.commands = @ - 1]
    /\ \E v \in Commands : CpOctet(v)
    /\ cp' = cp
    /\ UNCHANGED <<enabled, bootSent, wasReset>>

CpStartDownload ==
    /\ cp.up /\ cp.download = NoDownload
    /\ left.commands > 0
    /\ left' = [left EXCEPT !.commands = @ - 1]
    /\ CpOctet(HdrC0)
    /\ \E n \in {CfgLen, CfgLen - 1} :
          cp' = [cp EXCEPT !.download = [len |-> n, togo |-> n - 1, heard |-> enabled]]
    /\ UNCHANGED <<enabled, bootSent, wasReset>>

CpContinueDownload ==
    LET d == cp.download
    IN  /\ d.togo > 0
        /\ IF d.togo = d.len - 1 THEN CpOctet(d.len) ELSE \E v \in CfgData : CpOctet(v)
        /\ cp' = [cp EXCEPT !.up = CpUpAfterClock,
                            !.download = IF d.togo = 1 THEN NoDownload
                                         ELSE [d EXCEPT !.togo = @ - 1, !.heard = @ /\ enabled]]
        /\ UNCHANGED <<enabled, bootSent, wasReset, left>>

-------------------------------------------------------------------------------
(***************************************************************************)
(* The host: HOST_POLL, the PWR_FAIL line                                  *)
(***************************************************************************)

Due == {"enable", "keepalive", "hook", "miss", "reset"}

\* set_tel_hook_state
HookMoved(h, onhook) == [h EXCEPT !.now = onhook]

\* tp_process_front_panel_events, by what it queues: a key, or a hook transition.
UiReport(u, l, h) ==
    CASE u = "off-hook" -> <<QueueNorm(l, Single(98) \o Single(110)), HookMoved(h, FALSE)>>
      [] u = "on-hook"  -> <<QueueNorm(l, Single(96) \o Single(108)), HookMoved(h, TRUE)>>
      [] u = "key"      -> <<QueueNorm(l, Single(34)), h>>
      [] OTHER          -> <<l, h>>

\* A slip: the boot code queued behind whatever still waits.
BootStepEager(l, en) ==
    IF en /\ ~bootSent
      THEN QueuePrio(l, Single(IF hook.stable THEN BootOn ELSE BootOff)) ELSE l

BootStep(l, en) ==
    IF en /\ ~bootSent /\ Empty(l)
      THEN QueuePrio(l, Single(IF hook.stable THEN BootOn ELSE BootOff)) ELSE l

KeepaliveRuns(l, en, due) ==
    /\ en /\ (csio.contract \/ "ack" \in csio.seen)
    /\ Empty(l) /\ "keepalive" \in due

\* tel_queue_runtime_keepalive_c4_c0
KeepaliveStep(l) ==
    QueuePrio(l, IF ~csio.contract \/ EmitC4 THEN ErrorReport \o StatusReport ELSE StatusReport)

\* One tick: enable ladder, boot code, keepalive, hook promotion, the C4 deadline,
\* then the front panel.  A miss at the threshold resets the TP as long as the
\* boot contract is open; afterwards csio_runtime_ok forgives it.
HostPoll(due, u) ==
    LET en     == enabled \/ "enable" \in due
        l1     == BootStep(link, en)
        keep   == KeepaliveRuns(l1, en, due)
        l2     == IF keep THEN KeepaliveStep(l1) ELSE l1
        h      == IF "hook" \in due THEN [hook EXCEPT !.stable = hook.now] ELSE hook
        wait   == csio.waitC4 /\ ~keep
        missed == wait /\ csio.seen \cap {"error", "status"} # {} /\ "miss" \in due
        reset  == missed /\ ~csio.contract /\ "reset" \in due
        ui     == UiReport(u, l2, h)
    IN  /\ link' = ui[1]
        /\ hook' = ui[2]
        /\ csio' = [csio EXCEPT !.waitC4 = wait /\ ~missed]
        /\ enabled' = (en /\ ~reset)
        /\ bootSent' = ((bootSent \/ l1 # link) /\ ~reset)
        /\ wasReset' = (wasReset \/ reset)
        /\ UNCHANGED <<tx, cp>>

Poll ==
    /\ \E due \in SUBSET Due : HostPoll(due, "none")
    /\ UNCHANGED left

PollWithUi ==
    /\ left.ui > 0
    /\ \E u \in {"key", IF hook.now THEN "off-hook" ELSE "on-hook"} : HostPoll({}, u)
    /\ left' = [left EXCEPT !.ui = @ - 1]

\* board_status_w, PWR_FAIL falling: the TP is held in reset.  The queues and both
\* parsers are left as they were.  The CP, which drives the line, gives up what it
\* was sending and waits for a boot code again.
PwrFailPulse ==
    /\ left.pulses > 0
    /\ left' = [left EXCEPT !.pulses = @ - 1]
    /\ enabled' = FALSE
    /\ bootSent' = FALSE
    /\ wasReset' = TRUE
    /\ cp' = [up |-> FALSE, download |-> NoDownload]
    /\ UNCHANGED <<link, csio, tx, hook>>

Next == \/ CpReceive
        \/ CpCommand
        \/ CpStartDownload
        \/ CpContinueDownload
        \/ Poll
        \/ PollWithUi
        \/ PwrFailPulse

\* The CP firmware services RTS and finishes a download it has begun; HOST_POLL is
\* rescheduled every 10 ms, so an armed deadline comes due and is acted on.
PollFor(due) == HostPoll(due, "none") /\ UNCHANGED left

Fairness == /\ WF_vars(CpReceive)
            /\ WF_vars(CpContinueDownload)
            /\ WF_vars(PollFor({"enable"}))
            /\ WF_vars(PollFor({"keepalive"}))

Spec == Init /\ [][Next]_vars /\ Fairness

-------------------------------------------------------------------------------

\* The link, both parsers and the hook keep their ranges; in particular the TP's skip
\* counter never exceeds a frame.
TypeOK == /\ link \in Link
          /\ csio \in Csio
          /\ tx \in Tx
          /\ enabled \in BOOLEAN /\ bootSent \in BOOLEAN
          /\ hook \in [now : BOOLEAN, stable : BOOLEAN]
          /\ cp \in [up : BOOLEAN,
                     download : [len : 0 .. 126, togo : 0 .. 125, heard : BOOLEAN]]
          /\ wasReset \in BOOLEAN
          /\ left \in [commands : 0 .. MaxCommands, ui : 0 .. MaxUi, pulses : 0 .. MaxPulses]

\* The CP's frame parser is inside a frame exactly when the TP meant the next octet
\* to be part of one: no reply lands inside another frame, no payload octet is
\* taken for a report and no header for a length.
FramesIntact ==
    link.shift # NoByte => (csio.inFrame <=> link.shift.role \in {"length", "data", "check"})

\* Until the TP is reset under a conversation, it reads the octets of a download where
\* the CP is sending them from.
DownloadInStep ==
    enabled /\ cp.up /\ ~wasReset =>
        IF cp.download = NoDownload THEN tx.skip = 0 /\ ~tx.need
        ELSE IF cp.download.togo = cp.download.len - 1 THEN tx.skip = 0 /\ tx.need
        ELSE tx.skip = cp.download.togo /\ tx.declared = cp.download.len

Acks(l) == Cardinality({i \in 1 .. Len(Stream(l)) : Stream(l)[i] = Single(116)[1]})

\* The last octet of a download of the firmware's length, sent over a link that has
\* been up all along.
DownloadDone ==
    /\ cp.download = [len |-> CfgLen, togo |-> 1, heard |-> TRUE] /\ enabled
    /\ cp'.download = NoDownload /\ cp'.up

\* Such a download is answered 0x74 once, as soon as its last octet is complete, until
\* the TP is reset under a conversation.
DownloadAcked ==
    [][DownloadDone /\ ~wasReset => Acks(link') = Acks(LinkAfterClock) + 1]_vars

\* The same after a reset too, which is what the comment in
\* ipcomm_complete_csio_tx_byte promises.
DownloadAckedAlways == [][DownloadDone => Acks(link') = Acks(LinkAfterClock) + 1]_vars

\* However often the TP is reset, at most one boot code waits for the CP.
BootCodeOnce ==
    LET s == Stream(link)
    IN  Cardinality({i \in 1 .. Len(s) : s[i].value \in {BootOn, BootOff} /\ s[i].role = "single"}) <= 1

\* Normal traffic is not starved by priority traffic for ever.
NormalDrains == link.norm # <<>> ~> link.norm = <<>>
===============================================================================
