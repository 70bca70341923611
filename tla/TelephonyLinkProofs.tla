-------------------------- MODULE TelephonyLinkProofs --------------------------
(***************************************************************************)
(* Proofs about TelephonyLink, for every length of the download, every set *)
(* of commands and every bound: the ranges of its state, that at most one  *)
(* boot code waits for the CP, that both ends agree where they are in a    *)
(* download until the TP is reset under a conversation, that no reply      *)
(* lands inside another's frame, and that a download is answered once.     *)
(*                                                                         *)
(* The first three rest on one fact about the queues: a boot code is       *)
(* queued only on an empty link, so it is in the register or nowhere, and  *)
(* no reply, report or key code has its value.                             *)
(***************************************************************************)
EXTENDS TelephonyLink, TLAPS, FiniteSetTheorems

Boot == {BootOn, BootOff}
Mute == {b \in Byte : b.value \notin Boot}

\* A link whose queues hold no boot code.
QuietLink == [prio : Seq(Mute), norm : Seq(Mute), shift : Byte \cup {NoByte},
              bit : 0 .. 7, rts : BOOLEAN]

Calls(l) == l.shift.value \in Boot

LEMMA QuietFields ==
    \A l \in QuietLink : /\ l.prio \in Seq(Mute)
                         /\ l.norm \in Seq(Mute)
                         /\ l.shift \in Byte \cup {NoByte}
                         /\ l.bit \in 0 .. 7
                         /\ l.rts \in BOOLEAN
  BY DEF QuietLink

LEMMA MuteByte == /\ Mute \subseteq Byte
                  /\ \A s \in Seq(Mute) : s \in Seq(Byte)
  BY DEF Mute

LEMMA QuietIsLink == QuietLink \subseteq Link
<1> SUFFICES ASSUME NEW l \in QuietLink PROVE l \in Link
  OBVIOUS
<1>1. l.prio \in Seq(Byte) /\ l.norm \in Seq(Byte)
  BY QuietFields, MuteByte
<1> QED
  BY <1>1 DEF QuietLink, Link

\* Priming keeps the queues quiet and never brings a boot code into the register.
LEMMA PrimeQuiet ==
    \A l \in QuietLink : Prime(l) \in QuietLink /\ (Calls(Prime(l)) => Calls(l))
<1> SUFFICES ASSUME NEW l \in QuietLink
             PROVE  Prime(l) \in QuietLink /\ (Calls(Prime(l)) => Calls(l))
  OBVIOUS
<1> USE QuietFields
<1>1. CASE l.shift # NoByte
  BY <1>1 DEF Prime
<1>2. CASE l.shift = NoByte /\ l.prio # <<>>
  <2>1. Head(l.prio) \in Mute /\ Tail(l.prio) \in Seq(Mute)
    BY <1>2
  <2>. Head(l.prio) \in Byte \cup {NoByte} /\ 0 \in 0 .. 7
    BY <2>1 DEF Mute
  <2>2. Prime(l) = [l EXCEPT !.shift = Head(l.prio), !.bit = 0, !.rts = TRUE, !.prio = Tail(l.prio)]
    BY <1>2 DEF Prime, Loaded, QuietLink
  <2>3. Prime(l).shift = Head(l.prio)
    BY <2>2 DEF QuietLink
  <2>4. Prime(l) \in QuietLink
    BY <2>1, <2>2 DEF QuietLink
  <2> QED
    BY <2>1, <2>3, <2>4 DEF Calls, Mute
<1>3. CASE l.shift = NoByte /\ l.prio = <<>> /\ l.norm # <<>>
  <2>1. Head(l.norm) \in Mute /\ Tail(l.norm) \in Seq(Mute)
    BY <1>3
  <2>. Head(l.norm) \in Byte \cup {NoByte} /\ 0 \in 0 .. 7
    BY <2>1 DEF Mute
  <2>2. Prime(l) = [l EXCEPT !.shift = Head(l.norm), !.bit = 0, !.rts = TRUE, !.norm = Tail(l.norm)]
    BY <1>3 DEF Prime, Loaded, QuietLink
  <2>3. Prime(l).shift = Head(l.norm)
    BY <2>2 DEF QuietLink
  <2>4. Prime(l) \in QuietLink
    BY <2>1, <2>2 DEF QuietLink
  <2> QED
    BY <2>1, <2>3, <2>4 DEF Calls, Mute
<1>4. CASE l.shift = NoByte /\ l.prio = <<>> /\ l.norm = <<>>
  <2>1. Prime(l) = [l EXCEPT !.rts = FALSE]
    BY <1>4 DEF Prime
  <2>2. Prime(l).shift = l.shift
    BY <2>1 DEF QuietLink
  <2>3. Prime(l) \in QuietLink
    BY <2>1 DEF QuietLink
  <2> QED
    BY <2>2, <2>3 DEF Calls
<1> QED
  BY <1>1, <1>2, <1>3, <1>4

\* So does queueing anything but a boot code.
LEMMA QueueQuiet ==
    \A l \in QuietLink, bs \in Seq(Mute) :
        /\ QueuePrio(l, bs) \in QuietLink /\ (Calls(QueuePrio(l, bs)) => Calls(l))
        /\ QueueNorm(l, bs) \in QuietLink /\ (Calls(QueueNorm(l, bs)) => Calls(l))
<1> SUFFICES ASSUME NEW l \in QuietLink, NEW bs \in Seq(Mute)
             PROVE  /\ QueuePrio(l, bs) \in QuietLink /\ (Calls(QueuePrio(l, bs)) => Calls(l))
                    /\ QueueNorm(l, bs) \in QuietLink /\ (Calls(QueueNorm(l, bs)) => Calls(l))
  OBVIOUS
<1> DEFINE p == [l EXCEPT !.prio = @ \o bs]
           n == [l EXCEPT !.norm = @ \o bs]
<1>1. l.prio \o bs \in Seq(Mute) /\ l.norm \o bs \in Seq(Mute)
  BY QuietFields
<1>2. p \in QuietLink /\ n \in QuietLink
  BY <1>1 DEF QuietLink
<1>3. p.shift = l.shift /\ n.shift = l.shift
  BY DEF QuietLink
<1> QED
  BY <1>2, <1>3, PrimeQuiet DEF QueuePrio, QueueNorm, Calls

\* Completing an octet takes a boot code out of the link.
LEMMA ShiftedQuiet == \A l \in QuietLink : Shifted(l) \in QuietLink /\ ~Calls(Shifted(l))
<1> SUFFICES ASSUME NEW l \in QuietLink PROVE Shifted(l) \in QuietLink /\ ~Calls(Shifted(l))
  OBVIOUS
<1> DEFINE m == [l EXCEPT !.shift = NoByte, !.bit = 0]
<1>0. NoByte \in Byte \cup {NoByte} /\ 0 \in 0 .. 7
  OBVIOUS
<1>1. m \in QuietLink /\ m.shift = NoByte
  BY <1>0 DEF QuietLink
<1>2. ~Calls(m)
  BY <1>1 DEF Calls, NoByte, Boot, BootOn, BootOff
<1> QED
  BY <1>1, <1>2, PrimeQuiet DEF Shifted

\* A boot code queued on an empty link goes straight to the register.
LEMMA BootQuiet ==
    \A l \in QuietLink, b \in Byte : Empty(l) => QueuePrio(l, <<b>>) \in QuietLink
<1> SUFFICES ASSUME NEW l \in QuietLink, NEW b \in Byte, Empty(l)
             PROVE  QueuePrio(l, <<b>>) \in QuietLink
  OBVIOUS
<1> DEFINE p == [l EXCEPT !.prio = @ \o <<b>>]
<1>1. p \in [prio : Seq(Byte), norm : Seq(Mute), shift : Byte \cup {NoByte}, bit : 0 .. 7, rts : BOOLEAN]
  <2>1. l.prio \o <<b>> \in Seq(Byte)
    BY MuteByte, QuietFields
  <2> QED
    BY <2>1 DEF QuietLink
<1>2. p.prio = <<b>> /\ p.shift = NoByte /\ p.norm = l.norm
  BY DEF Empty, QuietLink
<1> HIDE DEF p
<1>3. Prime(p) = [Loaded(p, Head(p.prio)) EXCEPT !.prio = Tail(p.prio)]
  <2>1. Loaded(p, Head(p.prio)).prio = p.prio
    BY <1>1 DEF Loaded
  <2>2. p.prio # <<>>
    BY <1>2
  <2>3. Prime(p) = [Loaded(p, Head(p.prio)) EXCEPT !.prio = Tail(@)]
    BY <1>2, <2>2 DEF Prime
  <2> QED
    BY <2>1, <2>3
<1>4. Head(p.prio) = b /\ Tail(p.prio) = <<>>
  BY <1>2
<1>5. Loaded(p, b) \in [prio : Seq(Byte), norm : Seq(Mute), shift : Byte \cup {NoByte}, bit : 0 .. 7, rts : BOOLEAN]
  <2>1. b \in Byte \cup {NoByte} /\ 0 \in 0 .. 7
    OBVIOUS
  <2> QED
    BY <1>1, <2>1 DEF Loaded
<1>6. <<>> \in Seq(Mute)
  OBVIOUS
<1>7. [Loaded(p, b) EXCEPT !.prio = <<>>] \in QuietLink
  BY <1>5, <1>6 DEF QuietLink
<1> QED
  BY <1>3, <1>4, <1>7 DEF QueuePrio, p

-------------------------------------------------------------------------------

LEMMA SingleMute ==
    /\ \A v \in Octet \ Boot : Single(v) \in Seq(Mute)
    /\ \A v \in Octet : [value |-> v, role |-> "single"] \in Byte
<1>1. \A v \in Octet : [value |-> v, role |-> "single"] \in Byte
  BY DEF Byte, Role
<1>2. \A v \in Octet \ Boot : [value |-> v, role |-> "single"] \in Mute
  BY <1>1 DEF Mute
<1> QED
  BY <1>1, <1>2 DEF Single

\* The octets the code answers with, apart from frames.
LEMMA AnswersMute ==
    /\ \A v \in {34, 96, 98, 108, 110, 116, 122, 128, 136, 140} : Single(v) \in Seq(Mute)
    /\ Single(98) \o Single(110) \in Seq(Mute)
    /\ Single(96) \o Single(108) \in Seq(Mute)
<1>1. {34, 96, 98, 108, 110, 116, 122, 128, 136, 140} \subseteq Octet \ Boot
  BY DEF Octet, Boot, BootOn, BootOff
<1>2. \A v \in Octet \ Boot : Single(v) \in Seq(Mute)
  BY SingleMute
<1>3. \A v \in {34, 96, 98, 108, 110, 116, 122, 128, 136, 140} : Single(v) \in Seq(Mute)
  <2>1. SUFFICES ASSUME NEW v \in {34, 96, 98, 108, 110, 116, 122, 128, 136, 140}
                 PROVE  Single(v) \in Seq(Mute)
    OBVIOUS
  <2>2. v \in Octet \ Boot
    BY <1>1
  <2> QED
    BY <1>2, <2>2
<1>4. {96, 98, 108, 110} \subseteq {34, 96, 98, 108, 110, 116, 122, 128, 136, 140}
  OBVIOUS
<1>5. Single(96) \in Seq(Mute) /\ Single(98) \in Seq(Mute) /\ Single(108) \in Seq(Mute) /\ Single(110) \in Seq(Mute)
  BY <1>3, <1>4
<1> QED
  BY <1>3, <1>5

\* The three frames, written out as header, length, payload and sum, hold no boot code.
LEMMA FrameMute ==
    ASSUME NEW h \in {192, 194, 196}, NEW n \in {4, 8, 14}
    PROVE  Frame(h, n) \in Seq(Mute)
<1> DEFINE zero == [value |-> 0, role |-> "data"]
           head == <<[value |-> h, role |-> "header"], [value |-> n, role |-> "length"]>>
           body == [i \in 1 .. n - 3 |-> zero]
           last == [value |-> (h + n) % 256, role |-> "check"]
<1>1. zero \in Mute
  BY DEF Mute, Byte, Octet, Role, Boot, BootOn, BootOff
<1>2. [value |-> h, role |-> "header"] \in Mute
  BY DEF Mute, Byte, Octet, Role, Boot, BootOn, BootOff
<1>3. [value |-> n, role |-> "length"] \in Mute
  BY DEF Mute, Byte, Octet, Role, Boot, BootOn, BootOff
<1>4. last \in Mute
  <2>1. (h + n) % 256 \in Octet \ Boot
    BY DEF Octet, Boot, BootOn, BootOff
  <2> QED
    BY <2>1 DEF Mute, Byte, Role
<1>5. body \in Seq(Mute)
  <2>1. n - 3 \in Nat
    OBVIOUS
  <2>2. body \in [1 .. n - 3 -> Mute]
    BY <1>1
  <2> QED
    BY <2>1, <2>2
<1>6. head \in Seq(Mute) /\ <<last>> \in Seq(Mute)
  BY <1>2, <1>3, <1>4
<1>7. Frame(h, n) = head \o body \o <<last>>
  BY DEF Frame
<1> HIDE DEF head, body, last
<1> QED
  BY <1>5, <1>6, <1>7

LEMMA ReportsMute ==
    /\ ErrorReport \in Seq(Mute) /\ StatusReport \in Seq(Mute) /\ VersionReport \in Seq(Mute)
    /\ ErrorReport \o StatusReport \in Seq(Mute)
<1>1. ErrorReport \in Seq(Mute) /\ StatusReport \in Seq(Mute) /\ VersionReport \in Seq(Mute)
  BY FrameMute DEF ErrorReport, StatusReport, VersionReport, HdrC0, HdrC2, HdrC4
<1> QED
  BY <1>1

Hook == [now : BOOLEAN, stable : BOOLEAN]
Download == [len : 0 .. 126, togo : 0 .. 125, heard : BOOLEAN]

\* A reply of the command catalog is no boot code.
LEMMA ReplyQuiet ==
    ASSUME NEW l \in QuietLink, NEW c, NEW v
    PROVE  Reply(l, c, v) \in QuietLink /\ (Calls(Reply(l, c, v)) => Calls(l))
<1>1. \A o \in {108, 110, 122, 128, 136, 140} :
          /\ QueuePrio(l, Single(o)) \in QuietLink /\ (Calls(QueuePrio(l, Single(o))) => Calls(l))
          /\ QueueNorm(l, Single(o)) \in QuietLink /\ (Calls(QueueNorm(l, Single(o))) => Calls(l))
  <2>1. \A o \in {108, 110, 122, 128, 136, 140} : Single(o) \in Seq(Mute)
    BY AnswersMute, SMTT(40)
  <2> QED
    BY <2>1, QueueQuiet, ZenonT(40)
<1>2. /\ QueuePrio(l, StatusReport) \in QuietLink /\ (Calls(QueuePrio(l, StatusReport)) => Calls(l))
      /\ QueuePrio(l, ErrorReport) \in QuietLink /\ (Calls(QueuePrio(l, ErrorReport)) => Calls(l))
      /\ QueueNorm(l, VersionReport) \in QuietLink /\ (Calls(QueueNorm(l, VersionReport)) => Calls(l))
  BY ReportsMute, QueueQuiet, Zenon
<1> QED
  BY <1>1, <1>2, SMTT(40) DEF Reply

\* A boot code reaches the queues' front only by the boot step, and only once the link is enabled.
LEMMA BootStepQuiet ==
    ASSUME link \in QuietLink, NEW en \in BOOLEAN
    PROVE  BootStep(link, en) \in QuietLink /\ (Calls(BootStep(link, en)) => Calls(link) \/ en)
<1>1. CASE en /\ ~bootSent /\ Empty(link)
  <2> DEFINE v == IF hook.stable THEN BootOn ELSE BootOff
  <2>1. v \in Octet
    BY DEF BootOn, BootOff, Octet
  <2>2. [value |-> v, role |-> "single"] \in Byte
    BY <2>1, SingleMute
  <2>3. BootStep(link, en) = QueuePrio(link, <<[value |-> v, role |-> "single"]>>)
    BY <1>1 DEF BootStep, Single
  <2> QED
    BY <1>1, <2>2, <2>3, BootQuiet
<1>2. CASE ~(en /\ ~bootSent /\ Empty(link))
  BY <1>2 DEF BootStep
<1> QED
  BY <1>1, <1>2

LEMMA KeepaliveQuiet ==
    \A l \in QuietLink : KeepaliveStep(l) \in QuietLink /\ (Calls(KeepaliveStep(l)) => Calls(l))
  BY ReportsMute, QueueQuiet, Zenon DEF KeepaliveStep

LEMMA UiQuiet ==
    ASSUME NEW l \in QuietLink, NEW h \in Hook, NEW u
    PROVE  /\ UiReport(u, l, h)[1] \in QuietLink
           /\ Calls(UiReport(u, l, h)[1]) => Calls(l)
           /\ UiReport(u, l, h)[2] \in Hook
<1>1. HookMoved(h, FALSE) \in Hook /\ HookMoved(h, TRUE) \in Hook
  BY DEF Hook, HookMoved
<1>r. ASSUME NEW bs \in Seq(Mute), NEW g \in Hook, UiReport(u, l, h) = <<QueueNorm(l, bs), g>>
      PROVE  /\ UiReport(u, l, h)[1] \in QuietLink
             /\ Calls(UiReport(u, l, h)[1]) => Calls(l)
             /\ UiReport(u, l, h)[2] \in Hook
  <2>1. UiReport(u, l, h)[1] = QueueNorm(l, bs) /\ UiReport(u, l, h)[2] = g
    BY <1>r
  <2> QED
    BY <2>1, QueueQuiet
<1>2. CASE u = "off-hook"
  <2> DEFINE bs == Single(98) \o Single(110)
  <2>1. UiReport(u, l, h) = <<QueueNorm(l, bs), HookMoved(h, FALSE)>>
    BY <1>2 DEF UiReport
  <2>2. bs \in Seq(Mute)
    BY AnswersMute
  <2> HIDE DEF bs
  <2> QED
    BY <1>1, <1>r, <2>1, <2>2
<1>3. CASE u = "on-hook"
  <2> DEFINE bs == Single(96) \o Single(108)
  <2>1. UiReport(u, l, h) = <<QueueNorm(l, bs), HookMoved(h, TRUE)>>
    BY <1>3 DEF UiReport
  <2>2. bs \in Seq(Mute)
    BY AnswersMute
  <2> HIDE DEF bs
  <2> QED
    BY <1>1, <1>r, <2>1, <2>2
<1>4. CASE u = "key"
  <2>1. UiReport(u, l, h) = <<QueueNorm(l, Single(34)), h>>
    BY <1>4 DEF UiReport
  <2>2. Single(34) \in Seq(Mute)
    BY AnswersMute
  <2> QED
    BY <1>r, <2>1, <2>2
<1>5. CASE u \notin {"off-hook", "on-hook", "key"}
  BY <1>5 DEF UiReport
<1> QED
  BY <1>2, <1>3, <1>4, <1>5

-------------------------------------------------------------------------------

\* The frame parser: inside a frame whose length is known, octets remain.
CsioOk(c) == /\ c \in Csio
             /\ c.inFrame /\ c.len # 0 => c.remaining # 0

LEMMA SawOk ==
    ASSUME NEW c, CsioOk(c), NEW e \in Evidence
    PROVE  CsioOk(Saw(c, e)) /\ CsioOk(Progress(c))
<1> DEFINE d == [c EXCEPT !.seen = @ \cup {e}]
<1>1. \A x : CsioOk(x) => CsioOk(Progress(x))
  <2> SUFFICES ASSUME NEW x, CsioOk(x) PROVE CsioOk(Progress(x))
    OBVIOUS
  <2>1. CsioOk([x EXCEPT !.contract = TRUE])
    BY DEF CsioOk, Csio
  <2> QED
    BY <2>1 DEF Progress
<1>2. CsioOk(d)
  <2>1. c.seen \cup {e} \in SUBSET Evidence
    BY DEF CsioOk, Csio
  <2>2. d \in Csio
    BY <2>1 DEF CsioOk, Csio
  <2>3. d.inFrame = c.inFrame /\ d.len = c.len /\ d.remaining = c.remaining
    BY DEF CsioOk, Csio
  <2> QED
    BY <2>2, <2>3 DEF CsioOk
<1> QED
  BY <1>1, <1>2 DEF Saw

LEMMA SumOctet == \A a, b \in Octet : (a + b) % 256 \in Octet
  BY DEF Octet

LEMMA RxOk ==
    ASSUME NEW c, CsioOk(c), NEW v \in Octet
    PROVE  CsioOk(RxByte(c, v))
<1>1. c \in Csio
  BY DEF CsioOk
<1>a. c.sum \in Octet /\ c.remaining \in Octet /\ 0 \in Octet
  BY <1>1 DEF Csio, Octet
<1>b. PICK q \in Octet : q = (c.sum + v) % 256
  BY <1>a, SumOctet
<1>2. CASE ~c.inFrame
  <2>1. CASE v >= HdrC0
    <3> DEFINE d == [c EXCEPT !.inFrame = TRUE, !.code = v, !.sum = v, !.len = 0, !.remaining = 0]
    <3>1. d \in Csio /\ d.len = 0
      BY <1>1, <1>a DEF Csio
    <3> QED
      BY <1>2, <2>1, <3>1 DEF RxByte, CsioOk
  <2>2. CASE ~(v >= HdrC0)
    <3>1. RxByte(c, v) = SingleByte(c, v)
      BY <1>2, <2>2 DEF RxByte
    <3>2. "ack" \in Evidence /\ "hook" \in Evidence /\ "power" \in Evidence
      BY DEF Evidence
    <3> QED
      BY <3>1, <3>2, SawOk DEF SingleByte
  <2> QED
    BY <2>1, <2>2
<1>3. CASE c.inFrame /\ c.len = 0
  <2>1. CASE v < 3
    <3> DEFINE d == [c EXCEPT !.len = v, !.sum = q, !.inFrame = FALSE]
    <3>1. d \in Csio /\ d.inFrame = FALSE
      BY <1>1 DEF Csio
    <3>2. RxByte(c, v) = d
      BY <1>b, <1>3, <2>1 DEF RxByte
    <3> QED
      BY <3>1, <3>2 DEF CsioOk
  <2>2. CASE ~(v < 3)
    <3> DEFINE d == [c EXCEPT !.len = v, !.sum = q, !.remaining = v - 2]
    <3>1. v - 2 \in Octet /\ v - 2 # 0
      BY <2>2 DEF Octet
    <3>2. d \in Csio /\ d.remaining = v - 2
      BY <1>1, <3>1 DEF Csio
    <3>3. RxByte(c, v) = d
      BY <1>b, <1>3, <2>2 DEF RxByte
    <3> QED
      BY <3>1, <3>2, <3>3 DEF CsioOk
  <2> QED
    BY <2>1, <2>2
<1>4. CASE c.inFrame /\ c.len # 0 /\ c.remaining = 1
  <2> DEFINE d == [c EXCEPT !.inFrame = FALSE, !.remaining = 0]
  <2>1. CsioOk(d)
    <3>1. d \in Csio /\ d.inFrame = FALSE
      BY <1>1, <1>a DEF Csio
    <3> QED
      BY <3>1 DEF CsioOk
  <2>2. CsioOk([d EXCEPT !.waitC4 = FALSE])
    BY <2>1 DEF CsioOk, Csio
  <2>3. RxByte(c, v) = FrameEnd(c, v)
    BY <1>4 DEF RxByte
  <2>4. "status" \in Evidence /\ "error" \in Evidence
    BY DEF Evidence
  <2> HIDE DEF d
  <2>5. FrameEnd(c, v) \in {Saw(d, "status"), Saw([d EXCEPT !.waitC4 = FALSE], "error"), d}
    BY DEF FrameEnd, d
  <2> QED
    BY <2>1, <2>2, <2>3, <2>4, <2>5, SawOk
<1>5. CASE c.inFrame /\ c.len # 0 /\ c.remaining # 1
  <2> DEFINE d == [c EXCEPT !.remaining = c.remaining - 1, !.sum = q]
  <2>1. c.remaining - 1 \in Octet /\ c.remaining - 1 # 0
    BY <1>a, <1>5 DEF CsioOk, Octet
  <2>2. d \in Csio /\ d.remaining = c.remaining - 1
    BY <1>1, <2>1 DEF Csio
  <2>3. RxByte(c, v) = d
    BY <1>1, <1>b, <1>5 DEF RxByte
  <2> QED
    BY <2>1, <2>2, <2>3 DEF CsioOk
<1> QED
  BY <1>2, <1>3, <1>4, <1>5

-------------------------------------------------------------------------------
(***************************************************************************)
(* The inductive invariant.                                                *)
(***************************************************************************)

\* The firmware's place in a download is inside it.
PlaceOk == cp.download = NoDownload
              \/ /\ cp.download.len \in {CfgLen, CfgLen - 1}
                 /\ cp.download.togo \in 1 .. cp.download.len - 1

\* Until a reset under way the CP talks only to an enabled TP, has said nothing before its
\* boot code, and there is no boot code before the link is enabled.
BootFirst == ~wasReset =>
    /\ cp.up => enabled
    /\ ~cp.up => tx = IdleTx /\ cp.download = NoDownload
    /\ ~enabled => ~Calls(link)

IInv == /\ TypeOK
        /\ link \in QuietLink
        /\ CsioOk(csio)
        /\ PlaceOk
        /\ BootFirst
        /\ DownloadInStep

LEMMA InitInv == Init => IInv
<1> SUFFICES ASSUME Init PROVE IInv
  OBVIOUS
<1> USE DEF Init
<1>1. link \in QuietLink /\ ~Calls(link)
  BY DEF IdleLink, QuietLink, Calls, NoByte, Boot, BootOn, BootOff
<1>2. csio \in Csio /\ ~csio.inFrame
  BY DEF Csio, Octet
<1>3. tx \in Tx
  BY DEF IdleTx, Tx, Octet
<1>4. cp \in [up : BOOLEAN, download : [len : 0 .. 126, togo : 0 .. 125, heard : BOOLEAN]]
  BY DEF NoDownload
<1>5. left \in [commands : 0 .. MaxCommands, ui : 0 .. MaxUi, pulses : 0 .. MaxPulses]
  BY BoundAssumption
<1>6. TypeOK
  BY <1>1, <1>2, <1>3, <1>4, <1>5, QuietIsLink DEF TypeOK
<1>7. ~cp.up /\ cp.download = NoDownload
  OBVIOUS
<1> QED
  BY <1>1, <1>2, <1>6, <1>7 DEF IInv, CsioOk, PlaceOk, BootFirst, DownloadInStep

\* An octet clocked out of the register leaves a quiet link and a sound frame parser.
LEMMA AfterClock ==
    ASSUME IInv
    PROVE  /\ LinkAfterClock \in QuietLink
           /\ ~Calls(LinkAfterClock)
           /\ CsioOk(CsioAfterClock)
<1>1. link \in QuietLink /\ CsioOk(csio)
  BY DEF IInv
<1>2. CASE link.shift = NoByte
  BY <1>1, <1>2 DEF LinkAfterClock, CsioAfterClock, Calls, NoByte, Boot, BootOn, BootOff
<1>3. CASE link.shift # NoByte
  <2>1. link.shift \in Byte
    BY <1>1, <1>3, QuietFields
  <2>2. link.shift.value \in Octet
    BY <2>1 DEF Byte
  <2> QED
    BY <1>1, <1>3, <2>2, ShiftedQuiet, RxOk DEF LinkAfterClock, CsioAfterClock
<1> QED
  BY <1>2, <1>3

\* The TP's reading of one octet of the CP.
LEMMA OctetTypes ==
    ASSUME IInv, NEW v \in Octet, CpOctet(v)
    PROVE  /\ link' \in QuietLink
           /\ ~enabled => ~Calls(link') /\ tx' = tx
           /\ CsioOk(csio')
           /\ tx' \in Tx
           /\ hook' \in Hook
<1> DEFINE l == LinkAfterClock
           c == CsioAfterClock
<1>1. /\ tx \in Tx
      /\ hook \in Hook
  BY DEF IInv, TypeOK, Hook
<1>2. l \in QuietLink /\ ~Calls(l) /\ CsioOk(c)
  BY AfterClock
<1> HIDE DEF l, c
<1>3. CASE ~enabled /\ link' = l /\ csio' = c /\ UNCHANGED <<tx, hook>>
  BY <1>1, <1>2, <1>3
<1>4. CASE enabled /\ PayloadOctet(l) /\ csio' = c /\ UNCHANGED hook
  <2>1. tx.skip - 1 \in 0 .. 124 /\ IdleTx \in Tx
    BY <1>1, <1>4 DEF PayloadOctet, Tx, IdleTx, Octet
  <2>2. [tx EXCEPT !.skip = @ - 1] \in Tx
    BY <1>1, <2>1 DEF Tx
  <2>3. tx' \in Tx
    BY <1>4, <2>1, <2>2 DEF PayloadOctet
  <2>4. QueueNorm(l, Single(116)) \in QuietLink
    BY <1>2, AnswersMute, QueueQuiet
  <2>5. QueuePrio(QueueNorm(l, Single(116)), ErrorReport \o StatusReport) \in QuietLink
    BY <2>4, ReportsMute, QueueQuiet
  <2>6. link' \in {l, QueuePrio(QueueNorm(l, Single(116)), ErrorReport \o StatusReport)}
    BY <1>4, Zenon DEF PayloadOctet
  <2> QED
    BY <1>1, <1>2, <1>4, <2>3, <2>5, <2>6
<1>5. CASE enabled /\ (LengthOctet(v) \/ HeaderOctet(v)) /\ link' = l /\ csio' = c /\ UNCHANGED hook
  <2>1. IdleTx \in Tx
    BY DEF Tx, IdleTx, Octet
  <2>2. ASSUME v \in 3 .. 126
        PROVE  [tx EXCEPT !.need = FALSE, !.declared = v, !.skip = v - 2] \in Tx
    <3>1. v \in 0 .. 126
      BY <2>2
    <3>2. v - 2 \in 0 .. 124
      BY <2>2
    <3>3. [tx EXCEPT !.need = FALSE] \in Tx
      BY <1>1, ZenonT(40) DEF Tx
    <3>4. \A t \in Tx : [t EXCEPT !.declared = v] \in Tx
      BY <3>1 DEF Tx
    <3>5. \A t \in Tx, n \in 0 .. 124 : [t EXCEPT !.skip = n] \in Tx
      BY DEF Tx
    <3>6. [tx EXCEPT !.need = FALSE, !.declared = v, !.skip = v - 2]
          = [[[tx EXCEPT !.need = FALSE] EXCEPT !.declared = v] EXCEPT !.skip = v - 2]
      OBVIOUS
    <3> QED
      BY <3>2, <3>3, <3>4, <3>5, <3>6
  <2>3. [tx EXCEPT !.hdr = v, !.need = TRUE] \in Tx
    BY <1>1, ZenonT(40) DEF Tx
  <2>4. tx' \in Tx
    BY <1>5, <2>1, <2>2, <2>3 DEF LengthOctet, HeaderOctet
  <2> QED
    BY <1>1, <1>2, <1>5, <2>4
<1>6. CASE enabled /\ CommandOctet(l, c, v)
  <2>1. link' \in QuietLink
    BY <1>2, <1>6, ReplyQuiet DEF CommandOctet
  <2>2. CsioOk(csio')
    <3>1. (~c.contract \/ EmitC4) \in BOOLEAN
      BY EmitC4Assumption
    <3>2. CsioOk([c EXCEPT !.waitC4 = ~c.contract \/ EmitC4])
      BY <1>2, <3>1 DEF CsioOk, Csio
    <3> QED
      BY <1>2, <1>6, <3>2 DEF CommandOctet
  <2>3. hook' \in Hook
    <3>1. [hook EXCEPT !.now = TRUE] \in Hook /\ [hook EXCEPT !.now = FALSE] \in Hook
      BY <1>1 DEF Hook
    <3> QED
      BY <1>1, <1>6, <3>1 DEF CommandOctet
  <2>4. tx' = tx
    BY <1>6 DEF CommandOctet
  <2> QED
    BY <1>1, <1>6, <2>1, <2>2, <2>3, <2>4
<1> QED
  BY <1>3, <1>4, <1>5, <1>6 DEF CpOctet, l, c

\* CpReceive: the octet the CP takes may be its boot code.
LEMMA ReceiveInv == IInv /\ CpReceive => IInv'
<1> SUFFICES ASSUME IInv, CpReceive PROVE IInv'
  OBVIOUS
<1>1. link' \in QuietLink /\ ~Calls(link') /\ CsioOk(csio')
  BY AfterClock DEF CpReceive
<1>2. UNCHANGED <<tx, enabled, bootSent, hook, wasReset, left>>
  BY DEF CpReceive
<1>3. cp \in [up : BOOLEAN, download : [len : 0 .. 126, togo : 0 .. 125, heard : BOOLEAN]]
  BY DEF IInv, TypeOK
<1>4. /\ cp' = [cp EXCEPT !.up = CpUpAfterClock]
      /\ CpUpAfterClock \in BOOLEAN
      /\ CpUpAfterClock => cp.up \/ Calls(link)
      /\ cp.up => CpUpAfterClock
  BY <1>3 DEF CpReceive, CpUpAfterClock, Calls, Boot
<1>5. cp' \in [up : BOOLEAN, download : [len : 0 .. 126, togo : 0 .. 125, heard : BOOLEAN]]
  BY <1>3, <1>4
<1>6. cp'.download = cp.download /\ cp'.up = CpUpAfterClock
  BY <1>3, <1>4
<1>7. TypeOK'
  BY <1>1, <1>2, <1>5, QuietIsLink DEF IInv, TypeOK, CsioOk
<1>8. PlaceOk'
  BY <1>6 DEF IInv, PlaceOk
<1>9. BootFirst'
  BY <1>1, <1>2, <1>4, <1>6 DEF IInv, BootFirst
<1>10. DownloadInStep'
  <2>1. CASE cp.up
    BY <1>2, <1>6, <2>1 DEF IInv, DownloadInStep
  <2>2. CASE ~cp.up
    BY <1>2, <1>6, <2>2 DEF IInv, BootFirst, DownloadInStep, IdleTx
  <2> QED
    BY <2>1, <2>2
<1> QED
  BY <1>1, <1>7, <1>8, <1>9, <1>10 DEF IInv

\* CpCommand: between downloads no command moves the TP's parser.
LEMMA CommandInv == IInv /\ CpCommand => IInv'
<1> SUFFICES ASSUME IInv, CpCommand PROVE IInv'
  OBVIOUS
<1>1. PICK v \in Commands : CpOctet(v)
  BY DEF CpCommand
<1>2. v \in Octet /\ v < HdrC0
  BY OctetAssumption DEF Octet, HdrC0
<1>3. /\ link' \in QuietLink
      /\ ~enabled => ~Calls(link') /\ tx' = tx
      /\ CsioOk(csio') /\ tx' \in Tx /\ hook' \in Hook
  BY <1>1, <1>2, OctetTypes
<1>4. /\ UNCHANGED <<enabled, bootSent, wasReset, cp>>
      /\ cp.up /\ cp.download = NoDownload
  BY DEF CpCommand
<1>5. left' \in [commands : 0 .. MaxCommands, ui : 0 .. MaxUi, pulses : 0 .. MaxPulses]
  <2>1. left \in [commands : 0 .. MaxCommands, ui : 0 .. MaxUi, pulses : 0 .. MaxPulses]
    BY DEF IInv, TypeOK
  <2>2. left.commands - 1 \in 0 .. MaxCommands
    BY <2>1, BoundAssumption DEF CpCommand
  <2>3. left' = [left EXCEPT !.commands = @ - 1]
    BY DEF CpCommand
  <2> QED
    BY <2>1, <2>2, <2>3
<1>6. TypeOK'
  BY <1>3, <1>4, <1>5, QuietIsLink DEF IInv, TypeOK, CsioOk, Hook
<1>7. PlaceOk'
  BY <1>4 DEF IInv, PlaceOk
<1>8. BootFirst'
  BY <1>3, <1>4 DEF IInv, BootFirst
<1>9. DownloadInStep'
  <2>1. CASE enabled /\ tx.skip = 0 /\ ~tx.need
    <3>1. tx' = tx
      BY <1>1, <1>2, <2>1 DEF CpOctet, PayloadOctet, LengthOctet, HeaderOctet, CommandOctet, HdrC0, Octet
    <3> QED
      BY <1>4, <2>1, <3>1 DEF DownloadInStep
  <2>2. CASE ~(enabled /\ tx.skip = 0 /\ ~tx.need)
    BY <1>4, <2>2 DEF IInv, DownloadInStep
  <2> QED
    BY <2>1, <2>2
<1> QED
  BY <1>3, <1>6, <1>7, <1>8, <1>9 DEF IInv

\* CpStartDownload: a TP between frames takes the header of the download for one.
LEMMA StartInv == IInv /\ CpStartDownload => IInv'
<1> SUFFICES ASSUME IInv, CpStartDownload PROVE IInv'
  OBVIOUS
<1>1. CpOctet(HdrC0) /\ HdrC0 \in Octet
  BY DEF CpStartDownload, HdrC0, Octet
<1>2. /\ link' \in QuietLink
      /\ ~enabled => ~Calls(link') /\ tx' = tx
      /\ CsioOk(csio') /\ tx' \in Tx /\ hook' \in Hook
  BY <1>1, OctetTypes
<1>3. /\ UNCHANGED <<enabled, bootSent, wasReset>>
      /\ cp.up /\ cp.download = NoDownload
  BY DEF CpStartDownload
<1>4. PICK n \in {CfgLen, CfgLen - 1} :
          cp' = [cp EXCEPT !.download = [len |-> n, togo |-> n - 1, heard |-> enabled]]
  BY DEF CpStartDownload
<1>5. n \in 0 .. 126 /\ n - 1 \in 0 .. 125 /\ n - 1 \in 1 .. n - 1
  BY CfgLenAssumption
<1>6. cp \in [up : BOOLEAN, download : [len : 0 .. 126, togo : 0 .. 125, heard : BOOLEAN]]
  BY DEF IInv, TypeOK
<1>7. [len |-> n, togo |-> n - 1, heard |-> enabled]
         \in [len : 0 .. 126, togo : 0 .. 125, heard : BOOLEAN]
  BY <1>5 DEF IInv, TypeOK
<1>8. cp' \in [up : BOOLEAN, download : [len : 0 .. 126, togo : 0 .. 125, heard : BOOLEAN]]
  BY <1>4, <1>6, <1>7
<1>9. cp'.up = cp.up /\ cp'.download = [len |-> n, togo |-> n - 1, heard |-> enabled]
  BY <1>4, <1>6
<1>10. left' \in [commands : 0 .. MaxCommands, ui : 0 .. MaxUi, pulses : 0 .. MaxPulses]
  <2>1. left \in [commands : 0 .. MaxCommands, ui : 0 .. MaxUi, pulses : 0 .. MaxPulses]
    BY DEF IInv, TypeOK
  <2>2. left.commands - 1 \in 0 .. MaxCommands
    BY <2>1, BoundAssumption DEF CpStartDownload
  <2>3. left' = [left EXCEPT !.commands = @ - 1]
    BY DEF CpStartDownload
  <2> QED
    BY <2>1, <2>2, <2>3
<1>11. TypeOK'
  BY <1>2, <1>3, <1>8, <1>10, QuietIsLink DEF IInv, TypeOK, CsioOk, Hook
<1>12. cp'.download.len = n /\ cp'.download.togo = n - 1
  BY <1>9
<1>13. PlaceOk'
  BY <1>4, <1>5, <1>12 DEF PlaceOk
<1>14. BootFirst'
  BY <1>2, <1>3, <1>9 DEF IInv, BootFirst
<1>15. DownloadInStep'
  <2>1. CASE enabled /\ tx.skip = 0 /\ ~tx.need
    <3>1. tx' = [tx EXCEPT !.hdr = HdrC0, !.need = TRUE]
      BY <1>1, <2>1 DEF CpOctet, PayloadOctet, LengthOctet, HeaderOctet, CommandOctet, HdrC0
    <3>2. tx \in Tx
      BY DEF IInv, TypeOK
    <3>3. tx'.skip = 0 /\ tx'.need
      BY <2>1, <3>1, <3>2 DEF Tx
    <3>4. cp'.download # NoDownload
      BY <1>5, <1>12 DEF NoDownload
    <3> QED
      BY <1>12, <3>3, <3>4 DEF DownloadInStep
  <2>2. CASE ~(enabled /\ tx.skip = 0 /\ ~tx.need)
    BY <1>3, <2>2 DEF IInv, DownloadInStep
  <2> QED
    BY <2>1, <2>2
<1> QED
  BY <1>2, <1>11, <1>13, <1>14, <1>15 DEF IInv

LEMMA CountedType ==
    \A x \in Download, n \in 0 .. 125, b \in BOOLEAN :
        [x EXCEPT !.togo = n, !.heard = b] \in Download
<1> SUFFICES ASSUME NEW x \in Download, NEW n \in 0 .. 125, NEW b \in BOOLEAN
             PROVE  [x EXCEPT !.togo = n, !.heard = b] \in Download
  OBVIOUS
<1>1. [x EXCEPT !.togo = n] \in Download
  BY DEF Download
<1> QED
  BY <1>1, ZenonT(40) DEF Download

\* CpContinueDownload: the length sets the count the payload then runs down on both sides.
LEMMA ContinueInv == IInv /\ CpContinueDownload => IInv'
<1> SUFFICES ASSUME IInv, CpContinueDownload PROVE IInv'
  OBVIOUS
<1> DEFINE d == cp.download
           D == [len : 0 .. 126, togo : 0 .. 125, heard : BOOLEAN]
<1>1. /\ cp \in [up : BOOLEAN, download : D]
      /\ d \in D
      /\ d.togo > 0 /\ d # NoDownload
      /\ d.len \in {CfgLen, CfgLen - 1} /\ d.togo \in 1 .. d.len - 1
  <2>1. cp \in [up : BOOLEAN, download : D] /\ d \in D
    BY DEF IInv, TypeOK
  <2>2. d.togo > 0
    BY DEF CpContinueDownload
  <2>3. d # NoDownload
    BY <2>2 DEF NoDownload
  <2> QED
    BY <2>1, <2>2, <2>3 DEF IInv, PlaceOk
<1>2. PICK v \in Octet : CpOctet(v) /\ (d.togo = d.len - 1 => v = d.len)
  <2>1. d.len \in Octet
    BY <1>1 DEF Octet
  <2>2. CfgData \subseteq Octet
    BY OctetAssumption DEF Octet
  <2>3. CASE d.togo = d.len - 1
    BY <2>1, <2>3 DEF CpContinueDownload
  <2>4. CASE d.togo # d.len - 1
    BY <2>2, <2>4 DEF CpContinueDownload
  <2> QED
    BY <2>3, <2>4
<1>3. /\ link' \in QuietLink
      /\ ~enabled => ~Calls(link') /\ tx' = tx
      /\ CsioOk(csio') /\ tx' \in Tx /\ hook' \in Hook
  BY <1>2, OctetTypes
<1>4. UNCHANGED <<enabled, bootSent, wasReset, left>>
  BY DEF CpContinueDownload
<1> DEFINE e == IF d.togo = 1 THEN NoDownload
                ELSE [d EXCEPT !.togo = @ - 1, !.heard = @ /\ enabled]
<1>5. /\ cp' = [cp EXCEPT !.up = CpUpAfterClock, !.download = e]
      /\ CpUpAfterClock \in BOOLEAN
      /\ CpUpAfterClock => cp.up \/ Calls(link)
      /\ cp.up => CpUpAfterClock
  BY <1>1 DEF CpContinueDownload, CpUpAfterClock, Calls, Boot
<1>6. e \in D
  <2>1. NoDownload \in D
    BY DEF NoDownload
  <2>2. d.togo - 1 \in 0 .. 125
    BY <1>1
  <2>3. \A b \in BOOLEAN : [d EXCEPT !.togo = d.togo - 1, !.heard = b] \in D
    <3>1. D = Download
      BY DEF Download
    <3>2. d \in Download
      BY <1>1, <3>1
    <3> HIDE DEF d, D
    <3> QED
      BY <2>2, <3>1, <3>2, CountedType
  <2>4. CASE d.heard /\ enabled
    <3>1. [d EXCEPT !.togo = @ - 1, !.heard = @ /\ enabled] = [d EXCEPT !.togo = d.togo - 1, !.heard = TRUE]
      BY <1>1, <2>4
    <3>2. [d EXCEPT !.togo = d.togo - 1, !.heard = TRUE] \in D
      BY <2>3
    <3> QED
      BY <2>1, <3>1, <3>2, SMTT(40)
  <2>5. CASE ~(d.heard /\ enabled)
    <3>1. [d EXCEPT !.togo = @ - 1, !.heard = @ /\ enabled] = [d EXCEPT !.togo = d.togo - 1, !.heard = FALSE]
      BY <1>1, <2>5
    <3>2. [d EXCEPT !.togo = d.togo - 1, !.heard = FALSE] \in D
      BY <2>3
    <3> QED
      BY <2>1, <3>1, <3>2, SMTT(40)
  <2> QED
    BY <2>4, <2>5
<1>7. d.togo # 1 => e.len = d.len /\ e.togo = d.togo - 1
  BY <1>1
<1> HIDE DEF e
<1>8. cp' \in [up : BOOLEAN, download : D]
  BY <1>1, <1>5, <1>6, ZenonT(40)
<1>9. cp'.up = CpUpAfterClock /\ cp'.download = e
  BY <1>1, <1>5
<1>10. TypeOK'
  BY <1>3, <1>4, <1>8, QuietIsLink DEF IInv, TypeOK, CsioOk, Hook
<1>11. PlaceOk'
  <2>1. CASE d.togo = 1
    BY <1>9, <2>1 DEF PlaceOk, e
  <2>2. CASE d.togo # 1
    <3>1. d.togo - 1 \in 1 .. d.len - 1
      BY <1>1, <2>2, CfgLenAssumption
    <3> QED
      BY <1>1, <1>7, <1>9, <2>2, <3>1 DEF PlaceOk
  <2> QED
    BY <2>1, <2>2
<1>12. BootFirst'
  BY <1>1, <1>3, <1>4, <1>5, <1>9 DEF IInv, BootFirst
<1>13. DownloadInStep'
  <2>1. SUFFICES ASSUME enabled, ~wasReset PROVE DownloadInStep'
    BY <1>4 DEF DownloadInStep
  <2>2. cp.up
    BY <1>1, <2>1 DEF IInv, BootFirst
  <2>3. tx \in Tx
    BY DEF IInv, TypeOK
  <2>4. CASE d.togo = d.len - 1
    <3>1. tx.skip = 0 /\ tx.need
      BY <1>1, <2>1, <2>2, <2>4 DEF IInv, DownloadInStep
    <3>2. v = d.len /\ v \in 2 .. 126
      BY <1>1, <1>2, <2>4, CfgLenAssumption
    <3>3. LengthOctet(v)
      BY <1>2, <2>1, <3>1 DEF CpOctet, PayloadOctet, HeaderOctet, CommandOctet
    <3>4. CASE v = 2
      <4>1. e = NoDownload
        BY <2>4, <3>2, <3>4 DEF e
      <4>2. tx' = IdleTx
        BY <3>3, <3>4 DEF LengthOctet
      <4> QED
        BY <1>9, <4>1, <4>2 DEF DownloadInStep, IdleTx
    <3>5. CASE v # 2
      <4>1. tx' = [tx EXCEPT !.need = FALSE, !.declared = v, !.skip = v - 2]
        BY <3>2, <3>3, <3>5 DEF LengthOctet
      <4>2. tx'.skip = v - 2 /\ tx'.declared = v
        BY <2>3, <4>1 DEF Tx
      <4>3. e.len = v /\ e.togo = v - 2 /\ v - 2 # v - 1 /\ v - 2 # 0
        BY <1>7, <2>4, <3>2, <3>5
      <4>4. e # NoDownload
        BY <4>3 DEF NoDownload
      <4> QED
        BY <1>9, <3>2, <4>2, <4>3, <4>4 DEF DownloadInStep
    <3> QED
      BY <3>4, <3>5
  <2>5. CASE d.togo # d.len - 1
    <3>1. tx.skip = d.togo /\ tx.declared = d.len
      BY <1>1, <2>1, <2>2, <2>5 DEF IInv, DownloadInStep
    <3>2. tx' = IF tx.skip = 1 THEN IdleTx ELSE [tx EXCEPT !.skip = @ - 1]
      BY <1>1, <1>2, <2>1, <3>1 DEF CpOctet, PayloadOctet, LengthOctet, HeaderOctet, CommandOctet
    <3>3. CASE d.togo = 1
      BY <1>9, <3>1, <3>2, <3>3 DEF e, DownloadInStep, IdleTx
    <3>4. CASE d.togo # 1
      <4>1. tx'.skip = d.togo - 1 /\ tx'.declared = d.len
        BY <2>3, <3>1, <3>2, <3>4 DEF Tx
      <4>2. e.len = d.len /\ e.togo = d.togo - 1 /\ d.togo - 1 # d.len - 1 /\ d.togo - 1 # 0
        BY <1>1, <1>7, <3>4, CfgLenAssumption
      <4>3. e # NoDownload
        <5>1. e.togo # NoDownload.togo
          BY <4>2 DEF NoDownload
        <5> QED
          BY <5>1
      <4> QED
        BY <1>9, <4>1, <4>2, <4>3 DEF DownloadInStep
    <3> QED
      BY <3>3, <3>4
  <2> QED
    BY <2>4, <2>5
<1> QED
  BY <1>3, <1>10, <1>11, <1>12, <1>13 DEF IInv

\* HOST_POLL: only the enable ladder lets a boot code onto the link, and only a reset under way
\* takes the link away again.
LEMMA HostPollInv ==
    ASSUME IInv, NEW due \in SUBSET Due, NEW u, HostPoll(due, u),
           left' \in [commands : 0 .. MaxCommands, ui : 0 .. MaxUi, pulses : 0 .. MaxPulses]
    PROVE  IInv'
<1> DEFINE en     == enabled \/ "enable" \in due
           l1     == BootStep(link, en)
           keep   == KeepaliveRuns(l1, en, due)
           l2     == IF keep THEN KeepaliveStep(l1) ELSE l1
           h      == IF "hook" \in due THEN [hook EXCEPT !.stable = hook.now] ELSE hook
           wait   == csio.waitC4 /\ ~keep
           missed == wait /\ csio.seen \cap {"error", "status"} # {} /\ "miss" \in due
           reset  == missed /\ ~csio.contract /\ "reset" \in due
           ui     == UiReport(u, l2, h)
<1>1. /\ link' = ui[1]
      /\ hook' = ui[2]
      /\ csio' = [csio EXCEPT !.waitC4 = wait /\ ~missed]
      /\ enabled' = (en /\ ~reset)
      /\ bootSent' = ((bootSent \/ l1 # link) /\ ~reset)
      /\ wasReset' = (wasReset \/ reset)
      /\ UNCHANGED <<tx, cp>>
  BY DEF HostPoll
<1>2. /\ link \in QuietLink /\ CsioOk(csio)
      /\ hook \in Hook
      /\ enabled \in BOOLEAN /\ bootSent \in BOOLEAN /\ wasReset \in BOOLEAN
  BY DEF IInv, TypeOK, Hook
<1>3. l1 \in QuietLink /\ (Calls(l1) => Calls(link) \/ en)
  <2>1. en \in BOOLEAN
    BY <1>2
  <2> QED
    BY <1>2, <2>1, BootStepQuiet
<1>4. l2 \in QuietLink /\ (Calls(l2) => Calls(l1))
  <2> HIDE DEF l1, keep
  <2> QED
    BY <1>3, KeepaliveQuiet
<1>5. h \in Hook
  BY <1>2 DEF Hook
<1>6. ui[1] \in QuietLink /\ (Calls(ui[1]) => Calls(l2)) /\ ui[2] \in Hook
  <2> HIDE DEF l2, h
  <2> QED
    BY <1>4, <1>5, UiQuiet
<1> HIDE DEF l1, l2, h, ui, keep
<1>7. CsioOk(csio')
  <2>1. \A b \in BOOLEAN : CsioOk([csio EXCEPT !.waitC4 = b])
    BY <1>2 DEF CsioOk, Csio
  <2>2. (wait /\ ~missed) \in BOOLEAN
    OBVIOUS
  <2> HIDE DEF wait, missed
  <2> QED
    BY <1>1, <2>1, <2>2
<1>8. /\ enabled' \in BOOLEAN
      /\ bootSent' \in BOOLEAN
      /\ wasReset' \in BOOLEAN
  BY <1>1, <1>2
<1>9. ~wasReset' => ~wasReset /\ enabled' = en
  BY <1>1, <1>2
<1>10. enabled' => en
  BY <1>1
<1> HIDE DEF reset, missed, wait
<1>11. TypeOK'
  BY <1>1, <1>6, <1>7, <1>8, QuietIsLink DEF IInv, TypeOK, CsioOk, Hook
<1>12. PlaceOk'
  BY <1>1 DEF IInv, PlaceOk
<1>13. BootFirst'
  <2> SUFFICES ASSUME ~wasReset'
               PROVE  /\ cp'.up => enabled'
                      /\ ~cp'.up => tx' = IdleTx /\ cp'.download = NoDownload
                      /\ ~enabled' => ~Calls(link')
    BY DEF BootFirst
  <2>1. /\ cp.up => enabled
        /\ ~cp.up => tx = IdleTx /\ cp.download = NoDownload
        /\ ~enabled => ~Calls(link)
    BY <1>9 DEF IInv, BootFirst
  <2>2. enabled => enabled'
    BY <1>9
  <2>3. ~enabled' => ~Calls(link')
    BY <1>1, <1>3, <1>4, <1>6, <1>9, <2>1
  <2> QED
    BY <1>1, <2>1, <2>2, <2>3
<1>14. DownloadInStep'
  <2>1. SUFFICES ASSUME cp.up, ~wasReset' PROVE DownloadInStep'
    BY <1>1 DEF DownloadInStep
  <2>2. enabled /\ ~wasReset
    BY <1>9, <2>1 DEF IInv, BootFirst
  <2> QED
    BY <1>1, <2>1, <2>2 DEF IInv, DownloadInStep
<1> QED
  BY <1>1, <1>6, <1>7, <1>11, <1>12, <1>13, <1>14 DEF IInv

LEMMA PollInv == IInv /\ Poll => IInv'
<1> SUFFICES ASSUME IInv, Poll PROVE IInv'
  OBVIOUS
<1>1. PICK due \in SUBSET Due : HostPoll(due, "none")
  BY DEF Poll
<1>2. left' \in [commands : 0 .. MaxCommands, ui : 0 .. MaxUi, pulses : 0 .. MaxPulses]
  BY DEF Poll, IInv, TypeOK
<1> QED
  BY <1>1, <1>2, HostPollInv

LEMMA UiInv == IInv /\ PollWithUi => IInv'
<1> SUFFICES ASSUME IInv, PollWithUi PROVE IInv'
  OBVIOUS
<1>1. PICK u \in {"key", IF hook.now THEN "off-hook" ELSE "on-hook"} : HostPoll({}, u)
  BY DEF PollWithUi
<1>2. left' \in [commands : 0 .. MaxCommands, ui : 0 .. MaxUi, pulses : 0 .. MaxPulses]
  <2>1. left \in [commands : 0 .. MaxCommands, ui : 0 .. MaxUi, pulses : 0 .. MaxPulses]
    BY DEF IInv, TypeOK
  <2>2. left.ui - 1 \in 0 .. MaxUi
    BY <2>1, BoundAssumption DEF PollWithUi
  <2>3. left' = [left EXCEPT !.ui = @ - 1]
    BY DEF PollWithUi
  <2> QED
    BY <2>1, <2>2, <2>3
<1>3. {} \in SUBSET Due
  OBVIOUS
<1> QED
  BY <1>1, <1>2, <1>3, HostPollInv

\* A pulse of PWR_FAIL leaves queues and parsers as they were: a reset under way.
LEMMA PulseInv == IInv /\ PwrFailPulse => IInv'
<1> SUFFICES ASSUME IInv, PwrFailPulse PROVE IInv'
  OBVIOUS
<1>1. left' \in [commands : 0 .. MaxCommands, ui : 0 .. MaxUi, pulses : 0 .. MaxPulses]
  <2>1. left \in [commands : 0 .. MaxCommands, ui : 0 .. MaxUi, pulses : 0 .. MaxPulses]
    BY DEF IInv, TypeOK
  <2>2. left.pulses - 1 \in 0 .. MaxPulses
    BY <2>1, BoundAssumption DEF PwrFailPulse
  <2>3. left' = [left EXCEPT !.pulses = @ - 1]
    BY DEF PwrFailPulse
  <2> QED
    BY <2>1, <2>2, <2>3
<1>2. cp' \in [up : BOOLEAN, download : [len : 0 .. 126, togo : 0 .. 125, heard : BOOLEAN]]
  BY DEF PwrFailPulse, NoDownload
<1>3. wasReset' /\ cp'.download = NoDownload
  BY DEF PwrFailPulse
<1>4. TypeOK'
  BY <1>1, <1>2 DEF PwrFailPulse, IInv, TypeOK
<1> QED
  BY <1>3, <1>4 DEF PwrFailPulse, IInv, PlaceOk, BootFirst, DownloadInStep

LEMMA StepInv == IInv /\ [Next]_vars => IInv'
<1> SUFFICES ASSUME IInv, [Next]_vars PROVE IInv'
  OBVIOUS
<1>1. CASE CpReceive
  BY <1>1, ReceiveInv
<1>2. CASE CpCommand
  BY <1>2, CommandInv
<1>3. CASE CpStartDownload
  BY <1>3, StartInv
<1>4. CASE CpContinueDownload
  BY <1>4, ContinueInv
<1>5. CASE Poll
  BY <1>5, PollInv
<1>6. CASE PollWithUi
  BY <1>6, UiInv
<1>7. CASE PwrFailPulse
  BY <1>7, PulseInv
<1>8. CASE UNCHANGED vars
  BY <1>8 DEF vars, IInv, TypeOK, PlaceOk, BootFirst, DownloadInStep
<1> QED
  BY <1>1, <1>2, <1>3, <1>4, <1>5, <1>6, <1>7, <1>8 DEF Next

-------------------------------------------------------------------------------

\* Link, parsers, hook and the firmware's place in a download keep their ranges; the TP's skip
\* counter stays within a frame, whatever the CP sends and however often the TP is reset.
THEOREM LinkTypesCorrect == Spec => []TypeOK
<1>1. IInv => TypeOK
  BY DEF IInv
<1> QED
  BY <1>1, InitInv, StepInv, PTL DEF Spec

\* Until the TP is reset under a conversation it reads the octets of a download where the CP is
\* sending them from, for every length of the firmware's download.
THEOREM DownloadStaysInStep == Spec => []DownloadInStep
<1>1. IInv => DownloadInStep
  BY DEF IInv
<1> QED
  BY <1>1, InitInv, StepInv, PTL DEF Spec

LEMMA JoinedBytes ==
    \A a, b, c \in Seq(Byte) : (a \o b) \o c = a \o (b \o c)
<1> SUFFICES ASSUME NEW a \in Seq(Byte), NEW b \in Seq(Byte), NEW c \in Seq(Byte)
             PROVE  (a \o b) \o c = a \o (b \o c)
  OBVIOUS
<1> DEFINE x == (a \o b) \o c
           y == a \o (b \o c)
<1>1. x \in Seq(Byte) /\ y \in Seq(Byte) /\ Len(x) = Len(y)
  OBVIOUS
<1>2. \A i \in 1 .. Len(x) : x[i] = y[i]
  OBVIOUS
<1> HIDE DEF x, y
<1>3. x = y
  BY <1>1, <1>2, SMTT(40)
<1> QED
  BY <1>3 DEF x, y

\* Queues without a boot code leave one place for it, the register.
LEMMA OnePlace == IInv => BootCodeOnce
<1> SUFFICES ASSUME IInv PROVE BootCodeOnce
  OBVIOUS
<1> DEFINE q == link.prio \o link.norm
           s == Stream(link)
           at == {i \in 1 .. Len(s) : s[i].value \in {BootOn, BootOff} /\ s[i].role = "single"}
<1>1. link.prio \in Seq(Mute) /\ link.norm \in Seq(Mute)
  BY QuietFields DEF IInv
<1>2. q \in Seq(Mute) /\ (\A i \in 1 .. Len(q) : q[i] \in Mute)
  <2>1. q \in Seq(Mute)
    BY <1>1
  <2> HIDE DEF q
  <2> QED
    BY <2>1
<1>3. \A i \in 1 .. Len(q) : q[i].value \notin {BootOn, BootOff}
  BY <1>2 DEF Mute, Boot
<1>4. s = (IF link.shift = NoByte THEN <<>> ELSE <<link.shift>>) \o q
  <2> DEFINE r == IF link.shift = NoByte THEN <<>> ELSE <<link.shift>>
  <2>1. r \in Seq(Byte)
    BY QuietFields DEF IInv
  <2>2. link.prio \in Seq(Byte) /\ link.norm \in Seq(Byte)
    BY <1>1, MuteByte
  <2>3. s = (r \o link.prio) \o link.norm
    BY DEF Stream
  <2> HIDE DEF r
  <2>4. (r \o link.prio) \o link.norm = r \o (link.prio \o link.norm)
    BY <2>1, <2>2, JoinedBytes
  <2> QED
    BY <2>3, <2>4 DEF r
<1> HIDE DEF q
<1>5. at \subseteq {1}
  <2>1. CASE link.shift = NoByte
    <3>1. s = q
      BY <1>2, <1>4, <2>1
    <3> QED
      BY <1>3, <3>1
  <2>2. CASE link.shift # NoByte
    <3>1. s = <<link.shift>> \o q
      BY <1>4, <2>2
    <3>2. \A i \in 1 .. Len(s) : i # 1 => i - 1 \in 1 .. Len(q) /\ s[i] = q[i - 1]
      BY <1>2, <3>1
    <3> HIDE DEF s
    <3> QED
      BY <1>3, <3>2
  <2> QED
    BY <2>1, <2>2
<1>6. IsFiniteSet({1}) /\ Cardinality({1}) = 1
  BY FS_Singleton
<1>7. Cardinality(at) <= 1
  BY <1>5, <1>6, FS_Subset
<1> QED
  BY <1>7 DEF BootCodeOnce

\* However often the TP is reset and the link enabled again, at most one boot code waits for the CP.
THEOREM OneBootCode == Spec => []BootCodeOnce
  BY InitInv, StepInv, OnePlace, PTL DEF Spec

-------------------------------------------------------------------------------
(***************************************************************************)
(* No reply lands inside another frame, as long as the CP does not ask for *)
(* the version.  What waits behind the register is cut into whole frames   *)
(* and single octets: every octet can be marked with the number of octets  *)
(* of its frame that follow it, and the CP's parser has the mark of the    *)
(* octet in the register.  The normal queue holds single octets only,      *)
(* since the version report is the one frame that is queued there.         *)
(***************************************************************************)

Lone == {b \in Mute : b.role = "single" /\ b.value < HdrC0}

Marked(s, g) ==
    \A i \in 1 .. Len(s) :
        /\ s[i].role \in {"single", "check"} <=> g[i] = 0
        /\ s[i].role = "single" => s[i].value < HdrC0
        /\ s[i].role = "header" => s[i].value >= HdrC0
        /\ s[i].role = "length" => s[i].value = g[i] + 2
        /\ g[i] # 0 => /\ i < Len(s)
                       /\ g[i + 1] = g[i] - 1
                       /\ s[i + 1].role \in {"length", "data", "check"}
                       /\ s[i + 1].role = "length" <=> s[i].role = "header"
        /\ g[i] = 0 /\ i < Len(s) => s[i + 1].role \in {"single", "header"}

Marks(s) == {g \in [1 .. Len(s) -> Nat] : Marked(s, g)}

\* Whole frames and single octets.
Block(s) == /\ s \in Seq(Byte) /\ s # <<>>
            /\ s[1].role \in {"single", "header"}
            /\ Marks(s) # {}

\* The parser before octet b, which k octets of its frame follow.
InPhase(c, b, k) ==
    /\ c.inFrame <=> b.role \in {"length", "data", "check"}
    /\ b.role = "length" => c.len = 0
    /\ b.role \in {"data", "check"} => c.len # 0 /\ c.remaining = k + 1

Sound(l, c) ==
    /\ l.norm \in Seq(Lone)
    /\ IF l.shift = NoByte THEN l.prio = <<>> /\ l.norm = <<>> /\ ~c.inFrame
       ELSE \E g \in Marks(<<l.shift>> \o l.prio) : InPhase(c, l.shift, g[1])

\* A block behind octets already marked.
LEMMA MarksJoin ==
    ASSUME NEW s \in Seq(Byte), s # <<>>, NEW g \in Marks(s), NEW t, Block(t)
    PROVE  \E k \in Marks(s \o t) : k[1] = g[1]
<1>1. t \in Seq(Byte) /\ t # <<>> /\ t[1].role \in {"single", "header"}
  BY DEF Block
<1>2. PICK h \in Marks(t) : TRUE
  BY DEF Block
<1> DEFINE m == Len(s)
           n == Len(t)
           k == [i \in 1 .. m + n |-> IF i <= m THEN g[i] ELSE h[i - m]]
           u == s \o t
<1>3. m \in Nat \ {0} /\ n \in Nat \ {0}
  BY <1>1
<1>4. /\ g \in [1 .. m -> Nat] /\ Marked(s, g)
      /\ h \in [1 .. n -> Nat] /\ Marked(t, h)
  BY <1>2 DEF Marks
<1>5. /\ u \in Seq(Byte) /\ Len(u) = m + n
      /\ \A i \in 1 .. m : u[i] = s[i]
      /\ \A i \in m + 1 .. m + n : u[i] = t[i - m]
  BY <1>1
<1> HIDE DEF u
<1> HIDE DEF m, n
<1>6. k \in [1 .. m + n -> Nat]
  BY <1>3, <1>4
<1>7. /\ \A i \in 1 .. m : k[i] = g[i]
      /\ \A i \in m + 1 .. m + n : k[i] = h[i - m]
  BY <1>3, <1>4
<1> HIDE DEF k
<1>8. ASSUME NEW i \in 1 .. m + n
      PROVE  /\ u[i].role \in {"single", "check"} <=> k[i] = 0
             /\ u[i].role = "single" => u[i].value < HdrC0
             /\ u[i].role = "header" => u[i].value >= HdrC0
             /\ u[i].role = "length" => u[i].value = k[i] + 2
             /\ k[i] # 0 => /\ i < m + n
                            /\ k[i + 1] = k[i] - 1
                            /\ u[i + 1].role \in {"length", "data", "check"}
                            /\ u[i + 1].role = "length" <=> u[i].role = "header"
             /\ k[i] = 0 /\ i < m + n => u[i + 1].role \in {"single", "header"}
  <2>1. CASE i < m
    <3>1. /\ i \in 1 .. m /\ i + 1 \in 1 .. m
          /\ u[i] = s[i] /\ u[i + 1] = s[i + 1] /\ k[i] = g[i] /\ k[i + 1] = g[i + 1]
      BY <1>3, <1>5, <1>7, <2>1
    <3> QED
      BY <1>3, <1>4, <2>1, <3>1 DEF Marked, m
  <2>2. CASE i = m
    <3>1. /\ u[i] = s[m] /\ k[i] = g[m] /\ u[i + 1] = t[1] /\ m \in 1 .. m
      BY <1>3, <1>5, <1>7, <2>2, SMTT(40)
    <3>2. g[m] = 0
      BY <1>3, <1>4, <3>1 DEF Marked, m
    <3> QED
      BY <1>1, <1>3, <1>4, <2>2, <3>1, <3>2 DEF Marked, m
  <2>3. CASE i > m
    <3>1. /\ i - m \in 1 .. n /\ u[i] = t[i - m] /\ k[i] = h[i - m]
      BY <1>3, <1>5, <1>7, <2>3
    <3>2. i < m + n => i - m < n /\ u[i + 1] = t[(i - m) + 1] /\ k[i + 1] = h[(i - m) + 1]
      BY <1>3, <1>5, <1>7, <2>3
    <3>3. i < m + n <=> i - m < n
      BY <1>3
    <3> HIDE DEF u
    <3> QED
      BY <1>3, <1>4, <2>3, <3>1, <3>2, <3>3, SMTT(40) DEF Marked, n
  <2> QED
    BY <1>3, <2>1, <2>2, <2>3
<1>9. k \in Marks(u) /\ k[1] = g[1]
  BY <1>3, <1>5, <1>6, <1>7, <1>8 DEF Marks, Marked
<1> QED
  BY <1>9 DEF u

\* The octets behind the first keep their marks.
LEMMA MarksTail ==
    ASSUME NEW b \in Byte, NEW s \in Seq(Byte), s # <<>>, NEW g \in Marks(<<b>> \o s)
    PROVE  \E k \in Marks(s) : k[1] = g[2]
<1> DEFINE m == Len(s)
           u == <<b>> \o s
           k == [i \in 1 .. m |-> g[i + 1]]
<1>1. m \in Nat \ {0}
  OBVIOUS
<1>2. Len(u) = m + 1 /\ \A i \in 1 .. m : u[i + 1] = s[i]
  OBVIOUS
<1>3. g \in [1 .. m + 1 -> Nat] /\ Marked(u, g)
  BY <1>2 DEF Marks
<1> HIDE DEF u, m
<1>4. k \in [1 .. m -> Nat] /\ \A i \in 1 .. m : k[i] = g[i + 1]
  BY <1>1, <1>3
<1> HIDE DEF k
<1>5. ASSUME NEW i \in 1 .. m
      PROVE  /\ s[i].role \in {"single", "check"} <=> k[i] = 0
             /\ s[i].role = "single" => s[i].value < HdrC0
             /\ s[i].role = "header" => s[i].value >= HdrC0
             /\ s[i].role = "length" => s[i].value = k[i] + 2
             /\ k[i] # 0 => /\ i < m
                            /\ k[i + 1] = k[i] - 1
                            /\ s[i + 1].role \in {"length", "data", "check"}
                            /\ s[i + 1].role = "length" <=> s[i].role = "header"
             /\ k[i] = 0 /\ i < m => s[i + 1].role \in {"single", "header"}
  <2>1. i + 1 \in 1 .. Len(u) /\ u[i + 1] = s[i] /\ k[i] = g[i + 1]
    BY <1>1, <1>2, <1>4
  <2>2. i < m => u[(i + 1) + 1] = s[i + 1] /\ k[i + 1] = g[(i + 1) + 1]
    BY <1>1, <1>2, <1>4
  <2>3. i < m <=> i + 1 < Len(u)
    BY <1>1, <1>2
  <2> QED
    BY <1>3, <2>1, <2>2, <2>3 DEF Marked
<1>6. k \in Marks(s) /\ k[1] = g[2]
  BY <1>1, <1>4, <1>5 DEF Marks, Marked, m
<1> QED
  BY <1>6

LEMMA SingleBlock ==
    \A b \in Byte : b.role = "single" /\ b.value < HdrC0
                       => Block(<<b>>) /\ \E g \in Marks(<<b>>) : g[1] = 0
<1> SUFFICES ASSUME NEW b \in Byte, b.role = "single", b.value < HdrC0
             PROVE  Block(<<b>>) /\ \E g \in Marks(<<b>>) : g[1] = 0
  OBVIOUS
<1> DEFINE g == [i \in 1 .. 1 |-> 0]
<1>2. g \in [1 .. 1 -> Nat] /\ g[1] = 0
  OBVIOUS
<1> HIDE DEF g
<1>3. g \in Marks(<<b>>)
  BY <1>2 DEF Marks, Marked
<1> QED
  BY <1>2, <1>3 DEF Block

\* The status and the error report are marked by the octets left to send.
LEMMA FrameBlock ==
    ASSUME NEW h \in {192, 196}, NEW n \in {4, 8}
    PROVE  Block(Frame(h, n))
<1> DEFINE f == Frame(h, n)
           zero == [value |-> 0, role |-> "data"]
           last == [value |-> (h + n) % 256, role |-> "check"]
           body == [i \in 1 .. n - 3 |-> zero]
           head == <<[value |-> h, role |-> "header"], [value |-> n, role |-> "length"]>>
           g == [i \in 1 .. n |-> n - i]
<1>1. f = head \o body \o <<last>>
  BY DEF Frame
<1>2. n \in Nat /\ n - 3 \in Nat /\ n >= 4
  OBVIOUS
<1>3. Len(body) = n - 3 /\ body \in Seq({zero})
  BY <1>2
<1>4. f \in Seq(Byte)
  BY FrameMute, MuteByte
<1>5. Len(f) = n
  BY <1>1, <1>2, <1>3
<1>6. f[1] = [value |-> h, role |-> "header"] /\ f[2] = [value |-> n, role |-> "length"]
  BY <1>1, <1>2, <1>3
<1>7. \A i \in 3 .. n - 1 : f[i] = zero
  BY <1>1, <1>2, <1>3
<1>8. f[n] = last
  BY <1>1, <1>2, <1>3
<1> HIDE DEF f, zero, last, body, head
<1>9. g \in [1 .. n -> Nat] /\ \A i \in 1 .. n : g[i] = n - i
  BY <1>2
<1> HIDE DEF g
<1>10. /\ f[1].role = "header" /\ f[1].value = h
       /\ f[2].role = "length" /\ f[2].value = n
       /\ \A i \in 3 .. n - 1 : f[i].role = "data"
       /\ f[n].role = "check"
  BY <1>6, <1>7, <1>8 DEF zero, last
<1>11. ASSUME NEW i \in 1 .. n
       PROVE  /\ f[i].role \in {"single", "check"} <=> g[i] = 0
              /\ f[i].role = "single" => f[i].value < HdrC0
              /\ f[i].role = "header" => f[i].value >= HdrC0
              /\ f[i].role = "length" => f[i].value = g[i] + 2
              /\ g[i] # 0 => /\ i < n
                             /\ g[i + 1] = g[i] - 1
                             /\ f[i + 1].role \in {"length", "data", "check"}
                             /\ f[i + 1].role = "length" <=> f[i].role = "header"
              /\ g[i] = 0 /\ i < n => f[i + 1].role \in {"single", "header"}
  <2>1. CASE i = 1
    BY <1>2, <1>9, <1>10, <2>1 DEF HdrC0
  <2>2. CASE i = 2
    BY <1>2, <1>9, <1>10, <2>2 DEF HdrC0
  <2>3. CASE i \in 3 .. n - 1
    BY <1>2, <1>9, <1>10, <2>3 DEF HdrC0
  <2>4. CASE i = n
    BY <1>2, <1>9, <1>10, <2>4 DEF HdrC0
  <2> QED
    BY <1>2, <2>1, <2>2, <2>3, <2>4
<1>12. g \in Marks(f)
  BY <1>5, <1>9, <1>11 DEF Marks, Marked
<1> QED
  BY <1>2, <1>4, <1>5, <1>10, <1>12 DEF Block, f

LEMMA ReportBlocks ==
    /\ Block(ErrorReport) /\ Block(StatusReport)
    /\ Block(ErrorReport \o StatusReport)
<1>1. Block(ErrorReport) /\ Block(StatusReport)
  BY FrameBlock DEF ErrorReport, StatusReport, HdrC0, HdrC4
<1>2. PICK g \in Marks(ErrorReport) : TRUE
  BY <1>1 DEF Block
<1>3. /\ ErrorReport \in Seq(Byte) /\ ErrorReport # <<>>
      /\ StatusReport \in Seq(Byte) /\ StatusReport # <<>>
      /\ ErrorReport[1].role \in {"single", "header"}
  BY <1>1 DEF Block
<1>4. Marks(ErrorReport \o StatusReport) # {}
  BY <1>1, <1>3, MarksJoin
<1>5. /\ ErrorReport \o StatusReport \in Seq(Byte)
      /\ ErrorReport \o StatusReport # <<>>
      /\ (ErrorReport \o StatusReport)[1] = ErrorReport[1]
  BY <1>3
<1> QED
  BY <1>1, <1>3, <1>4, <1>5 DEF Block

\* What queueing does to an occupied link and to an idle one.
LEMMA QueueEffect ==
    ASSUME NEW l \in Link, NEW bs \in Seq(Byte), bs # <<>>
    PROVE  /\ l.shift # NoByte =>
                 /\ QueuePrio(l, bs) = [l EXCEPT !.prio = l.prio \o bs]
                 /\ QueueNorm(l, bs) = [l EXCEPT !.norm = l.norm \o bs]
           /\ Empty(l) =>
                 /\ QueuePrio(l, bs).shift = Head(bs)
                 /\ QueuePrio(l, bs).prio = Tail(bs)
                 /\ QueuePrio(l, bs).norm = <<>>
                 /\ QueueNorm(l, bs).shift = Head(bs)
                 /\ QueueNorm(l, bs).norm = Tail(bs)
                 /\ QueueNorm(l, bs).prio = <<>>
<1> DEFINE p == [l EXCEPT !.prio = @ \o bs]
           n == [l EXCEPT !.norm = @ \o bs]
<1>1. l.prio \in Seq(Byte) /\ l.norm \in Seq(Byte)
  BY DEF Link
<1>2. l.prio \o bs \in Seq(Byte) /\ l.norm \o bs \in Seq(Byte)
  BY <1>1
<1>3. p \in Link /\ n \in Link
  BY <1>2 DEF Link
<1>4. /\ p.shift = l.shift /\ p.prio = l.prio \o bs /\ p.norm = l.norm
      /\ n.shift = l.shift /\ n.prio = l.prio /\ n.norm = l.norm \o bs
  BY DEF Link
<1>5. QueuePrio(l, bs) = Prime(p) /\ QueueNorm(l, bs) = Prime(n)
  BY DEF QueuePrio, QueueNorm
<1> HIDE DEF p, n
<1>6. CASE l.shift # NoByte
  BY <1>4, <1>5, <1>6 DEF Prime, Empty, p, n
<1>7. CASE Empty(l)
  <2>1. /\ l.shift = NoByte /\ l.prio = <<>> /\ l.norm = <<>>
        /\ p.shift = NoByte /\ p.prio = bs /\ p.norm = <<>>
        /\ n.shift = NoByte /\ n.prio = <<>> /\ n.norm = bs
    <3>1. /\ l.shift = NoByte /\ l.prio = <<>> /\ l.norm = <<>>
      BY <1>7 DEF Empty
    <3>2. <<>> \o bs = bs
      OBVIOUS
    <3> QED
      BY <1>4, <3>1, <3>2
  <2>2. Prime(p) = [Loaded(p, Head(bs)) EXCEPT !.prio = Tail(@)]
    BY <2>1 DEF Prime
  <2>3. Prime(n) = [Loaded(n, Head(bs)) EXCEPT !.norm = Tail(@)]
    BY <2>1 DEF Prime
  <2>4. Head(bs) \in Byte /\ Tail(bs) \in Seq(Byte)
    OBVIOUS
  <2>5. /\ Prime(p).shift = Head(bs) /\ Prime(p).prio = Tail(bs) /\ Prime(p).norm = <<>>
    BY <1>3, <2>1, <2>2, <2>4 DEF Loaded, Link
  <2>6. /\ Prime(n).shift = Head(bs) /\ Prime(n).norm = Tail(bs) /\ Prime(n).prio = <<>>
    BY <1>3, <2>1, <2>3, <2>4 DEF Loaded, Link
  <2> QED
    BY <1>5, <2>1, <2>5, <2>6
<1> QED
  BY <1>6, <1>7

\* A frame or an octet in the priority queue lands behind whole frames.
LEMMA PrioSound ==
    ASSUME NEW l \in Link, NEW c, Sound(l, c), NEW bs, Block(bs)
    PROVE  Sound(QueuePrio(l, bs), c)
<1>1. bs \in Seq(Byte) /\ bs # <<>> /\ bs[1].role \in {"single", "header"}
  BY DEF Block
<1>2. l.prio \in Seq(Byte) /\ l.shift \in Byte \cup {NoByte}
  BY DEF Link
<1>3. CASE l.shift # NoByte
  <2>1. QueuePrio(l, bs) = [l EXCEPT !.prio = l.prio \o bs]
    BY <1>1, <1>3, QueueEffect
  <2>2. /\ QueuePrio(l, bs).shift = l.shift
        /\ QueuePrio(l, bs).prio = l.prio \o bs
        /\ QueuePrio(l, bs).norm = l.norm
    BY <2>1 DEF Link
  <2>3. PICK g \in Marks(<<l.shift>> \o l.prio) : InPhase(c, l.shift, g[1])
    BY <1>3 DEF Sound
  <2>4. <<l.shift>> \o l.prio \in Seq(Byte) /\ <<l.shift>> \o l.prio # <<>>
    BY <1>2, <1>3
  <2>5. PICK k \in Marks((<<l.shift>> \o l.prio) \o bs) : k[1] = g[1]
    BY <2>4, MarksJoin
  <2>6. (<<l.shift>> \o l.prio) \o bs = <<l.shift>> \o (l.prio \o bs)
    <3>1. <<l.shift>> \in Seq(Byte)
      BY <1>2, <1>3
    <3> QED
      BY <1>1, <1>2, <3>1, JoinedBytes
  <2> QED
    BY <1>3, <2>2, <2>3, <2>5, <2>6 DEF Sound
<1>4. CASE l.shift = NoByte
  <2>1. Empty(l) /\ ~c.inFrame
    BY <1>4 DEF Sound, Empty
  <2>2. /\ QueuePrio(l, bs).shift = Head(bs)
        /\ QueuePrio(l, bs).prio = Tail(bs)
        /\ QueuePrio(l, bs).norm = <<>>
    BY <1>1, <2>1, QueueEffect
  <2>3. <<Head(bs)>> \o Tail(bs) = bs /\ Head(bs) = bs[1] /\ Head(bs) \in Byte
    BY <1>1
  <2>4. Head(bs) # NoByte
    BY <2>3 DEF Byte, NoByte, Role
  <2>5. PICK g \in Marks(bs) : TRUE
    BY DEF Block
  <2>6. InPhase(c, Head(bs), g[1])
    BY <1>1, <2>1, <2>3 DEF InPhase
  <2>7. <<>> \in Seq(Lone)
    OBVIOUS
  <2> QED
    BY <2>2, <2>3, <2>4, <2>5, <2>6, <2>7 DEF Sound
<1> QED
  BY <1>3, <1>4

\* Single octets in the normal queue wait until no frame is under way.
LEMMA NormSound ==
    ASSUME NEW l \in Link, NEW c, Sound(l, c), NEW bs \in Seq(Lone), bs # <<>>
    PROVE  Sound(QueueNorm(l, bs), c)
<1>1. bs \in Seq(Byte) /\ Head(bs) \in Lone /\ Tail(bs) \in Seq(Lone)
  <2>1. Lone \subseteq Byte
    BY DEF Lone, Mute
  <2> QED
    BY <2>1
<1>2. CASE l.shift # NoByte
  <2>1. QueueNorm(l, bs) = [l EXCEPT !.norm = l.norm \o bs]
    BY <1>1, <1>2, QueueEffect
  <2>2. /\ QueueNorm(l, bs).shift = l.shift
        /\ QueueNorm(l, bs).prio = l.prio
        /\ QueueNorm(l, bs).norm = l.norm \o bs
    BY <2>1 DEF Link
  <2>3. l.norm \o bs \in Seq(Lone)
    BY DEF Sound
  <2> QED
    BY <1>2, <2>2, <2>3 DEF Sound
<1>3. CASE l.shift = NoByte
  <2>1. Empty(l) /\ ~c.inFrame
    BY <1>3 DEF Sound, Empty
  <2>2. /\ QueueNorm(l, bs).shift = Head(bs)
        /\ QueueNorm(l, bs).norm = Tail(bs)
        /\ QueueNorm(l, bs).prio = <<>>
    BY <1>1, <2>1, QueueEffect
  <2>3. Head(bs) \in Byte /\ Head(bs).role = "single" /\ Head(bs).value < HdrC0 /\ Head(bs) # NoByte
    BY <1>1 DEF Lone, Mute, Byte, NoByte, Role
  <2>4. PICK g \in Marks(<<Head(bs)>>) : g[1] = 0
    BY <2>3, SingleBlock
  <2>5. <<Head(bs)>> \o <<>> = <<Head(bs)>>
    OBVIOUS
  <2>6. InPhase(c, Head(bs), g[1])
    BY <2>1, <2>3 DEF InPhase
  <2> QED
    BY <1>1, <2>2, <2>3, <2>4, <2>5, <2>6 DEF Sound
<1> QED
  BY <1>2, <1>3

LEMMA SawKeepsPlace ==
    ASSUME NEW c \in Csio, NEW e \in Evidence
    PROVE  /\ Saw(c, e).inFrame = c.inFrame
           /\ Progress(c).inFrame = c.inFrame
<1> DEFINE d == [c EXCEPT !.seen = @ \cup {e}]
<1>1. c.seen \cup {e} \in SUBSET Evidence
  BY DEF Csio
<1>2. d \in Csio /\ d.inFrame = c.inFrame
  BY <1>1 DEF Csio
<1>3. \A x \in Csio : Progress(x).inFrame = x.inFrame
  BY DEF Progress, Csio
<1> HIDE DEF d
<1> QED
  BY <1>2, <1>3 DEF Saw, d

\* The parser takes an octet the way the TP marked it.
LEMMA RxPhase ==
    ASSUME NEW c \in Csio, NEW b \in Byte, NEW k \in Nat, InPhase(c, b, k),
           b.role \in {"single", "check"} <=> k = 0,
           b.role = "single" => b.value < HdrC0,
           b.role = "header" => b.value >= HdrC0,
           b.role = "length" => b.value = k + 2
    PROVE  /\ k = 0 => ~RxByte(c, b.value).inFrame
           /\ k # 0 => RxByte(c, b.value).inFrame
           /\ b.role = "header" => RxByte(c, b.value).len = 0
           /\ b.role \in {"length", "data"} => /\ RxByte(c, b.value).len # 0
                                               /\ RxByte(c, b.value).remaining = k
<1> DEFINE v == b.value
<1>1. v \in Octet /\ b.role \in Role
  BY DEF Byte
<1>2. CASE b.role = "single"
  <2>1. ~c.inFrame /\ ~(v >= HdrC0) /\ k = 0
    BY <1>1, <1>2 DEF InPhase, Octet, HdrC0
  <2>2. RxByte(c, v) = SingleByte(c, v)
    BY <2>1 DEF RxByte
  <2>3. "ack" \in Evidence /\ "hook" \in Evidence /\ "power" \in Evidence
    BY DEF Evidence
  <2>4. SingleByte(c, v).inFrame = c.inFrame
    BY <2>3, SawKeepsPlace DEF SingleByte
  <2> QED
    BY <1>2, <2>1, <2>2, <2>4
<1>3. CASE b.role = "header"
  <2>1. ~c.inFrame /\ v >= HdrC0 /\ k # 0
    BY <1>3 DEF InPhase
  <2>2. RxByte(c, v) = [c EXCEPT !.inFrame = TRUE, !.code = v, !.sum = v, !.len = 0, !.remaining = 0]
    BY <2>1 DEF RxByte
  <2>3. RxByte(c, v).inFrame /\ RxByte(c, v).len = 0
    BY <2>2 DEF Csio
  <2> QED
    BY <1>3, <2>1, <2>3
<1>4. CASE b.role = "length"
  <2>1. c.inFrame /\ c.len = 0 /\ k # 0 /\ v = k + 2
    BY <1>4 DEF InPhase
  <2>2. ~(v < 3) /\ v - 2 = k /\ v # 0
    BY <1>1, <2>1 DEF Octet
  <2> DEFINE q == (c.sum + v) % 256
             w == v - 2
  <2>3. RxByte(c, v) = [c EXCEPT !.len = v, !.sum = q, !.remaining = w]
    BY <2>1, <2>2 DEF RxByte
  <2> HIDE DEF q, w
  <2>4. RxByte(c, v).inFrame /\ RxByte(c, v).len = v /\ RxByte(c, v).remaining = w
    BY <2>1, <2>3 DEF Csio
  <2> QED
    BY <1>4, <2>1, <2>2, <2>4 DEF w
<1>5. CASE b.role = "data"
  <2>1. c.inFrame /\ c.len # 0 /\ k # 0 /\ c.remaining = k + 1
    BY <1>5 DEF InPhase
  <2>2. c.remaining # 1 /\ c.remaining - 1 = k
    BY <2>1
  <2>3. RxByte(c, v) = [c EXCEPT !.remaining = @ - 1, !.sum = (@ + v) % 256]
    BY <2>1, <2>2 DEF RxByte
  <2>4. RxByte(c, v).inFrame /\ RxByte(c, v).len = c.len /\ RxByte(c, v).remaining = c.remaining - 1
    BY <2>1, <2>3 DEF Csio
  <2> QED
    BY <1>5, <2>1, <2>2, <2>4
<1>6. CASE b.role = "check"
  <2>1. c.inFrame /\ c.len # 0 /\ k = 0 /\ c.remaining = 1
    BY <1>6 DEF InPhase
  <2>2. RxByte(c, v) = FrameEnd(c, v)
    BY <2>1 DEF RxByte
  <2> DEFINE d == [c EXCEPT !.inFrame = FALSE, !.remaining = 0]
             w == [d EXCEPT !.waitC4 = FALSE]
  <2>3. d \in Csio /\ ~d.inFrame
    <3>1. 0 \in Octet
      BY DEF Octet
    <3> QED
      BY <3>1 DEF Csio
  <2>4. w \in Csio /\ ~w.inFrame
    BY <2>3 DEF Csio
  <2>5. "status" \in Evidence /\ "error" \in Evidence
    BY DEF Evidence
  <2>6. FrameEnd(c, v) \in {Saw(d, "status"), Saw(w, "error"), d}
    BY DEF FrameEnd
  <2> HIDE DEF d, w
  <2>7. ~FrameEnd(c, v).inFrame
    BY <2>3, <2>4, <2>5, <2>6, SawKeepsPlace
  <2> QED
    BY <1>6, <2>1, <2>2, <2>7
<1> QED
  BY <1>1, <1>2, <1>3, <1>4, <1>5, <1>6 DEF Role

\* Completing an octet moves the next one under the parser, with its mark.
LEMMA ShiftSound ==
    ASSUME NEW l \in Link, NEW c \in Csio, Sound(l, c), l.shift # NoByte
    PROVE  Sound(Shifted(l), RxByte(c, l.shift.value))
<1> DEFINE b == l.shift
           d == RxByte(c, b.value)
           m == [l EXCEPT !.shift = NoByte, !.bit = 0]
           u == <<b>> \o l.prio
<1>1. b \in Byte /\ l.prio \in Seq(Byte)
  BY DEF Link
<1>2. PICK g \in Marks(u) : InPhase(c, b, g[1])
  BY DEF Sound
<1>3. /\ Len(u) = Len(l.prio) + 1 /\ u[1] = b
      /\ l.prio # <<>> => u[2] = Head(l.prio) /\ 1 < Len(u)
  BY <1>1
<1>4. g[1] \in Nat /\ Marked(u, g) /\ 1 \in 1 .. Len(u)
  BY <1>1, <1>2, <1>3 DEF Marks
<1> HIDE DEF u
<1>5. /\ b.role \in {"single", "check"} <=> g[1] = 0
      /\ b.role = "single" => b.value < HdrC0
      /\ b.role = "header" => b.value >= HdrC0
      /\ b.role = "length" => b.value = g[1] + 2
      /\ g[1] # 0 => /\ 1 < Len(u)
                     /\ g[2] = g[1] - 1
                     /\ u[2].role \in {"length", "data", "check"}
                     /\ u[2].role = "length" <=> b.role = "header"
      /\ g[1] = 0 /\ 1 < Len(u) => u[2].role \in {"single", "header"}
  BY <1>3, <1>4 DEF Marked
<1>6. /\ g[1] = 0 => ~d.inFrame
      /\ g[1] # 0 => d.inFrame
      /\ b.role = "header" => d.len = 0
      /\ b.role \in {"length", "data"} => d.len # 0 /\ d.remaining = g[1]
  BY <1>1, <1>2, <1>4, <1>5, RxPhase
<1>7. b.role \in Role
  BY <1>1 DEF Byte
<1>8. /\ Shifted(l) = Prime(m)
      /\ m \in Link /\ m.shift = NoByte /\ m.prio = l.prio /\ m.norm = l.norm
  <2>1. 0 \in 0 .. 8 - 1 /\ NoByte \in Byte \cup {NoByte}
    OBVIOUS
  <2>2. m \in Link
    BY <2>1 DEF Link
  <2>3. m.shift = NoByte /\ m.prio = l.prio /\ m.norm = l.norm
    BY DEF Link
  <2>4. Shifted(l) = Prime(m)
    BY DEF Shifted
  <2> QED
    BY <2>2, <2>3, <2>4
<1> HIDE DEF m, d
<1>9. CASE l.prio # <<>>
  <2>1. Prime(m) = [Loaded(m, Head(l.prio)) EXCEPT !.prio = Tail(@)]
    BY <1>8, <1>9 DEF Prime
  <2>2. /\ Head(l.prio) \in Byte /\ Tail(l.prio) \in Seq(Byte)
        /\ <<Head(l.prio)>> \o Tail(l.prio) = l.prio
    BY <1>1, <1>9
  <2>3. /\ Prime(m).shift = Head(l.prio) /\ Prime(m).prio = Tail(l.prio) /\ Prime(m).norm = l.norm
    BY <1>8, <2>1, <2>2 DEF Loaded, Link
  <2>4. PICK k \in Marks(l.prio) : k[1] = g[2]
    BY <1>1, <1>2, <1>9, MarksTail DEF u
  <2>5. InPhase(d, Head(l.prio), g[2])
    <3>1. u[2] = Head(l.prio) /\ 1 < Len(u)
      BY <1>3, <1>9
    <3>2. CASE g[1] = 0
      <4>1. ~d.inFrame /\ Head(l.prio).role \in {"single", "header"}
        BY <1>5, <1>6, <3>1, <3>2
      <4> QED
        BY <4>1 DEF InPhase
    <3>3. CASE g[1] # 0
      <4>1. /\ d.inFrame
            /\ Head(l.prio).role \in {"length", "data", "check"}
            /\ Head(l.prio).role = "length" <=> b.role = "header"
            /\ g[2] + 1 = g[1]
        BY <1>4, <1>5, <1>6, <3>1, <3>3
      <4>2. b.role \in {"header", "length", "data"}
        BY <1>5, <1>7, <3>3 DEF Role
      <4> QED
        BY <1>6, <4>1, <4>2 DEF InPhase
    <3> QED
      BY <3>2, <3>3
  <2>6. Head(l.prio) # NoByte
    BY <2>2 DEF Byte, NoByte, Role
  <2> QED
    BY <1>8, <2>2, <2>3, <2>4, <2>5, <2>6 DEF Sound, d
<1>10. CASE l.prio = <<>>
  <2>1. ~d.inFrame
    BY <1>3, <1>5, <1>6, <1>10
  <2>2. l.norm \in Seq(Lone)
    BY DEF Sound
  <2>3. CASE l.norm # <<>>
    <3>1. Prime(m) = [Loaded(m, Head(l.norm)) EXCEPT !.norm = Tail(@)]
      BY <1>8, <1>10, <2>3 DEF Prime
    <3>2. Head(l.norm) \in Lone /\ Tail(l.norm) \in Seq(Lone)
      BY <2>2, <2>3
    <3>3. /\ Head(l.norm) \in Byte /\ Head(l.norm).role = "single"
          /\ Head(l.norm).value < HdrC0 /\ Head(l.norm) # NoByte
      BY <3>2 DEF Lone, Mute, NoByte
    <3>4. /\ Prime(m).shift = Head(l.norm) /\ Prime(m).norm = Tail(l.norm) /\ Prime(m).prio = <<>>
      BY <1>8, <1>10, <3>1, <3>3 DEF Loaded, Link
    <3>5. PICK k \in Marks(<<Head(l.norm)>>) : k[1] = 0
      BY <3>3, SingleBlock
    <3>6. <<Head(l.norm)>> \o <<>> = <<Head(l.norm)>>
      OBVIOUS
    <3>7. InPhase(d, Head(l.norm), k[1])
      BY <2>1, <3>3 DEF InPhase
    <3> QED
      BY <1>8, <3>2, <3>3, <3>4, <3>5, <3>6, <3>7 DEF Sound, d
  <2>4. CASE l.norm = <<>>
    <3>1. Prime(m) = [m EXCEPT !.rts = FALSE]
      BY <1>8, <1>10, <2>4 DEF Prime
    <3>2. /\ Prime(m).shift = NoByte /\ Prime(m).prio = <<>> /\ Prime(m).norm = <<>>
      BY <1>8, <1>10, <2>4, <3>1 DEF Link
    <3> QED
      BY <1>8, <2>1, <2>2, <2>4, <3>2 DEF Sound, d
  <2> QED
    BY <2>3, <2>4
<1> QED
  BY <1>9, <1>10

\* The single octets the TP sends: any in the priority queue, these in the normal one.
LEMMA AnswersLone ==
    /\ \A v \in {34, 96, 98, 108, 110, 116, 122, 128, 136, 140} :
          Single(v) \in Seq(Lone) /\ Single(v) # <<>>
    /\ Single(98) \o Single(110) \in Seq(Lone) /\ Single(98) \o Single(110) # <<>>
    /\ Single(96) \o Single(108) \in Seq(Lone) /\ Single(96) \o Single(108) # <<>>
<1>1. \A v \in {34, 96, 98, 108, 110, 116, 122, 128, 136, 140} :
          [value |-> v, role |-> "single"] \in Lone
  BY DEF Lone, Mute, Byte, Octet, Role, Boot, BootOn, BootOff, HdrC0
<1>2. \A v \in {34, 96, 98, 108, 110, 116, 122, 128, 136, 140} :
          Single(v) \in Seq(Lone) /\ Single(v) # <<>>
  BY <1>1 DEF Single
<1> QED
  BY <1>2

LEMMA AnswerBlocks ==
    \A v \in {BootOn, BootOff, 108, 110, 122, 128} : Block(Single(v))
<1> SUFFICES ASSUME NEW v \in {BootOn, BootOff, 108, 110, 122, 128} PROVE Block(Single(v))
  OBVIOUS
<1> DEFINE b == [value |-> v, role |-> "single"]
<1>1. b \in Byte /\ b.role = "single" /\ b.value < HdrC0
  BY DEF Byte, Octet, Role, BootOn, BootOff, HdrC0
<1>2. Single(v) = <<b>>
  BY DEF Single
<1> HIDE DEF b
<1> QED
  BY <1>1, <1>2, SingleBlock

\* The parser's C4 deadline is no part of its place in a frame.
LEMMA DeadlineSound ==
    ASSUME NEW l, NEW c \in Csio, Sound(l, c), NEW w
    PROVE  Sound(l, [c EXCEPT !.waitC4 = w])
<1> DEFINE d == [c EXCEPT !.waitC4 = w]
<1>1. d.inFrame = c.inFrame /\ d.len = c.len /\ d.remaining = c.remaining
  BY DEF Csio
<1> HIDE DEF d
<1>2. \A b, k : InPhase(c, b, k) => InPhase(d, b, k)
  BY <1>1 DEF InPhase
<1>3. Sound(l, d)
  BY <1>1, <1>2 DEF Sound
<1> QED
  BY <1>3 DEF d

\* Every reply but the version report.
LEMMA ReplySound ==
    ASSUME NEW l \in Link, NEW c, Sound(l, c), NEW x, NEW v, v # 52
    PROVE  Sound(Reply(l, x, v), c)
<1>1. \A o \in {108, 110, 122, 128} : Sound(QueuePrio(l, Single(o)), c)
  BY AnswerBlocks, PrioSound
<1>2. Sound(QueuePrio(l, StatusReport), c) /\ Sound(QueuePrio(l, ErrorReport), c)
  BY ReportBlocks, PrioSound
<1>3. \A o \in {136, 140} : Sound(QueueNorm(l, Single(o)), c)
  <2>1. \A o \in {136, 140} : Single(o) \in Seq(Lone) /\ Single(o) # <<>>
    BY AnswersLone, SMTT(40)
  <2> QED
    BY <2>1, NormSound
<1> QED
  BY <1>1, <1>2, <1>3, Zenon DEF Reply

LEMMA ClockSound ==
    ASSUME IInv, Sound(link, csio)
    PROVE  Sound(LinkAfterClock, CsioAfterClock)
<1>1. link \in Link /\ csio \in Csio
  BY DEF IInv, TypeOK
<1> QED
  BY <1>1, ShiftSound DEF LinkAfterClock, CsioAfterClock

\* One octet of the CP that the TP does not read as the version query.
LEMMA OctetSound ==
    ASSUME IInv, Sound(link, csio), NEW v \in Octet, CpOctet(v),
           enabled /\ tx.skip = 0 /\ ~tx.need => v # 52
    PROVE  Sound(link', csio')
<1> DEFINE l == LinkAfterClock
           c == CsioAfterClock
<1>1. l \in Link /\ c \in Csio /\ Sound(l, c)
  BY AfterClock, ClockSound, QuietIsLink DEF CsioOk
<1> HIDE DEF l, c
<1>2. CASE link' = l /\ csio' = c
  BY <1>1, <1>2
<1>3. CASE enabled /\ PayloadOctet(l) /\ csio' = c /\ UNCHANGED hook
  <2> DEFINE n == QueueNorm(l, Single(116))
  <2>1. n \in Link
    BY AfterClock, AnswersMute, QueueQuiet, QuietIsLink DEF l
  <2>2. Sound(n, c)
    <3>1. Single(116) \in Seq(Lone) /\ Single(116) # <<>>
      BY AnswersLone
    <3> QED
      BY <1>1, <3>1, NormSound
  <2>3. Sound(QueuePrio(n, ErrorReport \o StatusReport), c)
    <3> HIDE DEF n
    <3> QED
      BY <2>1, <2>2, ReportBlocks, PrioSound
  <2>4. link' \in {l, QueuePrio(n, ErrorReport \o StatusReport)}
    BY <1>3, Zenon DEF PayloadOctet
  <2> QED
    BY <1>1, <1>3, <2>3, <2>4
<1>4. CASE enabled /\ CommandOctet(l, c, v)
  <2>1. v # 52
    BY <1>4 DEF CommandOctet
  <2>2. Sound(Reply(l, c, v), c)
    BY <1>1, <2>1, ReplySound
  <2>3. Sound(link', c)
    BY <1>4, <2>2 DEF CommandOctet
  <2>4. csio' \in {c, [c EXCEPT !.waitC4 = ~c.contract \/ EmitC4]}
    BY <1>4 DEF CommandOctet
  <2> QED
    BY <1>1, <2>3, <2>4, DeadlineSound
<1> QED
  BY <1>2, <1>3, <1>4 DEF CpOctet, l, c

LEMMA HostPollSound ==
    ASSUME IInv, Sound(link, csio), NEW due \in SUBSET Due, NEW u, HostPoll(due, u)
    PROVE  Sound(link', csio')
<1> DEFINE en     == enabled \/ "enable" \in due
           l1     == BootStep(link, en)
           keep   == KeepaliveRuns(l1, en, due)
           l2     == IF keep THEN KeepaliveStep(l1) ELSE l1
           h      == IF "hook" \in due THEN [hook EXCEPT !.stable = hook.now] ELSE hook
           wait   == csio.waitC4 /\ ~keep
           missed == wait /\ csio.seen \cap {"error", "status"} # {} /\ "miss" \in due
           ui     == UiReport(u, l2, h)
<1>1. link' = ui[1] /\ csio' = [csio EXCEPT !.waitC4 = wait /\ ~missed]
  BY DEF HostPoll
<1>2. link \in QuietLink /\ link \in Link /\ csio \in Csio /\ enabled \in BOOLEAN
  BY DEF IInv, TypeOK
<1>3. l1 \in QuietLink /\ Sound(l1, csio)
  <2>1. en \in BOOLEAN
    BY <1>2
  <2>2. l1 \in QuietLink
    BY <1>2, <2>1, BootStepQuiet
  <2>3. Sound(QueuePrio(link, Single(BootOn)), csio) /\ Sound(QueuePrio(link, Single(BootOff)), csio)
    BY <1>2, AnswerBlocks, PrioSound
  <2>4. l1 \in {link, QueuePrio(link, Single(BootOn)), QueuePrio(link, Single(BootOff))}
    BY DEF BootStep
  <2> HIDE DEF l1
  <2> QED
    BY <2>2, <2>3, <2>4
<1> HIDE DEF l1, keep
<1>4. l2 \in QuietLink /\ Sound(l2, csio)
  <2>1. KeepaliveStep(l1) \in QuietLink
    BY <1>3, KeepaliveQuiet
  <2>2. l1 \in Link
    BY <1>3, QuietIsLink
  <2>3. /\ Sound(QueuePrio(l1, ErrorReport \o StatusReport), csio)
        /\ Sound(QueuePrio(l1, StatusReport), csio)
    BY <1>3, <2>2, ReportBlocks, PrioSound
  <2>4. KeepaliveStep(l1) \in {QueuePrio(l1, ErrorReport \o StatusReport), QueuePrio(l1, StatusReport)}
    BY Zenon DEF KeepaliveStep
  <2> QED
    BY <1>3, <2>1, <2>3, <2>4
<1> HIDE DEF l2, h, wait, missed
<1>5. Sound(ui[1], csio)
  <2>1. l2 \in Link
    BY <1>4, QuietIsLink
  <2>2. /\ Sound(QueueNorm(l2, Single(98) \o Single(110)), csio)
        /\ Sound(QueueNorm(l2, Single(96) \o Single(108)), csio)
        /\ Sound(QueueNorm(l2, Single(34)), csio)
    <3>1. /\ Single(98) \o Single(110) \in Seq(Lone) /\ Single(98) \o Single(110) # <<>>
          /\ Single(96) \o Single(108) \in Seq(Lone) /\ Single(96) \o Single(108) # <<>>
          /\ Single(34) \in Seq(Lone) /\ Single(34) # <<>>
      BY AnswersLone
    <3>2. \A bs \in Seq(Lone) : bs # <<>> => Sound(QueueNorm(l2, bs), csio)
      BY <1>4, <2>1, NormSound
    <3> QED
      BY <3>1, <3>2, Zenon
  <2>3. ui[1] \in {QueueNorm(l2, Single(98) \o Single(110)), QueueNorm(l2, Single(96) \o Single(108)),
                   QueueNorm(l2, Single(34)), l2}
    <3>1. CASE u = "off-hook"
      BY <3>1 DEF UiReport
    <3>2. CASE u = "on-hook"
      BY <3>2 DEF UiReport
    <3>3. CASE u = "key"
      BY <3>3 DEF UiReport
    <3>4. CASE u \notin {"off-hook", "on-hook", "key"}
      BY <3>4 DEF UiReport
    <3> QED
      BY <3>1, <3>2, <3>3, <3>4
  <2> HIDE DEF ui
  <2> QED
    BY <1>4, <2>2, <2>3
<1> HIDE DEF ui
<1> QED
  BY <1>1, <1>2, <1>5, DeadlineSound

\* A download can ask for the version by accident, if the TP does not know that it is one.
StrayVersion == 52 \in CfgData \cup {CfgLen, CfgLen - 1}

FramesInv == (wasReset => ~StrayVersion) => Sound(link, csio)

LEMMA FramesInit == Init => FramesInv
<1> SUFFICES ASSUME Init PROVE Sound(link, csio)
  BY DEF FramesInv
<1>1. /\ link.shift = NoByte /\ link.prio = <<>> /\ link.norm = <<>> /\ ~csio.inFrame
  BY DEF Init, IdleLink
<1>2. <<>> \in Seq(Lone)
  OBVIOUS
<1> QED
  BY <1>1, <1>2 DEF Sound

LEMMA FramesStep ==
    ASSUME 52 \notin Commands
    PROVE  IInv /\ FramesInv /\ [Next]_vars => FramesInv'
<1> SUFFICES ASSUME IInv, FramesInv, [Next]_vars, wasReset' => ~StrayVersion
             PROVE  Sound(link', csio')
  BY DEF FramesInv, StrayVersion
<1>1. wasReset => wasReset'
  BY DEF IInv, TypeOK, Next, CpReceive, CpCommand, CpStartDownload, CpContinueDownload, Poll,
         PollWithUi, HostPoll, PwrFailPulse, vars
<1>2. Sound(link, csio)
  BY <1>1 DEF FramesInv
<1>3. CASE CpReceive
  BY <1>2, <1>3, ClockSound DEF CpReceive
<1>4. CASE CpCommand
  <2>1. PICK v \in Commands : CpOctet(v)
    BY <1>4 DEF CpCommand
  <2>2. v \in Octet /\ v # 52
    BY OctetAssumption DEF Octet
  <2> QED
    BY <1>2, <2>1, <2>2, OctetSound
<1>5. CASE CpStartDownload
  <2>1. CpOctet(HdrC0) /\ HdrC0 \in Octet /\ HdrC0 # 52
    BY <1>5 DEF CpStartDownload, HdrC0, Octet
  <2> QED
    BY <1>2, <2>1, OctetSound
<1>6. CASE CpContinueDownload
  <2> DEFINE d == cp.download
  <2>1. /\ d.togo > 0 /\ d # NoDownload
        /\ d.len \in {CfgLen, CfgLen - 1} /\ d.togo \in 1 .. d.len - 1
        /\ UNCHANGED wasReset
    <3>1. d.togo > 0 /\ UNCHANGED wasReset
      BY <1>6 DEF CpContinueDownload
    <3>2. d # NoDownload
      BY <3>1 DEF NoDownload
    <3> QED
      BY <3>1, <3>2 DEF IInv, PlaceOk
  <2>2. PICK v \in CfgData \cup {CfgLen, CfgLen - 1} : CpOctet(v)
    BY <1>6, <2>1 DEF CpContinueDownload
  <2>3. v \in Octet
    BY <2>2, CfgLenAssumption, OctetAssumption DEF Octet
  <2>4. enabled /\ tx.skip = 0 /\ ~tx.need => v # 52
    <3>1. CASE wasReset
      BY <2>1, <2>2, <3>1 DEF StrayVersion
    <3>2. CASE ~wasReset
      <4>1. cp.up
        BY <2>1, <3>2 DEF IInv, BootFirst
      <4>2. enabled => IF d.togo = d.len - 1 THEN tx.skip = 0 /\ tx.need
                       ELSE tx.skip = d.togo /\ tx.declared = d.len
        BY <2>1, <3>2, <4>1 DEF IInv, DownloadInStep
      <4> QED
        BY <2>1, <4>2
    <3> QED
      BY <3>1, <3>2
  <2> QED
    BY <1>2, <2>2, <2>3, <2>4, OctetSound
<1>7. CASE Poll
  BY <1>2, <1>7, HostPollSound DEF Poll
<1>8. CASE PollWithUi
  <2>1. {} \in SUBSET Due
    OBVIOUS
  <2>2. PICK u \in {"key", IF hook.now THEN "off-hook" ELSE "on-hook"} : HostPoll({}, u)
    BY <1>8 DEF PollWithUi
  <2> QED
    BY <1>2, <2>1, <2>2, HostPollSound
<1>9. CASE PwrFailPulse
  BY <1>2, <1>9 DEF PwrFailPulse
<1>10. CASE UNCHANGED vars
  BY <1>2, <1>10 DEF vars
<1> QED
  BY <1>3, <1>4, <1>5, <1>6, <1>7, <1>8, <1>9, <1>10 DEF Next

LEMMA SoundIsIntact == IInv /\ Sound(link, csio) => FramesIntact
  BY DEF Sound, InPhase, FramesIntact

\* If neither a command nor a download the TP might misread is the version query, no reply lands
\* inside another's frame, however often the TP is reset.
THEOREM FramesStayIntact ==
    ASSUME 52 \notin Commands, ~StrayVersion
    PROVE  Spec => []FramesIntact
<1>1. IInv /\ FramesInv => FramesIntact
  BY SoundIsIntact DEF FramesInv
<1>2. IInv /\ FramesInv /\ [Next]_vars => FramesInv'
  BY FramesStep
<1> QED
  BY <1>1, <1>2, InitInv, StepInv, FramesInit, PTL DEF Spec

\* Whatever the configuration data, frames stay whole until the TP is reset under way: only then
\* can an octet of a download be taken for the version query.
THEOREM FramesIntactUntilReset ==
    ASSUME 52 \notin Commands
    PROVE  Spec => [](~wasReset => FramesIntact)
<1>1. IInv /\ FramesInv => (~wasReset => FramesIntact)
  BY SoundIsIntact DEF FramesInv
<1>2. IInv /\ FramesInv /\ [Next]_vars => FramesInv'
  BY FramesStep
<1> QED
  BY <1>1, <1>2, InitInv, StepInv, FramesInit, PTL DEF Spec

-------------------------------------------------------------------------------
(***************************************************************************)
(* A download the CP has sent in full is answered once.  Acks counts 0x74  *)
(* on the link; a count of a sequence of octets is the sum of the counts   *)
(* of its parts, and priming the register leaves the octets on the link    *)
(* and their order alone.                                                  *)
(***************************************************************************)

Ack == [value |-> 116, role |-> "single"]
AckAt(s) == {i \in 1 .. Len(s) : s[i] = Ack}

LEMMA AckFinite == \A s \in Seq(Byte) : IsFiniteSet(AckAt(s)) /\ Cardinality(AckAt(s)) \in Nat
<1> SUFFICES ASSUME NEW s \in Seq(Byte)
             PROVE  IsFiniteSet(AckAt(s)) /\ Cardinality(AckAt(s)) \in Nat
  OBVIOUS
<1>1. IsFiniteSet(1 .. Len(s))
  BY FS_Interval
<1>2. AckAt(s) \in SUBSET (1 .. Len(s))
  BY DEF AckAt
<1>3. IsFiniteSet(AckAt(s))
  BY <1>1, <1>2, FS_Subset
<1> QED
  BY <1>3, FS_CardinalityType

LEMMA AckSum ==
    \A s, t \in Seq(Byte) :
        Cardinality(AckAt(s \o t)) = Cardinality(AckAt(s)) + Cardinality(AckAt(t))
<1> SUFFICES ASSUME NEW s \in Seq(Byte), NEW t \in Seq(Byte)
             PROVE  Cardinality(AckAt(s \o t)) = Cardinality(AckAt(s)) + Cardinality(AckAt(t))
  OBVIOUS
<1> DEFINE m == Len(s)
           n == Len(t)
           A == AckAt(s)
           B == AckAt(t)
           C == {i \in m + 1 .. m + n : t[i - m] = Ack}
           f == [j \in B |-> j + m]
<1>1. m \in Nat /\ n \in Nat
  OBVIOUS
<1>2. AckAt(s \o t) = A \cup C
  <2>1. Len(s \o t) = m + n
    OBVIOUS
  <2>2. \A i \in 1 .. m : (s \o t)[i] = s[i]
    OBVIOUS
  <2>3. \A i \in m + 1 .. m + n : (s \o t)[i] = t[i - m]
    OBVIOUS
  <2>4. 1 .. m + n = (1 .. m) \cup (m + 1 .. m + n)
    BY <1>1
  <2> DEFINE u == s \o t
  <2> HIDE DEF u, m, n
  <2>5. AckAt(u) = {i \in 1 .. m : s[i] = Ack} \cup {i \in m + 1 .. m + n : t[i - m] = Ack}
    BY <2>1, <2>2, <2>3, <2>4 DEF AckAt, u
  <2> QED
    BY <2>5 DEF AckAt, u, m
<1>3. A \cap C = {}
  BY <1>1 DEF AckAt
<1>4. f \in Bijection(B, C)
  <2>1. \A j \in B : j \in 1 .. n /\ t[j] = Ack
    BY DEF AckAt
  <2>2. \A j \in B : j + m \in m + 1 .. m + n /\ (j + m) - m = j
    BY <1>1, <2>1
  <2>3. f \in [B -> C]
    BY <2>1, <2>2
  <2>4. \A a, b \in B : f[a] = f[b] => a = b
    BY <1>1, <2>1
  <2>5. ASSUME NEW c \in C PROVE \E j \in B : f[j] = c
    <3>1. c - m \in 1 .. n /\ t[c - m] = Ack /\ (c - m) + m = c
      BY <1>1
    <3>2. c - m \in B
      BY <3>1 DEF AckAt
    <3> QED
      BY <3>1, <3>2
  <2> HIDE DEF f, B, C
  <2> QED
    BY <2>3, <2>4, <2>5 DEF Bijection, Injection, Surjection, IsInjective
<1>5. IsFiniteSet(A) /\ IsFiniteSet(B) /\ Cardinality(A) \in Nat /\ Cardinality(B) \in Nat
  BY AckFinite
<1> HIDE DEF A, B, C, f
<1>6. IsFiniteSet(C) /\ Cardinality(C) = Cardinality(B)
  <2>1. ExistsBijection(B, C)
    BY <1>4 DEF ExistsBijection
  <2> QED
    BY <1>5, <2>1, FS_Bijection
<1>7. Cardinality(A \cup C) = Cardinality(A) + Cardinality(C) - Cardinality(A \cap C)
  BY <1>5, <1>6, FS_Union
<1>8. Cardinality(A \cup C) = Cardinality(A) + Cardinality(B)
  <2>1. Cardinality(A \cap C) = 0
    BY <1>3, FS_EmptySet
  <2> QED
    BY <1>5, <1>6, <1>7, <2>1
<1> QED
  BY <1>2, <1>8 DEF A, B

\* Octets that are no acknowledgement, and the acknowledgement itself.
LEMMA AckCounts ==
    /\ Cardinality(AckAt(ErrorReport \o StatusReport)) = 0
    /\ Cardinality(AckAt(Single(116))) = 1
<1>1. \A h \in {192, 196}, n \in {4, 8} : AckAt(Frame(h, n)) = {}
  <2> SUFFICES ASSUME NEW h \in {192, 196}, NEW n \in {4, 8} PROVE AckAt(Frame(h, n)) = {}
    OBVIOUS
  <2> DEFINE zero == [value |-> 0, role |-> "data"]
             last == [value |-> (h + n) % 256, role |-> "check"]
             body == [i \in 1 .. n - 3 |-> zero]
             head == <<[value |-> h, role |-> "header"], [value |-> n, role |-> "length"]>>
             Other == {b \in Byte : b.role # "single"}
  <2>1. zero \in Other
    BY DEF Byte, Octet, Role
  <2>2. head \in Seq(Other)
    <3>1. [value |-> h, role |-> "header"] \in Other
      BY DEF Byte, Octet, Role
    <3>2. [value |-> n, role |-> "length"] \in Other
      BY DEF Byte, Octet, Role
    <3> QED
      BY <3>1, <3>2
  <2>3. <<last>> \in Seq(Other)
    <3>1. (h + n) % 256 \in Octet
      BY DEF Octet
    <3>2. last \in Other
      BY <3>1 DEF Byte, Role
    <3> QED
      BY <3>2
  <2>4. body \in Seq(Other)
    <3>1. n - 3 \in Nat
      OBVIOUS
    <3>2. body \in [1 .. n - 3 -> Other]
      BY <2>1
    <3> QED
      BY <3>1, <3>2
  <2>5. Frame(h, n) = head \o body \o <<last>>
    BY DEF Frame
  <2> HIDE DEF head, body, last, zero
  <2>6. Frame(h, n) \in Seq(Other)
    BY <2>2, <2>3, <2>4, <2>5
  <2>7. \A i \in 1 .. Len(Frame(h, n)) : Frame(h, n)[i] \in Other
    BY <2>6
  <2> QED
    BY <2>7 DEF AckAt, Ack
<1>2. AckAt(ErrorReport) = {} /\ AckAt(StatusReport) = {}
  BY <1>1 DEF ErrorReport, StatusReport, HdrC0, HdrC4
<1>3. ErrorReport \in Seq(Byte) /\ StatusReport \in Seq(Byte)
  BY ReportBlocks DEF Block
<1>4. Cardinality(AckAt(ErrorReport \o StatusReport)) = 0 + 0
  BY <1>2, <1>3, AckSum, FS_EmptySet
<1>5. AckAt(Single(116)) = {1}
  BY DEF AckAt, Single, Ack
<1>6. Cardinality({1}) = 1
  BY FS_Singleton
<1> QED
  BY <1>4, <1>5, <1>6

\* The octet in the register, if there is one.
Register(l) == IF l.shift = NoByte THEN <<>> ELSE <<l.shift>>

OnLink(l) == Cardinality(AckAt(Register(l))) + Cardinality(AckAt(l.prio)) + Cardinality(AckAt(l.norm))

LEMMA AcksParts == \A l \in Link : Acks(l) = OnLink(l)
<1> SUFFICES ASSUME NEW l \in Link PROVE Acks(l) = OnLink(l)
  OBVIOUS
<1>1. Register(l) \in Seq(Byte) /\ l.prio \in Seq(Byte) /\ l.norm \in Seq(Byte)
  BY DEF Link, Register
<1>2. Register(l) \o l.prio \in Seq(Byte)
  BY <1>1
<1>3. Stream(l) = (Register(l) \o l.prio) \o l.norm
  BY DEF Stream, Register
<1>4. Single(116)[1] = Ack
  BY DEF Single, Ack
<1>5. Acks(l) = Cardinality(AckAt(Stream(l)))
  BY <1>4 DEF Acks, AckAt
<1> QED
  BY <1>1, <1>2, <1>3, <1>5, AckSum DEF OnLink

\* Priming moves an octet; it neither adds nor loses one.
LEMMA PrimeAcks == \A l \in Link : OnLink(Prime(l)) = OnLink(l)
<1> SUFFICES ASSUME NEW l \in Link PROVE OnLink(Prime(l)) = OnLink(l)
  OBVIOUS
<1>1. l.prio \in Seq(Byte) /\ l.norm \in Seq(Byte)
  BY DEF Link
<1>e. <<>> \in Seq(Byte) /\ Cardinality(AckAt(<<>>)) = 0
  BY FS_EmptySet DEF AckAt
<1>h. ASSUME NEW q \in Seq(Byte), q # <<>>
      PROVE  /\ Head(q) \in Byte /\ Head(q) # NoByte
             /\ Cardinality(AckAt(<<Head(q)>>)) + Cardinality(AckAt(Tail(q))) = Cardinality(AckAt(q))
             /\ Cardinality(AckAt(<<Head(q)>>)) \in Nat /\ Cardinality(AckAt(Tail(q))) \in Nat
  <2>1. <<Head(q)>> \in Seq(Byte) /\ Tail(q) \in Seq(Byte) /\ <<Head(q)>> \o Tail(q) = q
    BY <1>h
  <2>2. Head(q) \in Byte
    BY <1>h
  <2>3. Head(q) # NoByte
    BY <2>2 DEF Byte, NoByte, Role
  <2> QED
    BY <2>1, <2>2, <2>3, AckSum, AckFinite
<1>2. CASE l.shift # NoByte
  BY <1>2 DEF Prime
<1>3. CASE l.shift = NoByte /\ l.prio # <<>>
  <2>1. Prime(l) = [Loaded(l, Head(l.prio)) EXCEPT !.prio = Tail(@)]
    BY <1>3 DEF Prime
  <2>2. Prime(l).shift = Head(l.prio) /\ Prime(l).prio = Tail(l.prio) /\ Prime(l).norm = l.norm
    BY <2>1 DEF Loaded, Link
  <2>3. Register(l) = <<>> /\ Register(Prime(l)) = <<Head(l.prio)>>
    BY <1>1, <1>3, <1>h, <2>2 DEF Register
  <2>4. Cardinality(AckAt(l.norm)) \in Nat
    BY <1>1, AckFinite
  <2> QED
    BY <1>1, <1>3, <1>e, <1>h, <2>2, <2>3, <2>4 DEF OnLink
<1>4. CASE l.shift = NoByte /\ l.prio = <<>> /\ l.norm # <<>>
  <2>1. Prime(l) = [Loaded(l, Head(l.norm)) EXCEPT !.norm = Tail(@)]
    BY <1>4 DEF Prime
  <2>2. Prime(l).shift = Head(l.norm) /\ Prime(l).prio = <<>> /\ Prime(l).norm = Tail(l.norm)
    BY <1>4, <2>1 DEF Loaded, Link
  <2>3. Register(l) = <<>> /\ Register(Prime(l)) = <<Head(l.norm)>>
    BY <1>1, <1>4, <1>h, <2>2 DEF Register
  <2> QED
    BY <1>1, <1>4, <1>e, <1>h, <2>2, <2>3 DEF OnLink
<1>5. CASE l.shift = NoByte /\ l.prio = <<>> /\ l.norm = <<>>
  <2>1. Prime(l) = [l EXCEPT !.rts = FALSE]
    BY <1>5 DEF Prime
  <2>2. Prime(l).shift = l.shift /\ Prime(l).prio = l.prio /\ Prime(l).norm = l.norm
    BY <2>1 DEF Link
  <2> QED
    BY <2>2 DEF OnLink, Register
<1> QED
  BY <1>2, <1>3, <1>4, <1>5

\* Queueing adds what is queued.
LEMMA QueueAcks ==
    ASSUME NEW l \in Link, NEW bs \in Seq(Byte)
    PROVE  /\ OnLink(QueuePrio(l, bs)) = OnLink(l) + Cardinality(AckAt(bs))
           /\ OnLink(QueueNorm(l, bs)) = OnLink(l) + Cardinality(AckAt(bs))
<1> DEFINE p == [l EXCEPT !.prio = @ \o bs]
           n == [l EXCEPT !.norm = @ \o bs]
<1>1. l.prio \in Seq(Byte) /\ l.norm \in Seq(Byte) /\ Register(l) \in Seq(Byte)
  BY DEF Link, Register
<1>2. l.prio \o bs \in Seq(Byte) /\ l.norm \o bs \in Seq(Byte)
  BY <1>1
<1>3. p \in Link /\ n \in Link
  BY <1>2 DEF Link
<1>4. /\ p.shift = l.shift /\ p.prio = l.prio \o bs /\ p.norm = l.norm
      /\ n.shift = l.shift /\ n.prio = l.prio /\ n.norm = l.norm \o bs
  BY DEF Link
<1> HIDE DEF p, n
<1>5. Register(p) = Register(l) /\ Register(n) = Register(l)
  BY <1>4 DEF Register
<1>6. /\ Cardinality(AckAt(Register(l))) \in Nat /\ Cardinality(AckAt(l.prio)) \in Nat
      /\ Cardinality(AckAt(l.norm)) \in Nat /\ Cardinality(AckAt(bs)) \in Nat
  BY <1>1, AckFinite
<1>7. /\ Cardinality(AckAt(p.prio)) = Cardinality(AckAt(l.prio)) + Cardinality(AckAt(bs))
      /\ Cardinality(AckAt(n.norm)) = Cardinality(AckAt(l.norm)) + Cardinality(AckAt(bs))
  BY <1>1, <1>4, AckSum
<1>8. OnLink(p) = OnLink(l) + Cardinality(AckAt(bs)) /\ OnLink(n) = OnLink(l) + Cardinality(AckAt(bs))
  BY <1>4, <1>5, <1>6, <1>7 DEF OnLink
<1> QED
  BY <1>3, <1>8, PrimeAcks DEF QueuePrio, QueueNorm, p, n

\* A frame the TP is reading is a download: no other header starts one.
HeaderKept == tx.need \/ tx.skip # 0 => tx.hdr = HdrC0

LEMMA HeaderInit == Init => HeaderKept
  BY DEF Init, HeaderKept, IdleTx

LEMMA HeaderOctets ==
    ASSUME IInv, HeaderKept, NEW v, CpOctet(v)
    PROVE  HeaderKept'
<1>1. tx \in Tx
  BY DEF IInv, TypeOK
<1>2. CASE tx' = tx
  BY <1>2 DEF HeaderKept
<1>3. CASE tx' = IdleTx
  BY <1>3 DEF HeaderKept, IdleTx
<1>4. CASE tx.skip > 0 /\ tx' = [tx EXCEPT !.skip = @ - 1]
  <2>1. tx'.hdr = tx.hdr
    BY <1>1, <1>4 DEF Tx
  <2>2. tx.hdr = HdrC0
    BY <1>4 DEF HeaderKept
  <2> QED
    BY <2>1, <2>2 DEF HeaderKept
<1>5. CASE tx.need /\ tx' = [tx EXCEPT !.need = FALSE, !.declared = v, !.skip = v - 2]
  <2>1. tx'.hdr = tx.hdr
    BY <1>1, <1>5 DEF Tx
  <2> QED
    BY <1>5, <2>1 DEF HeaderKept
<1>6. CASE v = HdrC0 /\ tx' = [tx EXCEPT !.hdr = v, !.need = TRUE]
  <2>1. tx'.hdr = HdrC0
    BY <1>1, <1>6 DEF Tx
  <2> QED
    BY <2>1 DEF HeaderKept
<1>7. \/ tx' = tx
      \/ tx' = IdleTx
      \/ tx.skip > 0 /\ tx' = [tx EXCEPT !.skip = @ - 1]
      \/ tx.need /\ tx' = [tx EXCEPT !.need = FALSE, !.declared = v, !.skip = v - 2]
      \/ v = HdrC0 /\ tx' = [tx EXCEPT !.hdr = v, !.need = TRUE]
  <2>1. CASE UNCHANGED <<tx, hook>>
    BY <2>1
  <2>2. CASE PayloadOctet(LinkAfterClock)
    BY <2>2 DEF PayloadOctet
  <2>3. CASE LengthOctet(v)
    BY <2>3 DEF LengthOctet
  <2>4. CASE HeaderOctet(v)
    BY <2>4 DEF HeaderOctet
  <2>5. CASE CommandOctet(LinkAfterClock, CsioAfterClock, v)
    BY <2>5 DEF CommandOctet
  <2> QED
    BY <2>1, <2>2, <2>3, <2>4, <2>5 DEF CpOctet
<1> QED
  BY <1>2, <1>3, <1>4, <1>5, <1>6, <1>7

LEMMA HeaderStep == IInv /\ HeaderKept /\ [Next]_vars => HeaderKept'
<1> SUFFICES ASSUME IInv, HeaderKept, [Next]_vars PROVE HeaderKept'
  OBVIOUS
<1>1. CASE UNCHANGED tx
  BY <1>1 DEF HeaderKept
<1>2. CASE CpCommand
  BY <1>2, HeaderOctets DEF CpCommand
<1>3. CASE CpStartDownload
  BY <1>3, HeaderOctets DEF CpStartDownload
<1>4. CASE CpContinueDownload
  BY <1>4, HeaderOctets DEF CpContinueDownload
<1>5. CpReceive \/ Poll \/ PollWithUi \/ PwrFailPulse \/ UNCHANGED vars => UNCHANGED tx
  BY DEF CpReceive, Poll, PollWithUi, HostPoll, PwrFailPulse, vars
<1> QED
  BY <1>1, <1>2, <1>3, <1>4, <1>5 DEF Next

\* Only the last octet of a download closes it with the CP still up.
LEMMA DoneByOctet ==
    ASSUME [Next]_vars, DownloadDone
    PROVE  CpContinueDownload
<1>1. cp.download.len = CfgLen /\ cp'.download = NoDownload /\ cp'.up
  BY DEF DownloadDone
<1>2. cp.download # NoDownload
  BY <1>1, CfgLenAssumption DEF NoDownload
<1>3. ~CpCommand /\ ~CpStartDownload
  BY <1>2 DEF CpCommand, CpStartDownload
<1>4. ~PwrFailPulse
  BY <1>1 DEF PwrFailPulse
<1>5. CASE cp' = cp
  BY <1>1, <1>2, <1>5
<1>6. CASE CpReceive
  <2>1. cp' = [cp EXCEPT !.up = CpUpAfterClock]
    BY <1>6 DEF CpReceive
  <2>2. cp'.download = cp.download
    BY <1>1, <2>1
  <2> QED
    BY <1>1, <1>2, <2>2
<1>7. Poll \/ PollWithUi \/ UNCHANGED vars => cp' = cp
  BY DEF Poll, PollWithUi, HostPoll, vars
<1> QED
  BY <1>3, <1>4, <1>5, <1>6, <1>7 DEF Next

LEMMA DoneIsAcked ==
    ASSUME IInv, HeaderKept, [Next]_vars, DownloadDone, ~wasReset
    PROVE  Acks(link') = Acks(LinkAfterClock) + 1
<1> DEFINE l == LinkAfterClock
           n == QueueNorm(l, Single(116))
           reports == ErrorReport \o StatusReport
<1>1. /\ enabled
      /\ cp.download.len = CfgLen /\ cp.download.togo = 1 /\ cp.download # NoDownload
  BY CfgLenAssumption DEF DownloadDone, NoDownload
<1>2. cp.up
  BY <1>1 DEF IInv, BootFirst
<1>3. 1 # CfgLen - 1
  BY CfgLenAssumption
<1>4. tx.skip = 1 /\ tx.declared = CfgLen
  BY <1>1, <1>2, <1>3 DEF IInv, DownloadInStep
<1>5. tx.hdr = HdrC0
  BY <1>4 DEF HeaderKept
<1>6. PICK v : CpOctet(v)
  BY DoneByOctet DEF CpContinueDownload
<1>7. PayloadOctet(l)
  BY <1>1, <1>4, <1>6 DEF CpOctet, LengthOctet, HeaderOctet, CommandOctet
<1>8. link' = QueuePrio(n, reports)
  BY <1>4, <1>5, <1>7 DEF PayloadOctet
<1>9. l \in QuietLink /\ n \in QuietLink
  BY AfterClock, AnswersMute, QueueQuiet
<1>10. l \in Link /\ n \in Link /\ link' \in Link
  <2>1. link' \in QuietLink
    BY <1>8, <1>9, ReportsMute, QueueQuiet
  <2> QED
    BY <1>9, <2>1, QuietIsLink
<1>11. Single(116) \in Seq(Byte) /\ reports \in Seq(Byte)
  BY AnswersMute, ReportsMute, MuteByte
<1> HIDE DEF l
<1>12. OnLink(n) = OnLink(l) + 1
  BY <1>10, <1>11, QueueAcks, AckCounts
<1>13. Cardinality(AckAt(reports)) = 0
  BY AckCounts
<1> HIDE DEF n, reports
<1>14. OnLink(QueuePrio(n, reports)) = OnLink(n) + 0
  BY <1>10, <1>11, <1>13, QueueAcks
<1>15. OnLink(l) \in Nat
  <2>1. Register(l) \in Seq(Byte) /\ l.prio \in Seq(Byte) /\ l.norm \in Seq(Byte)
    BY <1>10 DEF Link, Register
  <2> QED
    BY <2>1, AckFinite DEF OnLink
<1>16. Acks(link') = OnLink(l) + 1
  BY <1>8, <1>10, <1>12, <1>14, <1>15, AcksParts
<1> QED
  BY <1>10, <1>16, AcksParts DEF l

\* Until a reset under way, every complete download of the firmware's length is answered 0x74,
\* once, as soon as its last octet is there, for every such length.
THEOREM DownloadIsAcked == Spec => DownloadAcked
<1>1. IInv /\ HeaderKept /\ [Next]_vars
        => [DownloadDone /\ ~wasReset => Acks(link') = Acks(LinkAfterClock) + 1]_vars
  BY DoneIsAcked
<1> QED
  BY <1>1, InitInv, StepInv, HeaderInit, HeaderStep, PTL DEF Spec, DownloadAcked
===============================================================================
