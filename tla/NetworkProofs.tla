------------------------------ MODULE NetworkProofs ------------------------------
(***************************************************************************)
(* Proofs about what the terminal sends: the NCC session and the frames of *)
(* its line, the host bridge over TCP and the CSIO transmitter, for every  *)
(* value of their constants.                                               *)
(***************************************************************************)
EXTENDS NccSession, NccFrame, HostBridgeTcp, CsioTransmit, SequenceTheorems, BoundedInduction

-------------------------------------------------------------------------------
(* The NCC session: an established session means that the host has the     *)
(* last data frame, for every number of frames, retries and frames on the  *)
(* line, although the packet ids come round every four.  The argument is   *)
(* that of stop-and-wait on a line that keeps order: between a clear and   *)
(* the first frame of the host's own, nothing older than the frame before  *)
(* the last is under way, oldest first.                                    *)

\* The places on a line of the frames of one kind.
Of(line, kind) == {i \in DOMAIN line : line[i].kind = kind}

Kinds == {"data", "ack", "nack", "clear"}

\* Whatever is under way concerns data frame n.
Current(term, host, n) ==
    /\ \A i \in Of(term, "ack") : term[i].number = n
    /\ \A i \in Of(host, "data") : host[i].number = n

\* Nothing under way is older than the frame before n, and what is older comes first.
InOrder(term, host, n) ==
    /\ \A i \in Of(term, "ack") : term[i].number \in {n - 1, n}
    /\ \A i \in Of(host, "data") : host[i].number \in {n - 1, n}
    /\ \A i, j \in Of(term, "ack") : i <= j => term[i].number <= term[j].number
    /\ \A i, j \in Of(host, "data") : i <= j => host[i].number <= host[j].number
    /\ \A i \in Of(term, "ack"), j \in Of(host, "data") : term[i].number <= host[j].number

\* Neither an acknowledgement nor a data frame is under way.
Quiet(term, host) == Of(term, "ack") = {} /\ Of(host, "data") = {}

\* A clear is on its way to the terminal, at the front; it is nowhere else.
Clearing(term) == term # <<>> /\ term[1].kind = "clear"
ClearFirst(term) == Of(term, "clear") \subseteq {1}

RightIds(line) == \A i \in DOMAIN line : line[i].id = IdOf(line[i].number)
AcksArrived(term, arr) == \A i \in Of(term, "ack") : term[i].number \in arr

\* The states in which a new data frame may be sent.
Free(s) == s.state \in {"idle", "established"}

ClearingOk == Clearing(toTerm) =>
    Current(toTerm, toHost, sender.frames) /\ (Free(session) => Quiet(toTerm, toHost))
OrderOk == ~Clearing(toTerm) /\ ~sender.crossed =>
    /\ InOrder(toTerm, toHost, sender.frames)
    /\ Free(session) \/ session.id # IdOf(sender.frames) => Current(toTerm, toHost, sender.frames)

SessionInv == /\ EstablishedMeansArrived
              /\ AcksArrived(toTerm, arrived)
              /\ ClearFirst(toTerm)
              /\ RightIds(toTerm) /\ RightIds(toHost)
              /\ ClearingOk
              /\ OrderOk

-------------------------------------------------------------------------------
\* Types.

LEMMA IdType == \A n \in Nat : IdOf(n) \in PacketId
  BY DEF IdOf, PacketId

\* Two frames in a row never share an id.
LEMMA IdsDiffer == \A n \in Nat : n - 1 \in Nat => IdOf(n - 1) # IdOf(n)
  BY DEF IdOf

LEMMA FrameType ==
    \A kind \in {"data", "ack", "nack", "clear"}, n \in Nat :
        /\ Frame(kind, n) \in SessionFrame
        /\ Frame(kind, n).kind = kind /\ Frame(kind, n).number = n /\ Frame(kind, n).id = IdOf(n)
  BY IdType DEF Frame, SessionFrame

LEMMA SentType ==
    \A line \in Seq(SessionFrame), f \in SessionFrame : Sent(line, f) \in Seq(SessionFrame)
  BY DEF Sent

LEMMA TxType ==
    \A s \in Session, kind \in {"data", "ack"}, id \in PacketId :
        /\ OnTx(s, kind, id) \in Session
        /\ OnTx(s, kind, id).id = id
        /\ OnTx(s, "ack", id).state = "established"
        /\ OnTx(s, "data", id).state = IF s.state = "failed" THEN "failed" ELSE "waiting_ack"
  BY DEF OnTx, Session

LEMMA RxType ==
    ASSUME NEW s \in Session, NEW f \in SessionFrame
    PROVE  /\ OnRx(s, f) \in Session
           /\ OnRx(s, f).id = s.id
           /\ f.kind = "clear" => OnRx(s, f).state = "idle"
           /\ f.kind = "ack" /\ f.id = s.id => OnRx(s, f).state \in {"established", "failed"}
           /\ f.kind = "ack" /\ f.id # s.id => OnRx(s, f) = s
           /\ f.kind = "nack" => OnRx(s, f).state \in {s.state, "waiting_ack"}
           /\ f.kind = "data" => OnRx(s, f) = s
<1>1. s.state \in {"idle", "waiting_ack", "established", "failed"} /\ s.id \in PacketId
      /\ s.retries \in Nat /\ s.nacked \in BOOLEAN
  BY DEF Session
<1>2. CASE f.kind = "nack" /\ f.id = s.id
  <2> DEFINE st == IF s.state = "failed" THEN s.state ELSE "waiting_ack"
             r == [s EXCEPT !.nacked = TRUE, !.state = st]
  <2>1. OnRx(s, f) = r
    BY <1>2 DEF OnRx
  <2>2. st \in {s.state, "waiting_ack"} /\ st \in {"idle", "waiting_ack", "established", "failed"}
    BY <1>1
  <2> HIDE DEF st
  <2>3. r \in Session /\ r.id = s.id /\ r.state = st
    BY <1>1, <2>2 DEF Session
  <2> HIDE DEF r
  <2> QED
    BY <1>2, <2>1, <2>2, <2>3
<1>3. CASE f.kind = "ack" /\ f.id = s.id
  <2> DEFINE st == IF s.state = "failed" THEN s.state ELSE "established"
             r == [s EXCEPT !.nacked = FALSE, !.retries = 0, !.state = st]
  <2>1. OnRx(s, f) = r
    BY <1>3 DEF OnRx
  <2>2. st \in {"established", "failed"} /\ st \in {"idle", "waiting_ack", "established", "failed"}
    BY <1>1
  <2> HIDE DEF st
  <2>3. r \in Session /\ r.id = s.id /\ r.state = st
    BY <1>1, <2>2 DEF Session
  <2> HIDE DEF r
  <2> QED
    BY <1>3, <2>1, <2>2, <2>3
<1>4. CASE f.kind = "clear"
  <2> DEFINE r == [s EXCEPT !.nacked = FALSE, !.retries = 0, !.state = "idle"]
  <2>1. OnRx(s, f) = r
    BY <1>4 DEF OnRx
  <2>2. r \in Session /\ r.id = s.id /\ r.state = "idle"
    BY <1>1 DEF Session
  <2> HIDE DEF r
  <2> QED
    BY <1>4, <2>1, <2>2
<1>5. CASE f.kind # "clear" /\ ~(f.kind \in {"ack", "nack"} /\ f.id = s.id)
  <2>1. OnRx(s, f) = s
    BY <1>5 DEF OnRx
  <2> QED
    BY <1>5, <2>1
<1> QED
  BY <1>2, <1>3, <1>4, <1>5

LEMMA TimeoutType ==
    ASSUME NEW s \in Session
    PROVE  /\ OnTimeout(s) \in Session
           /\ OnTimeout(s).id = s.id
           /\ s.state # "waiting_ack" => OnTimeout(s) = s
           /\ s.state = "waiting_ack" => OnTimeout(s).state \in {"waiting_ack", "failed"}
<1>1. CASE s.state # "waiting_ack"
  BY <1>1 DEF OnTimeout
<1>2. CASE s.state = "waiting_ack"
  <2> DEFINE st == IF s.retries + 1 >= MaxRetries THEN "failed" ELSE s.state
             r == [s EXCEPT !.retries = s.retries + 1, !.state = st]
  <2>1. OnTimeout(s) = r
    BY <1>2 DEF OnTimeout
  <2>2. st \in {"waiting_ack", "failed"} /\ s.retries + 1 \in Nat
    BY <1>2 DEF Session
  <2> HIDE DEF st
  <2>3. r \in Session /\ r.id = s.id /\ r.state = st
    BY <2>2 DEF Session
  <2> HIDE DEF r
  <2> QED
    BY <1>2, <2>1, <2>2, <2>3
<1> QED
  BY <1>1, <1>2

-------------------------------------------------------------------------------
\* What taking from the front and sending at the end do to a line.

LEMMA Places ==
    ASSUME NEW q \in Seq(SessionFrame), NEW kind \in Kinds, NEW i \in Of(q, kind)
    PROVE  /\ i \in 1 .. Len(q) /\ i \in Nat
           /\ q[i] \in SessionFrame /\ q[i].kind = kind /\ q[i].number \in Nat
<1>1. i \in 1 .. Len(q) /\ q[i].kind = kind
  BY DEF Of
<1>2. q[i] \in SessionFrame
  BY <1>1
<1> QED
  BY <1>1, <1>2 DEF SessionFrame

LEMMA TakenInOrder ==
    ASSUME NEW q \in Seq(SessionFrame), q # <<>>
    PROVE  /\ Tail(q) \in Seq(SessionFrame)
           /\ Head(q) = q[1] /\ q[1] \in SessionFrame
           /\ \A kind \in Kinds : q[1].kind = kind => 1 \in Of(q, kind)
           /\ \A kind \in Kinds : \A i \in Of(Tail(q), kind) :
                 i + 1 \in Of(q, kind) /\ i \in Nat \ {0} /\ Tail(q)[i] = q[i + 1]
  BY DEF Of

LEMMA SentAtEnd ==
    ASSUME NEW q \in Seq(SessionFrame), NEW f \in SessionFrame
    PROVE  /\ Sent(q, f) \in Seq(SessionFrame)
           /\ \A kind \in Kinds : \A i \in Of(Sent(q, f), kind) :
                 \/ i \in Of(q, kind) /\ Sent(q, f)[i] = q[i]
                 \/ i = Len(q) + 1 /\ Sent(q, f)[i] = f /\ f.kind = kind
           /\ q # <<>> => Sent(q, f) # <<>> /\ Sent(q, f)[1] = q[1]
           /\ q = <<>> /\ Sent(q, f) # <<>> => Sent(q, f)[1] = f
<1>1. CASE Len(q) < MaxOnLine
  <2>1. Sent(q, f) = Append(q, f)
    BY <1>1 DEF Sent
  <2> QED
    BY <2>1 DEF Of
<1>2. CASE ~(Len(q) < MaxOnLine)
  BY <1>2 DEF Sent
<1> QED
  BY <1>1, <1>2

LEMMA SentPlaces ==
    ASSUME NEW q \in Seq(SessionFrame), NEW f \in SessionFrame
    PROVE  \A i \in DOMAIN Sent(q, f) :
              \/ i \in DOMAIN q /\ Sent(q, f)[i] = q[i]
              \/ Sent(q, f)[i] = f
  BY DEF Sent

LEMMA CurrentInOrder ==
    ASSUME NEW n \in Nat, NEW term \in Seq(SessionFrame), NEW host \in Seq(SessionFrame),
           Current(term, host, n)
    PROVE  InOrder(term, host, n)
  BY Places DEF Kinds, Current, InOrder

LEMMA TakeTerm ==
    ASSUME NEW n \in Nat, NEW term \in Seq(SessionFrame), NEW host \in Seq(SessionFrame), term # <<>>
    PROVE  /\ Current(term, host, n) => Current(Tail(term), host, n)
           /\ InOrder(term, host, n) => InOrder(Tail(term), host, n)
  BY TakenInOrder, Places, SMTT(60) DEF Kinds, Current, InOrder

LEMMA TakeHost ==
    ASSUME NEW n \in Nat, NEW term \in Seq(SessionFrame), NEW host \in Seq(SessionFrame), host # <<>>
    PROVE  /\ Current(term, host, n) => Current(term, Tail(host), n)
           /\ InOrder(term, host, n) => InOrder(term, Tail(host), n)
  BY TakenInOrder, Places DEF Kinds, Current, InOrder

\* A new frame behind frames that all concern the last one.
LEMMA SendNew ==
    ASSUME NEW n \in Nat, NEW term \in Seq(SessionFrame), NEW host \in Seq(SessionFrame),
           Current(term, host, n), NEW f \in SessionFrame, f.kind = "data", f.number = n + 1
    PROVE  InOrder(term, Sent(host, f), n + 1)
<1>1. \A i \in Of(Sent(host, f), "data") :
         \/ i \in Of(host, "data") /\ Sent(host, f)[i] = host[i]
         \/ i = Len(host) + 1 /\ Sent(host, f)[i] = f /\ f.kind = "data"
  BY SentAtEnd DEF Kinds
<1>2. /\ \A i \in Of(term, "ack") : i \in 1 .. Len(term) /\ term[i].number \in Nat
      /\ \A i \in Of(host, "data") : i \in 1 .. Len(host) /\ host[i].number \in Nat
      /\ Len(term) \in Nat /\ Len(host) \in Nat
  BY Places DEF Kinds
<1>3. \A i \in Of(term, "ack") : term[i].number \in {n, n + 1}
  BY <1>1, <1>2 DEF Current
<1>4. \A i \in Of(Sent(host, f), "data") : Sent(host, f)[i].number \in {n, n + 1}
  BY <1>1, <1>2 DEF Current
<1>5. \A i, j \in Of(term, "ack") : i <= j => term[i].number <= term[j].number
  BY <1>1, <1>2 DEF Current
<1>6. \A i, j \in Of(Sent(host, f), "data") : i <= j => Sent(host, f)[i].number <= Sent(host, f)[j].number
  BY <1>1, <1>2 DEF Current
<1>7. \A i \in Of(term, "ack"), j \in Of(Sent(host, f), "data") : term[i].number <= Sent(host, f)[j].number
  BY <1>1, <1>2 DEF Current
<1> QED
  BY <1>3, <1>4, <1>5, <1>6, <1>7 DEF InOrder

LEMMA SendAgain ==
    ASSUME NEW n \in Nat, NEW term \in Seq(SessionFrame), NEW host \in Seq(SessionFrame),
           NEW f \in SessionFrame, f.kind = "data" => f.number = n
    PROVE  /\ Current(term, host, n) => Current(term, Sent(host, f), n)
           /\ InOrder(term, host, n) => InOrder(term, Sent(host, f), n)
<1>1. \A i \in Of(Sent(host, f), "data") :
         \/ i \in Of(host, "data") /\ Sent(host, f)[i] = host[i]
         \/ i = Len(host) + 1 /\ Sent(host, f)[i] = f /\ f.kind = "data"
  BY SentAtEnd DEF Kinds
<1>2. /\ \A i \in Of(term, "ack") : i \in 1 .. Len(term) /\ term[i].number \in Nat
      /\ \A i \in Of(host, "data") : i \in 1 .. Len(host) /\ host[i].number \in Nat
      /\ Len(term) \in Nat /\ Len(host) \in Nat
  BY Places DEF Kinds
<1>3. Current(term, host, n) => Current(term, Sent(host, f), n)
  BY <1>1 DEF Current
<1>4. ASSUME InOrder(term, host, n) PROVE InOrder(term, Sent(host, f), n)
  <2>1. \A i \in Of(term, "ack") : term[i].number \in {n - 1, n}
    BY <1>1, <1>2, <1>4 DEF InOrder
  <2>2. \A i \in Of(Sent(host, f), "data") : Sent(host, f)[i].number \in {n - 1, n}
    BY <1>1, <1>2, <1>4 DEF InOrder
  <2>3. \A i, j \in Of(term, "ack") : i <= j => term[i].number <= term[j].number
    BY <1>1, <1>2, <1>4 DEF InOrder
  <2>4. \A i, j \in Of(Sent(host, f), "data") : i <= j => Sent(host, f)[i].number <= Sent(host, f)[j].number
    BY <1>1, <1>2, <1>4 DEF InOrder
  <2>5. \A i \in Of(term, "ack"), j \in Of(Sent(host, f), "data") : term[i].number <= Sent(host, f)[j].number
    BY <1>1, <1>2, <1>4 DEF InOrder
  <2> QED
    BY <2>1, <2>2, <2>3, <2>4, <2>5 DEF InOrder
<1> QED
  BY <1>3, <1>4

\* The host's answer takes the place of the frame it answers.
LEMMA AnswerSent ==
    ASSUME NEW n \in Nat, NEW term \in Seq(SessionFrame), NEW host \in Seq(SessionFrame),
           host # <<>>, NEW f \in SessionFrame,
           f.kind = "ack" => host[1].kind = "data" /\ f.number = host[1].number
    PROVE  /\ Current(term, host, n) => Current(Sent(term, f), Tail(host), n)
           /\ InOrder(term, host, n) => InOrder(Sent(term, f), Tail(host), n)
<1>1. /\ f.kind = "ack" => 1 \in Of(host, "data")
      /\ \A i \in Of(Tail(host), "data") :
            i + 1 \in Of(host, "data") /\ i \in Nat \ {0} /\ Tail(host)[i] = host[i + 1]
  BY TakenInOrder DEF Kinds
<1>2. \A i \in Of(Sent(term, f), "ack") :
         \/ i \in Of(term, "ack") /\ Sent(term, f)[i] = term[i]
         \/ i = Len(term) + 1 /\ Sent(term, f)[i] = f /\ f.kind = "ack"
  BY SentAtEnd DEF Kinds
<1>3. /\ \A i \in Of(term, "ack") : i \in 1 .. Len(term) /\ term[i].number \in Nat
      /\ \A i \in Of(host, "data") : i \in Nat /\ host[i].number \in Nat
      /\ Len(term) \in Nat
  BY Places DEF Kinds
<1>4. Current(term, host, n) => Current(Sent(term, f), Tail(host), n)
  BY <1>1, <1>2, ZenonT(40) DEF Current
<1>5. ASSUME InOrder(term, host, n) PROVE InOrder(Sent(term, f), Tail(host), n)
  <2>1. \A i \in Of(Sent(term, f), "ack") : Sent(term, f)[i].number \in {n - 1, n}
    BY <1>1, <1>2, <1>3, <1>5 DEF InOrder
  <2>0. InOrder(term, Tail(host), n)
    BY <1>5, TakeHost
  <2>2. \A i \in Of(Tail(host), "data") : Tail(host)[i].number \in {n - 1, n}
    BY <2>0 DEF InOrder
  <2>3. \A i, j \in Of(Sent(term, f), "ack") : i <= j => Sent(term, f)[i].number <= Sent(term, f)[j].number
    BY <1>1, <1>2, <1>3, <1>5 DEF InOrder
  <2>4. \A i, j \in Of(Tail(host), "data") : i <= j => Tail(host)[i].number <= Tail(host)[j].number
    BY <2>0 DEF InOrder
  <2>5. \A i \in Of(Sent(term, f), "ack"), j \in Of(Tail(host), "data") : Sent(term, f)[i].number <= Tail(host)[j].number
    <3> SUFFICES ASSUME NEW i \in Of(Sent(term, f), "ack"), NEW j \in Of(Tail(host), "data")
                 PROVE  Sent(term, f)[i].number <= Tail(host)[j].number
      OBVIOUS
    <3>1. CASE i \in Of(term, "ack") /\ Sent(term, f)[i] = term[i]
      BY <3>1, <2>0 DEF InOrder
    <3>2. CASE Sent(term, f)[i] = f /\ f.kind = "ack"
      <4>0. 1 \in Of(host, "data")
        BY <1>1, <3>2
      <4>3. j + 1 \in Of(host, "data") /\ j \in Nat \ {0} /\ Tail(host)[j] = host[j + 1]
        BY <1>1
      <4>1. 1 <= j + 1
        BY <4>3
      <4>2. host[1].number <= host[j + 1].number
        BY <4>0, <4>1, <4>3, <1>5 DEF InOrder
      <4> QED
        BY <4>2, <4>3, <3>2
    <3> QED
      BY <1>2, <3>1, <3>2
  <2> QED
    BY <2>1, <2>2, <2>3, <2>4, <2>5 DEF InOrder
<1> QED
  BY <1>4, <1>5

LEMMA SendOther ==
    ASSUME NEW n \in Nat, NEW term \in Seq(SessionFrame), NEW host \in Seq(SessionFrame),
           NEW f \in SessionFrame, f.kind # "ack"
    PROVE  /\ Current(term, host, n) => Current(Sent(term, f), host, n)
           /\ InOrder(term, host, n) => InOrder(Sent(term, f), host, n)
<1>1. \A i \in Of(Sent(term, f), "ack") :
         \/ i \in Of(term, "ack") /\ Sent(term, f)[i] = term[i]
         \/ i = Len(term) + 1 /\ Sent(term, f)[i] = f /\ f.kind = "ack"
  BY SentAtEnd DEF Kinds
<1>2. /\ \A i \in Of(term, "ack") : i \in 1 .. Len(term) /\ term[i].number \in Nat
      /\ \A i \in Of(host, "data") : i \in 1 .. Len(host) /\ host[i].number \in Nat
      /\ Len(term) \in Nat /\ Len(host) \in Nat
  BY Places DEF Kinds
<1>3. Current(term, host, n) => Current(Sent(term, f), host, n)
  BY <1>1 DEF Current
<1>4. ASSUME InOrder(term, host, n) PROVE InOrder(Sent(term, f), host, n)
  <2>1. \A i \in Of(Sent(term, f), "ack") : Sent(term, f)[i].number \in {n - 1, n}
    BY <1>1, <1>2, <1>4 DEF InOrder
  <2>2. \A i \in Of(host, "data") : host[i].number \in {n - 1, n}
    BY <1>1, <1>2, <1>4 DEF InOrder
  <2>3. \A i, j \in Of(Sent(term, f), "ack") : i <= j => Sent(term, f)[i].number <= Sent(term, f)[j].number
    BY <1>1, <1>2, <1>4 DEF InOrder
  <2>4. \A i, j \in Of(host, "data") : i <= j => host[i].number <= host[j].number
    BY <1>1, <1>2, <1>4 DEF InOrder
  <2>5. \A i \in Of(Sent(term, f), "ack"), j \in Of(host, "data") : Sent(term, f)[i].number <= host[j].number
    BY <1>1, <1>2, <1>4 DEF InOrder
  <2> QED
    BY <2>1, <2>2, <2>3, <2>4, <2>5 DEF InOrder
<1> QED
  BY <1>3, <1>4

\* With the newest acknowledgement at the front nothing older is left anywhere.
LEMMA NewestFirst ==
    ASSUME NEW n \in Nat, NEW term \in Seq(SessionFrame), NEW host \in Seq(SessionFrame),
           InOrder(term, host, n), term # <<>>, term[1].kind = "ack", term[1].number = n
    PROVE  Current(term, host, n)
  BY TakenInOrder, Places DEF Kinds, Current, InOrder

\* A frame that is no clear changes nothing about the clear under way.
LEMMA TermSent ==
    ASSUME NEW term \in Seq(SessionFrame), ClearFirst(term), RightIds(term),
           NEW f \in SessionFrame, f.kind # "clear", f.id = IdOf(f.number)
    PROVE  /\ ClearFirst(Sent(term, f)) /\ RightIds(Sent(term, f))
           /\ Clearing(Sent(term, f)) <=> Clearing(term)
<1>1. \A i \in Of(Sent(term, f), "clear") : i \in Of(term, "clear")
  BY SentAtEnd DEF Kinds
<1>2. ClearFirst(Sent(term, f))
  BY <1>1 DEF ClearFirst
<1>3. RightIds(Sent(term, f))
  BY SentPlaces DEF RightIds
<1>4. /\ term # <<>> => Sent(term, f) # <<>> /\ Sent(term, f)[1] = term[1]
      /\ term = <<>> /\ Sent(term, f) # <<>> => Sent(term, f)[1] = f
  BY SentAtEnd
<1>5. Clearing(Sent(term, f)) <=> Clearing(term)
  BY <1>4 DEF Clearing
<1> QED
  BY <1>2, <1>3, <1>5

LEMMA HostSent ==
    ASSUME NEW host \in Seq(SessionFrame), RightIds(host),
           NEW f \in SessionFrame, f.id = IdOf(f.number)
    PROVE  RightIds(Sent(host, f))
  BY SentPlaces DEF RightIds

LEMMA TermTaken ==
    ASSUME NEW term \in Seq(SessionFrame), ClearFirst(term), RightIds(term), term # <<>>
    PROVE  ClearFirst(Tail(term)) /\ RightIds(Tail(term)) /\ ~Clearing(Tail(term))
<1>1. \A i \in DOMAIN Tail(term) : i + 1 \in DOMAIN term /\ i \in Nat \ {0} /\ Tail(term)[i] = term[i + 1]
  OBVIOUS
<1>2. Of(Tail(term), "clear") = {}
  BY <1>1 DEF ClearFirst, Of
<1> QED
  BY <1>1, <1>2 DEF ClearFirst, RightIds, Clearing, Of

LEMMA HostTaken ==
    ASSUME NEW host \in Seq(SessionFrame), RightIds(host), host # <<>>
    PROVE  RightIds(Tail(host)) /\ Head(host).id = IdOf(Head(host).number)
  BY DEF RightIds

LEMMA AcksSent ==
    ASSUME NEW term \in Seq(SessionFrame), NEW arr, NEW new, arr \subseteq new, AcksArrived(term, arr),
           NEW f \in SessionFrame, f.kind = "ack" => f.number \in new
    PROVE  AcksArrived(Sent(term, f), new)
<1>1. \A i \in Of(Sent(term, f), "ack") :
         \/ i \in Of(term, "ack") /\ Sent(term, f)[i] = term[i]
         \/ i = Len(term) + 1 /\ Sent(term, f)[i] = f /\ f.kind = "ack"
  BY SentAtEnd DEF Kinds
<1> QED
  BY <1>1 DEF AcksArrived

LEMMA AcksTaken ==
    ASSUME NEW term \in Seq(SessionFrame), NEW arr, AcksArrived(term, arr), term # <<>>
    PROVE  AcksArrived(Tail(term), arr)
  BY TakenInOrder, ZenonT(40) DEF Kinds, AcksArrived

-------------------------------------------------------------------------------
\* Types of the steps.

SessionType == NccSessionTypeOK /\ IsFiniteSet(arrived)

LEMMA SessionInitType == NccSessionInit => SessionType
  BY FS_EmptySet DEF NccSessionInit, SessionType, NccSessionTypeOK, Session, Sender, PacketId

\* The parts of the type, and of what Receive and the host make of the frame in front.
LEMMA Parts ==
    ASSUME SessionType
    PROVE  /\ session \in Session /\ session.id \in PacketId
           /\ sender \in Sender /\ sender.frames \in Nat /\ sender.crossed \in BOOLEAN
           /\ toHost \in Seq(SessionFrame) /\ toTerm \in Seq(SessionFrame)
           /\ arrived \subseteq Nat /\ IsFiniteSet(arrived) /\ Cardinality(arrived) + 1 \in Nat
           /\ IdOf(sender.frames) \in PacketId
           /\ IdOf(sender.frames + 1) \in PacketId
<1>1. Cardinality(arrived) + 1 \in Nat
  BY FS_CardinalityType DEF SessionType
<1> QED
  BY <1>1, IdType DEF SessionType, NccSessionTypeOK, Session, Sender

LEMMA InFront ==
    ASSUME NEW q \in Seq(SessionFrame), q # <<>>
    PROVE  /\ Head(q) \in SessionFrame /\ Head(q) = q[1]
           /\ Head(q).kind \in Kinds /\ Head(q).number \in Nat /\ Head(q).id \in PacketId
           /\ Tail(q) \in Seq(SessionFrame)
<1>1. Head(q) \in SessionFrame /\ Head(q) = q[1] /\ Tail(q) \in Seq(SessionFrame)
  OBVIOUS
<1> QED
  BY <1>1 DEF SessionFrame, Kinds

LEMMA Acknowledged ==
    ASSUME NEW f \in SessionFrame
    PROVE  /\ [f EXCEPT !.kind = "ack"] \in SessionFrame
           /\ [f EXCEPT !.kind = "ack"].kind = "ack"
           /\ [f EXCEPT !.kind = "ack"].number = f.number
           /\ [f EXCEPT !.kind = "ack"].id = f.id
  BY DEF SessionFrame

\* What Resend does, whatever brought it about.
LEMMA ResendType ==
    ASSUME SessionType, NEW s \in Session, s.state = "waiting_ack", Resend(s)
    PROVE  /\ session' \in Session /\ session'.state = "waiting_ack"
           /\ session'.id = IdOf(sender.frames)
           /\ sender' = sender
           /\ toHost' = Sent(toHost, Frame("data", sender.frames))
           /\ toHost' \in Seq(SessionFrame)
<1>1. sender.frames \in Nat /\ toHost \in Seq(SessionFrame) /\ IdOf(sender.frames) \in PacketId
  BY Parts
<1>2. session' = OnTx(s, "data", IdOf(sender.frames))
  BY DEF Resend
<1>3. Frame("data", sender.frames) \in SessionFrame
  BY <1>1, FrameType
<1> QED
  BY <1>1, <1>2, <1>3, TxType, SentType DEF Resend

LEMMA SendDataType ==
    ASSUME SessionType, SendData
    PROVE  /\ SessionType'
           /\ sender'.frames = sender.frames + 1 /\ sender'.crossed = sender.crossed
           /\ session'.state = "waiting_ack" /\ session'.id = IdOf(sender.frames + 1)
           /\ toHost' = Sent(toHost, Frame("data", sender.frames + 1))
           /\ toTerm' = toTerm /\ arrived' = arrived
<1> DEFINE n == sender.frames + 1
<1>1. n \in Nat /\ IdOf(n) \in PacketId /\ session \in Session
  BY Parts
<1>2. session.state # "failed"
  BY DEF SendData
<1>3. session' = OnTx(session, "data", IdOf(n)) /\ toHost' = Sent(toHost, Frame("data", n))
      /\ toTerm' = toTerm /\ arrived' = arrived
  BY DEF SendData
<1>4. session' \in Session /\ session'.state = "waiting_ack" /\ session'.id = IdOf(n)
  BY <1>1, <1>2, <1>3, TxType
<1>5. sender' \in Sender /\ sender'.frames = n /\ sender'.crossed = sender.crossed
  BY <1>1, Parts DEF SendData, Sender
<1>6. toHost' \in Seq(SessionFrame)
  BY <1>1, <1>3, FrameType, SentType, Parts
<1> QED
  BY <1>3, <1>4, <1>5, <1>6, Parts DEF SessionType, NccSessionTypeOK

-------------------------------------------------------------------------------
\* The invariant, action by action.

LEMMA SessionInitInv == NccSessionInit => SessionInv
<1> SUFFICES ASSUME NccSessionInit PROVE SessionInv
  OBVIOUS
<1>1. session.state = "idle" /\ toTerm = <<>> /\ toHost = <<>> /\ arrived = {}
  BY DEF NccSessionInit
<1>2. \A kind : Of(<<>>, kind) = {}
  BY DEF Of
<1> QED
  BY <1>1, <1>2 DEF SessionInv, EstablishedMeansArrived, AcksArrived, ClearFirst, RightIds,
                    ClearingOk, OrderOk, Clearing, InOrder, Current

LEMMA SendDataInv == SessionType /\ SessionInv /\ SendData => SessionType' /\ SessionInv'
<1> SUFFICES ASSUME SessionType, SessionInv, SendData PROVE SessionType' /\ SessionInv'
  OBVIOUS
<1> DEFINE n == sender.frames
           f == Frame("data", n + 1)
<1>1. /\ SessionType' /\ sender'.frames = n + 1 /\ sender'.crossed = sender.crossed
      /\ session'.state = "waiting_ack" /\ session'.id = IdOf(n + 1)
      /\ toHost' = Sent(toHost, f) /\ toTerm' = toTerm /\ arrived' = arrived
  BY SendDataType
<1>2. n \in Nat /\ n + 1 \in Nat /\ toHost \in Seq(SessionFrame) /\ toTerm \in Seq(SessionFrame)
  BY Parts
<1>3. f \in SessionFrame /\ f.kind = "data" /\ f.number = n + 1 /\ f.id = IdOf(n + 1)
  BY <1>2, FrameType
<1>4. Free(session) /\ ~Free(session')
  BY <1>1 DEF Free, SendData
<1>5. RightIds(toHost')
  BY <1>1, <1>2, <1>3, HostSent DEF SessionInv
<1>6. ClearingOk'
  <2> SUFFICES ASSUME Clearing(toTerm) PROVE Current(toTerm, Sent(toHost, f), n + 1)
    BY <1>1, <1>4 DEF ClearingOk
  <2>1. Of(toTerm, "ack") = {} /\ Of(toHost, "data") = {}
    BY <1>4 DEF SessionInv, ClearingOk, Quiet
  <2>2. \A i \in Of(Sent(toHost, f), "data") : Sent(toHost, f)[i] = f
    BY <1>2, <1>3, <2>1, SentAtEnd DEF Kinds
  <2> QED
    BY <1>3, <2>1, <2>2 DEF Current
<1>7. OrderOk'
  <2> SUFFICES ASSUME ~Clearing(toTerm), ~sender.crossed PROVE InOrder(toTerm, Sent(toHost, f), n + 1)
    BY <1>1, <1>4 DEF OrderOk
  <2>1. Current(toTerm, toHost, n)
    BY <1>4 DEF SessionInv, OrderOk
  <2> QED
    BY <1>2, <1>3, <2>1, SendNew
<1> QED
  BY <1>1, <1>5, <1>6, <1>7 DEF SessionInv, EstablishedMeansArrived

\* Sending the last frame again, from any state that awaits an answer.
LEMMA AgainInv ==
    ASSUME SessionType, SessionInv,
           session'.state \in {"waiting_ack", "failed"}, session'.id \in {session.id, IdOf(sender.frames)},
           session.state = "waiting_ack" \/ session'.id = IdOf(sender.frames),
           sender' = sender, arrived' = arrived,
           toHost' \in {toHost, Sent(toHost, Frame("data", sender.frames))},
           \/ toTerm' = toTerm
           \/ toTerm # <<>> /\ toTerm' = Tail(toTerm) /\ ~Clearing(toTerm)
    PROVE  SessionInv'
<1> DEFINE n == sender.frames
           f == Frame("data", n)
<1>1. n \in Nat /\ toHost \in Seq(SessionFrame) /\ toTerm \in Seq(SessionFrame)
  BY Parts
<1>2. f \in SessionFrame /\ f.kind = "data" /\ f.number = n /\ f.id = IdOf(n)
  BY <1>1, FrameType
<1>3. toTerm' \in Seq(SessionFrame) /\ AcksArrived(toTerm', arrived) /\ ClearFirst(toTerm') /\ RightIds(toTerm')
      /\ (Clearing(toTerm') <=> Clearing(toTerm))
  BY <1>1, TermTaken, AcksTaken, TakenInOrder DEF SessionInv
<1>4. RightIds(toHost') /\ toHost' \in Seq(SessionFrame)
  BY <1>1, <1>2, HostSent, SentType DEF SessionInv
<1>5. /\ Current(toTerm, toHost, n) => Current(toTerm', toHost, n)
      /\ InOrder(toTerm, toHost, n) => InOrder(toTerm', toHost, n)
  BY <1>1, TakeTerm
<1>6. /\ Current(toTerm', toHost, n) => Current(toTerm', toHost', n)
      /\ InOrder(toTerm', toHost, n) => InOrder(toTerm', toHost', n)
  BY <1>1, <1>2, <1>3, SendAgain
<1>7. ~Free(session')
  BY DEF Free
<1>8. ClearingOk'
  BY <1>3, <1>5, <1>6, <1>7 DEF ClearingOk, SessionInv
<1>9. OrderOk'
  BY <1>3, <1>5, <1>6, <1>7 DEF OrderOk, SessionInv
<1> QED
  BY <1>3, <1>4, <1>8, <1>9 DEF SessionInv, EstablishedMeansArrived

LEMMA AckTimeoutInv == SessionType /\ SessionInv /\ AckTimeout => SessionType' /\ SessionInv'
<1> SUFFICES ASSUME SessionType, SessionInv, AckTimeout PROVE SessionType' /\ SessionInv'
  OBVIOUS
<1> DEFINE s == OnTimeout(session)
<1>1. session \in Session /\ session.state = "waiting_ack" /\ toTerm' = toTerm /\ arrived' = arrived
  BY Parts DEF AckTimeout
<1>2. s \in Session /\ s.id = session.id /\ s.state \in {"waiting_ack", "failed"}
  BY <1>1, TimeoutType
<1> HIDE DEF s
<1>3. CASE s.state = "waiting_ack" /\ sender.frames > 0
  <2>1. Resend(s)
    BY <1>3 DEF AckTimeout, s
  <2>2. /\ session' \in Session /\ session'.state = "waiting_ack"
        /\ session'.id = IdOf(sender.frames) /\ sender' = sender
        /\ toHost' = Sent(toHost, Frame("data", sender.frames)) /\ toHost' \in Seq(SessionFrame)
    BY <1>2, <1>3, <2>1, ResendType
  <2>3. SessionType'
    BY <1>1, <2>2 DEF SessionType, NccSessionTypeOK
  <2>4. /\ session'.state \in {"waiting_ack", "failed"}
        /\ session'.id \in {session.id, IdOf(sender.frames)}
        /\ toHost' \in {toHost, Sent(toHost, Frame("data", sender.frames))}
    BY <2>2
  <2>5. SessionInv'
    BY <1>1, <2>2, <2>4, AgainInv
  <2> QED
    BY <2>3, <2>5
<1>4. CASE ~(s.state = "waiting_ack" /\ sender.frames > 0)
  <2>1. session' = s /\ sender' = sender /\ toHost' = toHost
    BY <1>4 DEF AckTimeout, s
  <2>2. SessionType'
    BY <1>1, <1>2, <2>1 DEF SessionType, NccSessionTypeOK
  <2>3. /\ session'.state \in {"waiting_ack", "failed"}
        /\ session'.id \in {session.id, IdOf(sender.frames)}
        /\ toHost' \in {toHost, Sent(toHost, Frame("data", sender.frames))}
    BY <1>2, <2>1
  <2>4. SessionInv'
    BY <1>1, <2>1, <2>3, AgainInv
  <2> QED
    BY <2>2, <2>4
<1> QED
  BY <1>3, <1>4

LEMMA IdleTimeoutInv == SessionType /\ SessionInv /\ IdleTimeout => SessionType' /\ SessionInv'
<1> SUFFICES ASSUME SessionType, SessionInv, IdleTimeout PROVE SessionType' /\ SessionInv'
  OBVIOUS
<1>1. session' = session
  BY Parts, TimeoutType DEF IdleTimeout
<1> QED
  BY <1>1 DEF IdleTimeout, SessionType, NccSessionTypeOK, SessionInv, EstablishedMeansArrived,
              ClearingOk, OrderOk

\* A frame of the host's own: from here on nothing is promised until a clear.
LEMMA ReceiveDataInv ==
    ASSUME SessionType, SessionInv, Receive, Head(toTerm).kind = "data"
    PROVE  SessionType' /\ SessionInv'
<1> DEFINE f == Head(toTerm)
           g == [f EXCEPT !.kind = "ack"]
<1>1. toTerm # <<>> /\ toTerm \in Seq(SessionFrame) /\ toHost \in Seq(SessionFrame) /\ session \in Session
  BY Parts DEF Receive
<1>2. f \in SessionFrame /\ f = toTerm[1] /\ f.id \in PacketId /\ Tail(toTerm) \in Seq(SessionFrame)
  BY <1>1, InFront
<1>3. OnRx(session, f) = session
  BY <1>1, <1>2, RxType
<1>4. /\ session' = OnTx(session, "ack", f.id) /\ sender' = [sender EXCEPT !.crossed = TRUE]
      /\ toHost' = Sent(toHost, g) /\ toTerm' = Tail(toTerm) /\ arrived' = arrived
  BY <1>3 DEF Receive
<1>5. g \in SessionFrame /\ g.id = f.id /\ g.number = f.number
  BY <1>2, Acknowledged
<1>6. f.id = IdOf(f.number)
  BY <1>1, HostTaken DEF SessionInv
<1>7. session' \in Session
  BY <1>1, <1>2, <1>4, TxType
<1>8. sender' \in Sender /\ sender'.crossed = TRUE
  BY <1>4, Parts DEF Sender
<1>9. toHost' \in Seq(SessionFrame) /\ RightIds(toHost')
  BY <1>1, <1>4, <1>5, <1>6, SentType, HostSent DEF SessionInv
<1>10. AcksArrived(toTerm', arrived) /\ ClearFirst(toTerm') /\ RightIds(toTerm') /\ ~Clearing(toTerm')
  BY <1>1, <1>4, TermTaken, AcksTaken DEF SessionInv
<1>11. SessionType'
  BY <1>2, <1>4, <1>7, <1>8, <1>9 DEF SessionType, NccSessionTypeOK
<1> QED
  BY <1>4, <1>8, <1>9, <1>10, <1>11 DEF SessionInv, EstablishedMeansArrived, ClearingOk, OrderOk

\* The other frames: what holds whichever they are.
LEMMA ReceiveRest ==
    ASSUME SessionType, SessionInv, Receive, Head(toTerm).kind # "data"
    PROVE  LET f == Head(toTerm)
               after == OnRx(session, f)
           IN /\ f \in SessionFrame /\ f = toTerm[1] /\ f.kind \in {"ack", "nack", "clear"}
              /\ f.id = IdOf(f.number) /\ f.number \in Nat
              /\ after \in Session /\ after.id = session.id
              /\ toTerm # <<>> /\ toTerm' = Tail(toTerm) /\ toTerm' \in Seq(SessionFrame)
              /\ AcksArrived(toTerm', arrived) /\ ClearFirst(toTerm') /\ RightIds(toTerm')
              /\ ~Clearing(toTerm') /\ arrived' = arrived
              /\ Clearing(toTerm) <=> f.kind = "clear"
              /\ Current(toTerm, toHost, sender.frames) => Current(toTerm', toHost, sender.frames)
              /\ InOrder(toTerm, toHost, sender.frames) => InOrder(toTerm', toHost, sender.frames)
<1> DEFINE f == Head(toTerm)
<1>1. toTerm # <<>> /\ toTerm \in Seq(SessionFrame) /\ toHost \in Seq(SessionFrame)
      /\ session \in Session /\ sender.frames \in Nat /\ toTerm' = Tail(toTerm) /\ arrived' = arrived
  BY Parts DEF Receive
<1>2. f \in SessionFrame /\ f = toTerm[1] /\ f.kind \in {"ack", "nack", "clear"} /\ f.number \in Nat
      /\ Tail(toTerm) \in Seq(SessionFrame)
  BY <1>1, InFront DEF Kinds
<1>3. f.id = IdOf(f.number)
  BY <1>1, HostTaken DEF SessionInv
<1>4. AcksArrived(toTerm', arrived) /\ ClearFirst(toTerm') /\ RightIds(toTerm') /\ ~Clearing(toTerm')
  BY <1>1, TermTaken, AcksTaken DEF SessionInv
<1>5. OnRx(session, f) \in Session /\ OnRx(session, f).id = session.id
  BY <1>1, <1>2, RxType
<1>6. Clearing(toTerm) <=> f.kind = "clear"
  BY <1>1, <1>2 DEF Clearing
<1>7. /\ Current(toTerm, toHost, sender.frames) => Current(toTerm', toHost, sender.frames)
      /\ InOrder(toTerm, toHost, sender.frames) => InOrder(toTerm', toHost, sender.frames)
  BY <1>1, TakeTerm
<1> QED
  BY <1>1, <1>2, <1>3, <1>4, <1>5, <1>6, <1>7

LEMMA ReceiveNackInv ==
    ASSUME SessionType, SessionInv, Receive, Head(toTerm).kind = "nack"
    PROVE  SessionType' /\ SessionInv'
<1> DEFINE f == Head(toTerm)
           s == OnRx(session, f)
           n == sender.frames
<1>1. /\ f \in SessionFrame /\ f.kind = "nack" /\ s \in Session /\ s.id = session.id
      /\ toTerm # <<>> /\ toTerm' = Tail(toTerm) /\ toTerm' \in Seq(SessionFrame)
      /\ AcksArrived(toTerm', arrived) /\ ClearFirst(toTerm') /\ RightIds(toTerm')
      /\ ~Clearing(toTerm) /\ ~Clearing(toTerm') /\ arrived' = arrived
      /\ Current(toTerm, toHost, n) => Current(toTerm', toHost, n)
      /\ InOrder(toTerm, toHost, n) => InOrder(toTerm', toHost, n)
  BY ReceiveRest
<1>2. s.state \in {session.state, "waiting_ack"}
  BY <1>1, Parts, RxType
<1>3. CASE f.kind = "nack" /\ s.nacked /\ s.state = "waiting_ack" /\ n > 0
  <2>1. Resend(s)
    BY <1>1, <1>3 DEF Receive
  <2> HIDE DEF s
  <2>2. /\ session' \in Session /\ session'.state = "waiting_ack"
        /\ session'.id = IdOf(n) /\ sender' = sender
        /\ toHost' = Sent(toHost, Frame("data", n)) /\ toHost' \in Seq(SessionFrame)
    BY <1>1, <1>3, <2>1, ResendType
  <2>3. SessionType'
    BY <1>1, <2>2 DEF SessionType, NccSessionTypeOK
  <2>4. /\ session'.state \in {"waiting_ack", "failed"}
        /\ session'.id \in {session.id, IdOf(n)}
        /\ toHost' \in {toHost, Sent(toHost, Frame("data", n))}
    BY <2>2
  <2>5. SessionInv'
    BY <1>1, <2>2, <2>4, AgainInv
  <2> QED
    BY <2>3, <2>5
<1>4. CASE ~(f.kind = "nack" /\ s.nacked /\ s.state = "waiting_ack" /\ n > 0)
  <2>1. /\ session' = s /\ sender' = [sender EXCEPT !.crossed = @ /\ f.kind # "clear"]
        /\ toHost' = toHost
    BY <1>1, <1>4 DEF Receive
  <2>2. sender' = sender
    BY <1>1, <2>1, Parts DEF Sender
  <2> HIDE DEF s
  <2>3. SessionType'
    BY <1>1, <2>1, <2>2 DEF SessionType, NccSessionTypeOK
  <2>4. EstablishedMeansArrived'
    BY <1>1, <1>2, <2>1, <2>2 DEF SessionInv, EstablishedMeansArrived
  <2>5. Free(session') => Free(session)
    BY <1>2, <2>1 DEF Free
  <2>6. OrderOk'
    BY <1>1, <2>1, <2>2, <2>5 DEF SessionInv, OrderOk
  <2>7. ClearingOk'
    BY <1>1 DEF ClearingOk
  <2> QED
    BY <1>1, <2>1, <2>3, <2>4, <2>6, <2>7 DEF SessionInv
<1> QED
  BY <1>3, <1>4

\* An acknowledgement that fits is the newest: what is left is all of the last frame.
LEMMA ReceiveAckInv ==
    ASSUME SessionType, SessionInv, Receive, Head(toTerm).kind = "ack"
    PROVE  SessionType' /\ SessionInv'
<1> DEFINE f == Head(toTerm)
           s == OnRx(session, f)
           n == sender.frames
<1>1. /\ f \in SessionFrame /\ f = toTerm[1] /\ f.kind = "ack" /\ s \in Session /\ s.id = session.id
      /\ f.id = IdOf(f.number) /\ f.number \in Nat
      /\ toTerm # <<>> /\ toTerm' = Tail(toTerm) /\ toTerm' \in Seq(SessionFrame)
      /\ AcksArrived(toTerm', arrived) /\ ClearFirst(toTerm') /\ RightIds(toTerm')
      /\ ~Clearing(toTerm) /\ ~Clearing(toTerm') /\ arrived' = arrived
      /\ Current(toTerm, toHost, n) => Current(toTerm', toHost, n)
      /\ InOrder(toTerm, toHost, n) => InOrder(toTerm', toHost, n)
  BY ReceiveRest
<1>2. /\ session' = s /\ sender' = [sender EXCEPT !.crossed = @ /\ f.kind # "clear"]
      /\ toHost' = toHost
  BY <1>1 DEF Receive
<1>3. sender' = sender
  BY <1>1, <1>2, Parts DEF Sender
<1>4. f.id = session.id => s.state \in {"established", "failed"}
  BY <1>1, Parts, RxType
<1>5. f.id # session.id => s = session
  BY <1>1, Parts, RxType
<1> HIDE DEF s
<1>6. SessionType'
  BY <1>1, <1>2, <1>3 DEF SessionType, NccSessionTypeOK
<1>7. ClearingOk'
  BY <1>1 DEF ClearingOk
<1>8. 1 \in Of(toTerm, "ack") /\ toTerm \in Seq(SessionFrame) /\ toHost \in Seq(SessionFrame) /\ n \in Nat
  BY <1>1, TakenInOrder, Parts DEF Kinds
<1>9. CASE f.id # session.id
  BY <1>1, <1>2, <1>3, <1>5, <1>6, <1>7, <1>9
     DEF SessionInv, EstablishedMeansArrived, OrderOk
<1>10. CASE f.id = session.id
  <2>1. f.number \in arrived
    BY <1>1, <1>8 DEF SessionInv, AcksArrived
  <2>2. ~sender.crossed => f.number = n /\ Current(toTerm, toHost, n)
    <3> SUFFICES ASSUME ~sender.crossed PROVE f.number = n /\ Current(toTerm, toHost, n)
      OBVIOUS
    <3>1. InOrder(toTerm, toHost, n) /\ (session.id # IdOf(n) => Current(toTerm, toHost, n))
      BY <1>1 DEF SessionInv, OrderOk
    <3>2. f.number \in {n - 1, n}
      BY <1>1, <1>8, <3>1 DEF InOrder
    <3>3. Current(toTerm, toHost, n) => f.number = n
      BY <1>1, <1>8 DEF Current
    <3>4. f.number = n
      <4>1. CASE session.id # IdOf(n)
        BY <3>1, <3>3, <4>1
      <4>2. CASE session.id = IdOf(n)
        BY <1>1, <1>8, <1>10, <3>2, <4>2, IdsDiffer
      <4> QED
        BY <4>1, <4>2
    <3> QED
      BY <1>1, <1>8, <3>1, <3>4, NewestFirst
  <2>3. EstablishedMeansArrived'
    BY <1>1, <1>3, <2>1, <2>2 DEF EstablishedMeansArrived
  <2>4. OrderOk'
    BY <1>1, <1>2, <1>3, <2>2 DEF SessionInv, OrderOk
  <2> QED
    BY <1>1, <1>2, <1>6, <1>7, <2>3, <2>4 DEF SessionInv
<1> QED
  BY <1>6, <1>9, <1>10

\* Behind a clear everything is of the last frame: the session starts again from there.
LEMMA ReceiveClearInv ==
    ASSUME SessionType, SessionInv, Receive, Head(toTerm).kind = "clear"
    PROVE  SessionType' /\ SessionInv'
<1> DEFINE f == Head(toTerm)
           s == OnRx(session, f)
           n == sender.frames
<1>1. /\ f \in SessionFrame /\ f.kind = "clear" /\ s \in Session
      /\ toTerm # <<>> /\ toTerm' = Tail(toTerm) /\ toTerm' \in Seq(SessionFrame)
      /\ AcksArrived(toTerm', arrived) /\ ClearFirst(toTerm') /\ RightIds(toTerm')
      /\ Clearing(toTerm) /\ ~Clearing(toTerm') /\ arrived' = arrived
      /\ Current(toTerm, toHost, n) => Current(toTerm', toHost, n)
  BY ReceiveRest
<1>2. /\ session' = s /\ sender' = [sender EXCEPT !.crossed = @ /\ f.kind # "clear"]
      /\ toHost' = toHost
  BY <1>1 DEF Receive
<1>3. s.state = "idle"
  BY <1>1, Parts, RxType
<1> HIDE DEF s
<1>4. sender' \in Sender /\ sender'.frames = n
  BY <1>2, Parts DEF Sender
<1>5. SessionType'
  BY <1>1, <1>2, <1>4 DEF SessionType, NccSessionTypeOK
<1>6. Current(toTerm', toHost, n)
  BY <1>1 DEF SessionInv, ClearingOk
<1>7. InOrder(toTerm', toHost, n)
  BY <1>1, <1>6, Parts, CurrentInOrder
<1>8. OrderOk'
  BY <1>2, <1>4, <1>6, <1>7 DEF OrderOk
<1>9. EstablishedMeansArrived'
  BY <1>2, <1>3 DEF EstablishedMeansArrived
<1>10. ClearingOk'
  BY <1>1 DEF ClearingOk
<1> QED
  BY <1>1, <1>2, <1>5, <1>8, <1>9, <1>10 DEF SessionInv

LEMMA ReceiveInv == SessionType /\ SessionInv /\ Receive => SessionType' /\ SessionInv'
<1> SUFFICES ASSUME SessionType, SessionInv, Receive PROVE SessionType' /\ SessionInv'
  OBVIOUS
<1>1. Head(toTerm).kind \in Kinds
  BY Parts, InFront DEF Receive
<1> QED
  BY <1>1, ReceiveDataInv, ReceiveNackInv, ReceiveAckInv, ReceiveClearInv DEF Kinds

\* The host takes a frame: its acknowledgement stands for a frame it now has.
LEMMA HostTakesInv == SessionType /\ SessionInv /\ HostTakes => SessionType' /\ SessionInv'
<1> SUFFICES ASSUME SessionType, SessionInv, HostTakes PROVE SessionType' /\ SessionInv'
  OBVIOUS
<1> DEFINE f == Head(toHost)
           g == [f EXCEPT !.kind = "ack"]
           n == sender.frames
<1>1. toHost # <<>> /\ toHost' = Tail(toHost) /\ session' = session /\ sender' = sender
  BY DEF HostTakes
<1>2. toHost \in Seq(SessionFrame) /\ toTerm \in Seq(SessionFrame) /\ n \in Nat /\ arrived \subseteq Nat
      /\ IsFiniteSet(arrived)
  BY Parts
<1>3. f \in SessionFrame /\ f = toHost[1] /\ f.number \in Nat /\ Tail(toHost) \in Seq(SessionFrame)
  BY <1>1, <1>2, InFront
<1>4. RightIds(toHost') /\ f.id = IdOf(f.number)
  BY <1>1, <1>2, HostTaken DEF SessionInv
<1>5. /\ Current(toTerm, toHost, n) => Current(toTerm, Tail(toHost), n)
      /\ InOrder(toTerm, toHost, n) => InOrder(toTerm, Tail(toHost), n)
  BY <1>1, <1>2, TakeHost
<1>6. CASE f.kind # "data"
  <2>1. arrived' = arrived /\ toTerm' = toTerm
    BY <1>6 DEF HostTakes
  <2>2. SessionType'
    BY <1>1, <1>3, <2>1 DEF SessionType, NccSessionTypeOK
  <2>3. Quiet(toTerm, toHost) => Quiet(toTerm, Tail(toHost))
    BY <1>1, <1>2, TakenInOrder DEF Quiet, Kinds
  <2>4. ClearingOk'
    BY <1>1, <1>5, <2>1, <2>3 DEF ClearingOk, SessionInv
  <2>5. OrderOk'
    BY <1>1, <1>5, <2>1 DEF OrderOk, SessionInv
  <2> QED
    BY <1>1, <1>4, <2>1, <2>2, <2>4, <2>5 DEF SessionInv, EstablishedMeansArrived
<1>7. CASE f.kind = "data"
  <2>1. arrived' = arrived \cup {f.number} /\ toTerm' = Sent(toTerm, g)
    BY <1>7 DEF HostTakes
  <2>2. g \in SessionFrame /\ g.kind = "ack" /\ g.number = f.number /\ g.id = f.id
    BY <1>3, Acknowledged
  <2> HIDE DEF g
  <2>3. toTerm' \in Seq(SessionFrame)
    BY <1>2, <2>1, <2>2, SentType
  <2>4. IsFiniteSet(arrived')
    BY <1>2, <2>1, FS_AddElement
  <2>5. SessionType'
    BY <1>1, <1>2, <1>3, <2>1, <2>3, <2>4 DEF SessionType, NccSessionTypeOK
  <2>6. ClearFirst(toTerm') /\ RightIds(toTerm') /\ (Clearing(toTerm') <=> Clearing(toTerm))
    BY <1>2, <1>4, <2>1, <2>2, TermSent DEF SessionInv
  <2>7. AcksArrived(toTerm', arrived')
    BY <1>2, <2>1, <2>2, AcksSent DEF SessionInv
  <2>8. /\ Current(toTerm, toHost, n) => Current(toTerm', Tail(toHost), n)
        /\ InOrder(toTerm, toHost, n) => InOrder(toTerm', Tail(toHost), n)
    BY <1>1, <1>2, <1>3, <1>7, <2>1, <2>2, AnswerSent
  <2>9. 1 \in Of(toHost, "data")
    BY <1>1, <1>2, <1>3, <1>7, TakenInOrder DEF Kinds
  <2>10. ClearingOk'
    BY <1>1, <2>6, <2>8, <2>9 DEF ClearingOk, Quiet, SessionInv
  <2>11. OrderOk'
    BY <1>1, <2>6, <2>8 DEF OrderOk, SessionInv
  <2>12. EstablishedMeansArrived'
    BY <1>1, <2>1 DEF EstablishedMeansArrived, SessionInv
  <2> QED
    BY <1>4, <2>5, <2>6, <2>7, <2>10, <2>11, <2>12 DEF SessionInv
<1> QED
  BY <1>6, <1>7

\* A frame of the host that acknowledges nothing, sent with or without one taken from the line.
LEMMA HostSpeaksInv ==
    ASSUME SessionType, SessionInv, NEW f \in SessionFrame, f.kind \in {"nack", "data"},
           f.id = IdOf(f.number),
           toTerm' = Sent(toTerm, f), session' = session, sender' = sender, arrived' = arrived,
           \/ toHost' = toHost
           \/ toHost # <<>> /\ toHost' = Tail(toHost)
    PROVE  SessionType' /\ SessionInv'
<1> DEFINE n == sender.frames
<1>1. toHost \in Seq(SessionFrame) /\ toTerm \in Seq(SessionFrame) /\ n \in Nat
  BY Parts
<1>2. /\ toHost' \in Seq(SessionFrame) /\ RightIds(toHost')
      /\ Of(toHost, "data") = {} => Of(toHost', "data") = {}
  <2>1. CASE toHost' = toHost
    BY <1>1, <2>1 DEF SessionInv
  <2>2. CASE toHost # <<>> /\ toHost' = Tail(toHost)
    <3>1. toHost' \in Seq(SessionFrame) /\ RightIds(toHost')
      BY <1>1, <2>2, InFront, HostTaken DEF SessionInv
    <3>2. Of(toHost, "data") = {} => Of(toHost', "data") = {}
      BY <1>1, <2>2, TakenInOrder DEF Kinds
    <3> QED
      BY <3>1, <3>2
  <2> QED
    BY <2>1, <2>2
<1>3. /\ Current(toTerm, toHost, n) => Current(toTerm, toHost', n)
      /\ InOrder(toTerm, toHost, n) => InOrder(toTerm, toHost', n)
  BY <1>1, TakeHost
<1>4. /\ Current(toTerm, toHost', n) => Current(toTerm', toHost', n)
      /\ InOrder(toTerm, toHost', n) => InOrder(toTerm', toHost', n)
  BY <1>1, <1>2, SendOther
<1>5. ClearFirst(toTerm') /\ RightIds(toTerm') /\ (Clearing(toTerm') <=> Clearing(toTerm))
  BY <1>1, TermSent DEF SessionInv
<1>6. AcksArrived(toTerm', arrived)
  BY <1>1, AcksSent DEF SessionInv
<1>7. Of(toTerm, "ack") = {} => Of(toTerm', "ack") = {}
  BY <1>1, SentAtEnd DEF Kinds
<1>8. toTerm' \in Seq(SessionFrame)
  BY <1>1, SentType
<1>9. SessionType'
  BY <1>2, <1>8 DEF SessionType, NccSessionTypeOK
<1>10. ClearingOk'
  BY <1>2, <1>3, <1>4, <1>5, <1>7 DEF ClearingOk, Quiet, SessionInv
<1>11. OrderOk'
  BY <1>3, <1>4, <1>5 DEF OrderOk, SessionInv
<1>12. EstablishedMeansArrived'
  BY DEF EstablishedMeansArrived, SessionInv
<1> QED
  BY <1>2, <1>5, <1>6, <1>9, <1>10, <1>11, <1>12 DEF SessionInv

LEMMA HostRefusesInv == SessionType /\ SessionInv /\ HostRefuses => SessionType' /\ SessionInv'
<1> SUFFICES ASSUME SessionType, SessionInv, HostRefuses PROVE SessionType' /\ SessionInv'
  OBVIOUS
<1> DEFINE f == Frame("nack", Cardinality(arrived) + 1)
<1>1. f \in SessionFrame /\ f.kind = "nack" /\ f.id = IdOf(f.number)
  BY Parts, FrameType
<1>2. toTerm' = Sent(toTerm, f) /\ toHost # <<>> /\ toHost' = Tail(toHost)
      /\ session' = session /\ sender' = sender /\ arrived' = arrived
  BY DEF HostRefuses
<1> HIDE DEF f
<1> QED
  BY <1>1, <1>2, HostSpeaksInv

LEMMA HostSendsInv == SessionType /\ SessionInv /\ HostSends => SessionType' /\ SessionInv'
<1> SUFFICES ASSUME SessionType, SessionInv, HostSends PROVE SessionType' /\ SessionInv'
  OBVIOUS
<1> DEFINE f == Frame("data", 1)
<1>1. f \in SessionFrame /\ f.kind = "data" /\ f.id = IdOf(f.number)
  BY FrameType
<1>2. toTerm' = Sent(toTerm, f) /\ toHost' = toHost
      /\ session' = session /\ sender' = sender /\ arrived' = arrived
  BY DEF HostSends
<1> HIDE DEF f
<1> QED
  BY <1>1, <1>2, HostSpeaksInv

LEMMA HostClearsInv == SessionType /\ SessionInv /\ HostClears => SessionType' /\ SessionInv'
<1> SUFFICES ASSUME SessionType, SessionInv, HostClears PROVE SessionType' /\ SessionInv'
  OBVIOUS
<1> DEFINE f == Frame("clear", 0)
<1>1. f \in SessionFrame /\ f.kind = "clear" /\ f.number = 0 /\ f.id = IdOf(0)
  BY FrameType
<1>2. toTerm' = <<f>> /\ toHost' = <<>> /\ session' = session /\ sender' = sender /\ arrived' = arrived
  BY DEF HostClears
<1> HIDE DEF f
<1>3. toTerm' \in Seq(SessionFrame) /\ toHost' \in Seq(SessionFrame)
  BY <1>1, <1>2
<1>4. DOMAIN <<f>> = {1} /\ <<f>>[1] = f /\ \A kind : Of(<<>>, kind) = {}
  BY DEF Of
<1>5. Of(<<f>>, "ack") = {} /\ ClearFirst(<<f>>) /\ RightIds(<<f>>) /\ Clearing(<<f>>)
  BY <1>1, <1>4 DEF Of, ClearFirst, RightIds, Clearing
<1>6. SessionType'
  BY <1>2, <1>3 DEF SessionType, NccSessionTypeOK
<1>7. ClearingOk' /\ OrderOk' /\ AcksArrived(toTerm', arrived') /\ RightIds(toHost')
  BY <1>2, <1>4, <1>5 DEF ClearingOk, OrderOk, AcksArrived, RightIds, Quiet, Current
<1> QED
  BY <1>2, <1>5, <1>6, <1>7 DEF SessionInv, EstablishedMeansArrived

LEMMA LoseFrameInv == SessionType /\ SessionInv /\ LoseFrame => SessionType' /\ SessionInv'
<1> SUFFICES ASSUME SessionType, SessionInv, LoseFrame PROVE SessionType' /\ SessionInv'
  OBVIOUS
<1> DEFINE n == sender.frames
<1>1. toHost \in Seq(SessionFrame) /\ toTerm \in Seq(SessionFrame) /\ n \in Nat
  BY Parts
<1>2. session' = session /\ sender' = sender /\ arrived' = arrived
  BY DEF LoseFrame
<1>3. CASE toHost # <<>> /\ toHost' = Tail(toHost) /\ UNCHANGED toTerm
  <2>1. toHost' \in Seq(SessionFrame) /\ RightIds(toHost')
    BY <1>1, <1>3, InFront, HostTaken DEF SessionInv
  <2>2. Of(toHost, "data") = {} => Of(toHost', "data") = {}
    BY <1>1, <1>3, TakenInOrder DEF Kinds
  <2>3. /\ Current(toTerm, toHost, n) => Current(toTerm, toHost', n)
        /\ InOrder(toTerm, toHost, n) => InOrder(toTerm, toHost', n)
    BY <1>1, <1>3, TakeHost
  <2>4. SessionType'
    BY <1>2, <1>3, <2>1 DEF SessionType, NccSessionTypeOK
  <2> QED
    BY <1>2, <1>3, <2>1, <2>2, <2>3, <2>4
       DEF SessionInv, ClearingOk, OrderOk, Quiet, EstablishedMeansArrived
<1>4. CASE toTerm # <<>> /\ toTerm' = Tail(toTerm) /\ UNCHANGED toHost
  <2>1. toTerm' \in Seq(SessionFrame) /\ AcksArrived(toTerm', arrived) /\ ClearFirst(toTerm')
        /\ RightIds(toTerm') /\ ~Clearing(toTerm')
    BY <1>1, <1>4, InFront, TermTaken, AcksTaken DEF SessionInv
  <2>2. /\ Current(toTerm, toHost, n) => Current(toTerm', toHost, n)
        /\ InOrder(toTerm, toHost, n) => InOrder(toTerm', toHost, n)
    BY <1>1, <1>4, TakeTerm
  <2>3. Current(toTerm', toHost, n) => InOrder(toTerm', toHost, n)
    BY <1>1, <1>4, InFront, CurrentInOrder
  <2>4. SessionType'
    BY <1>2, <1>4, <1>1, InFront DEF SessionType, NccSessionTypeOK
  <2>5. OrderOk'
    BY <1>2, <1>4, <2>1, <2>2, <2>3 DEF SessionInv, ClearingOk, OrderOk
  <2>6. ClearingOk'
    BY <2>1 DEF ClearingOk
  <2> QED
    BY <1>2, <1>4, <2>1, <2>4, <2>5, <2>6 DEF SessionInv, EstablishedMeansArrived
<1> QED
  BY <1>3, <1>4 DEF LoseFrame

LEMMA SessionStep ==
    SessionType /\ SessionInv /\ [NccSessionNext]_sessionVars => SessionType' /\ SessionInv'
<1> SUFFICES ASSUME SessionType, SessionInv, [NccSessionNext]_sessionVars
             PROVE  SessionType' /\ SessionInv'
  OBVIOUS
<1>1. CASE UNCHANGED sessionVars
  BY <1>1 DEF sessionVars, SessionType, NccSessionTypeOK, SessionInv, EstablishedMeansArrived,
              ClearingOk, OrderOk
<1>2. CASE NccSessionNext
  BY <1>2, SendDataInv, AckTimeoutInv, IdleTimeoutInv, ReceiveInv, HostTakesInv, HostRefusesInv,
     HostSendsInv, HostClearsInv, LoseFrameInv DEF NccSessionNext
<1> QED
  BY <1>1, <1>2

\* NccSessionTypeOK in every reachable state.
THEOREM SessionTypeCorrect == NccSessionSpec => []NccSessionTypeOK
<1>1. SessionType => NccSessionTypeOK
  BY DEF SessionType
<1> QED
  BY <1>1, SessionInitType, SessionInitInv, SessionStep, PTL DEF NccSessionSpec

\* EstablishedMeansArrived in every reachable state: an established session is one whose last
\* data frame the host has, whatever the line loses and however often the ids come round.
THEOREM SessionCorrect == NccSessionSpec => []EstablishedMeansArrived
<1>1. SessionInv => EstablishedMeansArrived
  BY DEF SessionInv
<1> QED
  BY <1>1, SessionInitType, SessionInitInv, SessionStep, PTL DEF NccSessionSpec

-------------------------------------------------------------------------------
(* Parts of sequences.                                                     *)

LEMMA PartFields ==
    ASSUME NEW S, NEW s \in Seq(S), NEW i \in Nat, NEW j \in Nat, i <= j, j <= Len(s),
           NEW u, u = SubSeq(s, i + 1, j)
    PROVE  u \in Seq(S) /\ Len(u) = j - i /\ \A x \in 1 .. j - i : u[x] = s[i + x]
<1>1. \A x \in i + 1 .. j : s[x] \in S
  OBVIOUS
<1>2. /\ SubSeq(s, i + 1, j) \in Seq(S)
      /\ Len(SubSeq(s, i + 1, j)) = IF i + 1 <= j THEN j - (i + 1) + 1 ELSE 0
      /\ \A x \in 1 .. j - (i + 1) + 1 : SubSeq(s, i + 1, j)[x] = s[(i + 1) + x - 1]
  BY ONLY <1>1, i + 1 \in Int, j \in Int, SubSeqProperties
<1>3. u \in Seq(S) /\ Len(u) = j - i /\ \A x \in 1 .. j - (i + 1) + 1 : u[x] = s[(i + 1) + x - 1]
  BY <1>2
<1>4. ASSUME NEW x \in 1 .. j - i PROVE u[x] = s[i + x]
  <2>1. x \in 1 .. j - (i + 1) + 1 /\ (i + 1) + x - 1 = i + x
    OBVIOUS
  <2> QED
    BY <1>3, <2>1
<1> QED
  BY <1>3, <1>4

LEMMA JoinFields ==
    ASSUME NEW S, NEW s \in Seq(S), NEW t \in Seq(S), NEW u, u = s \o t
    PROVE  /\ u \in Seq(S) /\ Len(u) = Len(s) + Len(t)
           /\ \A x \in 1 .. Len(s) : u[x] = s[x]
           /\ \A x \in 1 .. Len(t) : u[Len(s) + x] = t[x]
<1>1. /\ s \o t \in Seq(S) /\ Len(s \o t) = Len(s) + Len(t)
      /\ \A x \in 1 .. Len(s) + Len(t) : (s \o t)[x] = IF x <= Len(s) THEN s[x] ELSE t[x - Len(s)]
  BY ConcatProperties
<1>2. /\ u \in Seq(S) /\ Len(u) = Len(s) + Len(t) /\ Len(s) \in Nat /\ Len(t) \in Nat
      /\ \A x \in 1 .. Len(s) + Len(t) : u[x] = IF x <= Len(s) THEN s[x] ELSE t[x - Len(s)]
  BY <1>1
<1>3. ASSUME NEW x \in 1 .. Len(s) PROVE u[x] = s[x]
  BY <1>2
<1>4. ASSUME NEW x \in 1 .. Len(t) PROVE u[Len(s) + x] = t[x]
  <2>1. Len(s) + x \in 1 .. Len(s) + Len(t) /\ ~(Len(s) + x <= Len(s)) /\ (Len(s) + x) - Len(s) = x
    BY <1>2
  <2> QED
    BY <1>2, <2>1
<1> QED
  BY <1>2, <1>3, <1>4

LEMMA PartOfPart ==
    ASSUME NEW S, NEW s \in Seq(S), NEW k \in Nat, NEW n \in Nat, n = Len(s), k <= n,
           NEW i \in Nat, NEW j \in Nat, i <= j, k + j <= n
    PROVE  SubSeq(SubSeq(s, k + 1, n), i + 1, j) = SubSeq(s, (k + i) + 1, k + j)
<1>1. PICK u : u = SubSeq(s, k + 1, n)
  OBVIOUS
<1>2. PICK v : v = SubSeq(u, i + 1, j)
  OBVIOUS
<1>3. PICK w : w = SubSeq(s, (k + i) + 1, k + j)
  OBVIOUS
<1>4. u \in Seq(S) /\ Len(u) = n - k /\ \A x \in 1 .. n - k : u[x] = s[k + x]
  BY <1>1, PartFields
<1>5. v \in Seq(S) /\ Len(v) = j - i /\ \A x \in 1 .. j - i : v[x] = u[i + x]
  <2>1. j <= Len(u)
    BY <1>4
  <2> QED
    BY <1>2, <1>4, <2>1, PartFields
<1>6. w \in Seq(S) /\ Len(w) = (k + j) - (k + i) /\ \A x \in 1 .. (k + j) - (k + i) : w[x] = s[(k + i) + x]
  <2>1. k + i \in Nat /\ k + j \in Nat /\ k + i <= k + j /\ k + j <= Len(s)
    OBVIOUS
  <2> QED
    BY <1>3, <2>1, PartFields
<1>7. ASSUME NEW x \in 1 .. j - i PROVE v[x] = w[x]
  <2>1. i + x \in 1 .. n - k /\ x \in 1 .. (k + j) - (k + i) /\ (k + i) + x = k + (i + x)
    OBVIOUS
  <2> QED
    BY <1>4, <1>5, <1>6, <2>1
<1>8. v = w
  <2>1. Len(v) = Len(w) /\ \A x \in 1 .. Len(v) : v[x] = w[x]
    BY <1>5, <1>6, <1>7
  <2> QED
    BY ONLY <1>5, <1>6, <2>1, SeqEqual
<1> QED
  BY <1>1, <1>2, <1>3, <1>8

LEMMA PartOfFront ==
    ASSUME NEW S, NEW s \in Seq(S), NEW t \in Seq(S), NEW i \in Nat, NEW j \in Nat, i <= j, j <= Len(s)
    PROVE  SubSeq(s \o t, i + 1, j) = SubSeq(s, i + 1, j)
<1>1. PICK u : u = s \o t
  OBVIOUS
<1>2. PICK v : v = SubSeq(u, i + 1, j)
  OBVIOUS
<1>3. PICK w : w = SubSeq(s, i + 1, j)
  OBVIOUS
<1>4. u \in Seq(S) /\ Len(u) = Len(s) + Len(t) /\ \A x \in 1 .. Len(s) : u[x] = s[x]
  BY <1>1, JoinFields
<1>5. v \in Seq(S) /\ Len(v) = j - i /\ \A x \in 1 .. j - i : v[x] = u[i + x]
  <2>1. j <= Len(u)
    BY <1>4
  <2> QED
    BY <1>2, <1>4, <2>1, PartFields
<1>6. w \in Seq(S) /\ Len(w) = j - i /\ \A x \in 1 .. j - i : w[x] = s[i + x]
  BY <1>3, PartFields
<1>7. \A x \in 1 .. Len(v) : v[x] = w[x]
  <2> SUFFICES ASSUME NEW x \in 1 .. j - i PROVE v[x] = w[x]
    BY <1>5
  <2>1. i + x \in 1 .. Len(s)
    OBVIOUS
  <2> QED
    BY <1>4, <1>5, <1>6, <2>1
<1>8. v = w
  BY ONLY <1>5, <1>6, <1>7, SeqEqual
<1> QED
  BY <1>1, <1>2, <1>3, <1>8

LEMMA PartOfBack ==
    ASSUME NEW S, NEW s \in Seq(S), NEW t \in Seq(S), NEW k \in Nat, k = Len(s), NEW n \in Nat, n = k + Len(t)
    PROVE  SubSeq(s \o t, k + 1, n) = t
<1>1. PICK u : u = s \o t
  OBVIOUS
<1>2. PICK v : v = SubSeq(u, k + 1, n)
  OBVIOUS
<1>3. u \in Seq(S) /\ Len(u) = n /\ \A x \in 1 .. Len(t) : u[k + x] = t[x]
  BY <1>1, JoinFields
<1>4. v \in Seq(S) /\ Len(v) = n - k /\ \A x \in 1 .. n - k : v[x] = u[k + x]
  <2>1. k <= n /\ n <= Len(u)
    BY <1>3
  <2> QED
    BY <1>2, <1>3, <2>1, PartFields
<1>5. Len(v) = Len(t) /\ \A x \in 1 .. Len(v) : v[x] = t[x]
  BY <1>3, <1>4
<1>6. v = t
  BY ONLY <1>4, <1>5, t \in Seq(S), SeqEqual
<1> QED
  BY <1>1, <1>2, <1>6

\* A sequence is its first n elements and the rest.
LEMMA TwoPieces ==
    ASSUME NEW S, NEW s \in Seq(S), NEW n \in Nat, NEW N \in Nat, N = Len(s), n <= N,
           NEW a, a = SubSeq(s, 1, n), NEW b, b = SubSeq(s, n + 1, N)
    PROVE  a \in Seq(S) /\ b \in Seq(S) /\ Len(a) = n /\ Len(b) = N - n /\ a \o b = s
<1>1. a \in Seq(S) /\ Len(a) = n - 0 /\ \A x \in 1 .. n - 0 : a[x] = s[0 + x]
  <2>1. a = SubSeq(s, 0 + 1, n) /\ 0 \in Nat /\ 0 <= n /\ n <= Len(s)
    OBVIOUS
  <2> QED
    BY <2>1, PartFields
<1>2. b \in Seq(S) /\ Len(b) = N - n /\ \A x \in 1 .. N - n : b[x] = s[n + x]
  <2>1. N <= Len(s)
    OBVIOUS
  <2> QED
    BY ONLY <2>1, s \in Seq(S), n \in Nat, N \in Nat, n <= N, b = SubSeq(s, n + 1, N), PartFields
<1>3. PICK c : c = a \o b
  OBVIOUS
<1>4. /\ c \in Seq(S) /\ Len(c) = Len(a) + Len(b)
      /\ \A x \in 1 .. Len(a) : c[x] = a[x]
      /\ \A x \in 1 .. Len(b) : c[Len(a) + x] = b[x]
  <2>1. a \in Seq(S) /\ b \in Seq(S)
    BY <1>1, <1>2
  <2> QED
    BY ONLY <2>1, <1>3, JoinFields
<1>5. Len(a) = n /\ Len(c) = N
  BY <1>1, <1>2, <1>4
<1>6. ASSUME NEW x \in 1 .. N PROVE c[x] = s[x]
  <2>1. CASE x <= n
    <3>1. x \in 1 .. n - 0 /\ x \in 1 .. Len(a) /\ 0 + x = x
      BY <1>5, <2>1
    <3> QED
      BY <1>1, <1>4, <3>1
  <2>2. CASE ~(x <= n)
    <3>1. PICK y \in 1 .. N - n : x = n + y
      <4>1. x - n \in 1 .. N - n /\ x = n + (x - n)
        BY <2>2
      <4> QED
        BY <4>1
    <3>2. b[y] = s[x]
      BY <1>2, <3>1
    <3>3. y \in 1 .. Len(b) /\ x = Len(a) + y
      BY <1>2, <1>5, <3>1
    <3>4. c[x] = b[y]
      BY <1>4, <3>3
    <3> QED
      BY <3>2, <3>4
  <2> QED
    BY <2>1, <2>2
<1>7. c = s
  BY ONLY <1>4, <1>5, <1>6, N = Len(s), SeqEqual, s \in Seq(S)
<1> QED
  BY <1>1, <1>2, <1>3, <1>5, <1>7
-------------------------------------------------------------------------------
(* Exclusive or of octets: an octet is its bits, so either term can be cancelled.  *)

Octet == 0..255

BitAt(n, w) == (n \div w) % 2

LEMMA BitAtType == ASSUME NEW n \in Nat PROVE
    /\ BitAt(n, 1) \in {0, 1} /\ BitAt(n, 2) \in {0, 1} /\ BitAt(n, 4) \in {0, 1}
    /\ BitAt(n, 8) \in {0, 1} /\ BitAt(n, 16) \in {0, 1} /\ BitAt(n, 32) \in {0, 1}
    /\ BitAt(n, 64) \in {0, 1} /\ BitAt(n, 128) \in {0, 1}
  BY DEF BitAt

LEMMA OctetOfBits == ASSUME NEW n \in Octet PROVE
    n = BitAt(n, 1) + 2 * BitAt(n, 2) + 4 * BitAt(n, 4) + 8 * BitAt(n, 8) + 16 * BitAt(n, 16)
        + 32 * BitAt(n, 32) + 64 * BitAt(n, 64) + 128 * BitAt(n, 128)
  BY SMTT(60) DEF BitAt, Octet

\* Eight bits are an octet, and an octet has one sum of bits.
Bits == [1..8 -> {0, 1}]

OfBits(f) == f[1] + 2 * f[2] + 4 * f[3] + 8 * f[4] + 16 * f[5] + 32 * f[6] + 64 * f[7] + 128 * f[8]

LEMMA BitsType == ASSUME NEW f \in Bits PROVE OfBits(f) \in Octet
<1>1. /\ f[1] \in {0, 1} /\ f[2] \in {0, 1} /\ f[3] \in {0, 1} /\ f[4] \in {0, 1}
      /\ f[5] \in {0, 1} /\ f[6] \in {0, 1} /\ f[7] \in {0, 1} /\ f[8] \in {0, 1}
  BY DEF Bits
<1> QED
  BY <1>1 DEF OfBits, Octet

LEMMA BitsUnique == ASSUME NEW f \in Bits, NEW g \in Bits, OfBits(f) = OfBits(g) PROVE f = g
<1>1. PICK a1 \in {0, 1}, a2 \in {0, 1}, a3 \in {0, 1}, a4 \in {0, 1},
           a5 \in {0, 1}, a6 \in {0, 1}, a7 \in {0, 1}, a8 \in {0, 1} :
             /\ a1 = f[1] /\ a2 = f[2] /\ a3 = f[3] /\ a4 = f[4]
             /\ a5 = f[5] /\ a6 = f[6] /\ a7 = f[7] /\ a8 = f[8]
  BY DEF Bits
<1>2. PICK b1 \in {0, 1}, b2 \in {0, 1}, b3 \in {0, 1}, b4 \in {0, 1},
           b5 \in {0, 1}, b6 \in {0, 1}, b7 \in {0, 1}, b8 \in {0, 1} :
             /\ b1 = g[1] /\ b2 = g[2] /\ b3 = g[3] /\ b4 = g[4]
             /\ b5 = g[5] /\ b6 = g[6] /\ b7 = g[7] /\ b8 = g[8]
  BY DEF Bits
<1>3. a1 + 2 * a2 + 4 * a3 + 8 * a4 + 16 * a5 + 32 * a6 + 64 * a7 + 128 * a8
        = b1 + 2 * b2 + 4 * b3 + 8 * b4 + 16 * b5 + 32 * b6 + 64 * b7 + 128 * b8
  BY <1>1, <1>2 DEF OfBits
<1>4. a1 = b1
  BY <1>3
<1>5. a2 = b2
  BY <1>3, <1>4
<1>6. a3 = b3
  BY <1>3, <1>4, <1>5
<1>7. a4 = b4
  BY <1>3, <1>4, <1>5, <1>6
<1>8. a5 = b5
  BY <1>3, <1>4, <1>5, <1>6, <1>7
<1>9. a6 = b6
  BY <1>3, <1>4, <1>5, <1>6, <1>7, <1>8
<1>10. a7 = b7 /\ a8 = b8
  BY <1>3, <1>4, <1>5, <1>6, <1>7, <1>8, <1>9
<1>11. \A i \in 1..8 : i \in {1, 2, 3, 4, 5, 6, 7, 8}
  OBVIOUS
<1>12. /\ f[1] = g[1] /\ f[2] = g[2] /\ f[3] = g[3] /\ f[4] = g[4]
       /\ f[5] = g[5] /\ f[6] = g[6] /\ f[7] = g[7] /\ f[8] = g[8]
  BY <1>1, <1>2, <1>4, <1>5, <1>6, <1>7, <1>8, <1>9, <1>10, Zenon
<1>13. \A i \in 1..8 : f[i] = g[i]
  BY <1>11, <1>12
<1> QED
  BY <1>13 DEF Bits

XorBit(a, b, w) == (BitAt(a, w) + BitAt(b, w)) % 2

XorBits(a, b) == <<XorBit(a, b, 1), XorBit(a, b, 2), XorBit(a, b, 4), XorBit(a, b, 8),
                   XorBit(a, b, 16), XorBit(a, b, 32), XorBit(a, b, 64), XorBit(a, b, 128)>>

LEMMA XorOfBits == ASSUME NEW a \in Octet, NEW b \in Octet PROVE XorByte(a, b) = OfBits(XorBits(a, b))
<1> DEFINE q(n, w) == n \div w
<1>1. \A n \in Octet : /\ q(n, 1) \in Nat /\ q(n, 2) \in Nat /\ q(n, 4) \in Nat /\ q(n, 8) \in Nat
                       /\ q(n, 16) \in Nat /\ q(n, 32) \in Nat /\ q(n, 64) \in Nat /\ q(n, 128) \in Nat
  BY DEF Octet
<1>2. \A m, n \in Nat : (m + n) % 2 = ((m % 2) + (n % 2)) % 2
  OBVIOUS
<1>3. ASSUME NEW w \in {1, 2, 4, 8, 16, 32, 64, 128}
      PROVE  ((q(a, w) + q(b, w)) % 2) * w = w * XorBit(a, b, w)
  <2>1. q(a, w) \in Nat /\ q(b, w) \in Nat
    BY <1>1
  <2>2. XorBit(a, b, w) = ((q(a, w) % 2) + (q(b, w) % 2)) % 2
    BY DEF XorBit, BitAt
  <2> HIDE DEF q
  <2>3. XorBit(a, b, w) = (q(a, w) + q(b, w)) % 2
    BY <1>2, <2>1, <2>2
  <2>4. (q(a, w) + q(b, w)) % 2 \in Nat
    BY <2>1
  <2> QED
    BY <2>3, <2>4
<1>4. XorByte(a, b) = ((q(a, 1) + q(b, 1)) % 2) * 1 + ((q(a, 2) + q(b, 2)) % 2) * 2
                      + ((q(a, 4) + q(b, 4)) % 2) * 4 + ((q(a, 8) + q(b, 8)) % 2) * 8
                      + ((q(a, 16) + q(b, 16)) % 2) * 16 + ((q(a, 32) + q(b, 32)) % 2) * 32
                      + ((q(a, 64) + q(b, 64)) % 2) * 64 + ((q(a, 128) + q(b, 128)) % 2) * 128
  BY DEF XorByte
<1> HIDE DEF q
<1>5. 1 * XorBit(a, b, 1) = XorBit(a, b, 1)
  BY DEF XorBit, BitAt, Octet
<1> QED
  BY <1>3, <1>4, <1>5 DEF OfBits, XorBits

LEMMA XorBitsType == ASSUME NEW a \in Octet, NEW b \in Octet PROVE XorBits(a, b) \in Bits
<1>1. \A w \in {1, 2, 4, 8, 16, 32, 64, 128} : XorBit(a, b, w) \in {0, 1}
  <2>1. a \in Nat /\ b \in Nat
    BY DEF Octet
  <2> QED
    BY <2>1, BitAtType DEF XorBit
<1> QED
  BY <1>1 DEF XorBits, Bits

LEMMA XorType == ASSUME NEW a \in Octet, NEW b \in Octet PROVE XorByte(a, b) \in Octet
  BY XorBitsType, XorOfBits, BitsType

LEMMA XorSwaps == ASSUME NEW a \in Octet, NEW b \in Octet PROVE XorByte(a, b) = XorByte(b, a)
<1>1. a \in Nat /\ b \in Nat
  BY DEF Octet
<1>2. /\ XorBit(a, b, 1) = XorBit(b, a, 1) /\ XorBit(a, b, 2) = XorBit(b, a, 2)
      /\ XorBit(a, b, 4) = XorBit(b, a, 4) /\ XorBit(a, b, 8) = XorBit(b, a, 8)
      /\ XorBit(a, b, 16) = XorBit(b, a, 16) /\ XorBit(a, b, 32) = XorBit(b, a, 32)
      /\ XorBit(a, b, 64) = XorBit(b, a, 64) /\ XorBit(a, b, 128) = XorBit(b, a, 128)
  BY <1>1, BitAtType DEF XorBit
<1>3. XorBits(a, b) = XorBits(b, a)
  BY <1>2 DEF XorBits
<1> QED
  BY <1>3, XorOfBits

LEMMA XorCancels ==
    ASSUME NEW a \in Octet, NEW b \in Octet, NEW c \in Octet, XorByte(a, c) = XorByte(b, c)
    PROVE  a = b
<1>1. a \in Nat /\ b \in Nat /\ c \in Nat
  BY DEF Octet
<1>2. XorBits(a, c) = XorBits(b, c)
  BY XorOfBits, XorBitsType, BitsUnique
<1>3. /\ XorBit(a, c, 1) = XorBit(b, c, 1) /\ XorBit(a, c, 2) = XorBit(b, c, 2)
      /\ XorBit(a, c, 4) = XorBit(b, c, 4) /\ XorBit(a, c, 8) = XorBit(b, c, 8)
      /\ XorBit(a, c, 16) = XorBit(b, c, 16) /\ XorBit(a, c, 32) = XorBit(b, c, 32)
      /\ XorBit(a, c, 64) = XorBit(b, c, 64) /\ XorBit(a, c, 128) = XorBit(b, c, 128)
  BY <1>2 DEF XorBits
<1>4. \A x, y, z \in {0, 1} : (x + z) % 2 = (y + z) % 2 => x = y
  OBVIOUS
<1>5. /\ BitAt(a, 1) = BitAt(b, 1) /\ BitAt(a, 2) = BitAt(b, 2)
      /\ BitAt(a, 4) = BitAt(b, 4) /\ BitAt(a, 8) = BitAt(b, 8)
      /\ BitAt(a, 16) = BitAt(b, 16) /\ BitAt(a, 32) = BitAt(b, 32)
      /\ BitAt(a, 64) = BitAt(b, 64) /\ BitAt(a, 128) = BitAt(b, 128)
  BY <1>1, <1>3, <1>4, BitAtType DEF XorBit
<1> QED
  BY <1>5, OctetOfBits

-------------------------------------------------------------------------------
(* The CRC of the NCC line, on words of sixteen bits.  A shift can be taken *)
(* back bit by bit, so the rows of the table differ in their high octets,  *)
(* and a step tells both the byte and the CRC before it.  One changed byte *)
(* therefore changes the CRC, and so does a byte lost or doubled at the    *)
(* front, but for one collision.                                           *)

Word == {n \in Nat : n < 256 * 256}
Powers == {1, 2, 4, 8, 16, 32, 64, 128}

LEMMA WordOctets == ASSUME NEW c \in Word
                    PROVE  c \div 256 \in Octet /\ c % 256 \in Octet /\ c = 256 * (c \div 256) + (c % 256)
  BY SMTT(30) DEF Word, Octet

LEMMA OctetsWord == ASSUME NEW h \in Octet, NEW l \in Octet
                    PROVE  256 * h + l \in Word /\ (256 * h + l) \div 256 = h /\ (256 * h + l) % 256 = l
<1>1. h \in Nat /\ l \in Nat /\ h <= 255 /\ l <= 255
  BY DEF Octet
<1>2. PICK n \in Nat : n = 256 * h + l
  BY <1>1
<1>3. n \div 256 = h
  BY <1>1, <1>2
<1>4. n % 256 = l
  BY <1>1, <1>2, <1>3
<1>5. n \in Word
  <2>1. n <= 256 * 255 + 255
    BY <1>1, <1>2, SMTT(30)
  <2> QED
    BY <2>1 DEF Word
<1> QED
  BY <1>2, <1>3, <1>4, <1>5

LEMMA XorWord ==
    ASSUME NEW a \in Word, NEW b \in Word
    PROVE  /\ Xor(a, b) \in Word
           /\ Xor(a, b) \div 256 = XorByte(a \div 256, b \div 256)
           /\ Xor(a, b) % 256 = XorByte(a % 256, b % 256)
<1>1. PICK h, l \in Octet : h = XorByte(a \div 256, b \div 256) /\ l = XorByte(a % 256, b % 256)
  BY WordOctets, XorType
<1>2. Xor(a, b) = 256 * h + l
  BY <1>1 DEF Xor, Octet
<1> QED
  BY <1>1, <1>2, OctetsWord

LEMMA XorNothing == ASSUME NEW n \in Octet PROVE XorByte(0, n) = n
<1>1. n \in Nat
  BY DEF Octet
<1>2. XorByte(0, n) = (n % 2) + 2 * ((n \div 2) % 2) + 4 * ((n \div 4) % 2) + 8 * ((n \div 8) % 2)
                      + 16 * ((n \div 16) % 2) + 32 * ((n \div 32) % 2) + 64 * ((n \div 64) % 2)
                      + 128 * ((n \div 128) % 2)
  BY <1>1, SMTT(30) DEF XorByte
<1>3. n = (n % 2) + 2 * ((n \div 2) % 2) + 4 * ((n \div 4) % 2) + 8 * ((n \div 8) % 2)
          + 16 * ((n \div 16) % 2) + 32 * ((n \div 32) % 2) + 64 * ((n \div 64) % 2)
          + 128 * ((n \div 128) % 2)
  BY SMTT(60) DEF Octet
<1> QED
  BY <1>2, <1>3

\* 0xA001 changes the bits 15, 13 and 0 of a word.
LEMMA XorLow == ASSUME NEW n \in Octet PROVE XorByte(n, 1) = IF n % 2 = 0 THEN n + 1 ELSE n - 1
<1>1. n = (n % 2) + 2 * ((n \div 2) % 2) + 4 * ((n \div 4) % 2) + 8 * ((n \div 8) % 2)
          + 16 * ((n \div 16) % 2) + 32 * ((n \div 32) % 2) + 64 * ((n \div 64) % 2)
          + 128 * ((n \div 128) % 2)
  BY SMTT(60) DEF Octet
<1>2. n \in Nat
  BY DEF Octet
<1>3. XorByte(n, 1) = ((n + 1) % 2) + 2 * ((n \div 2) % 2) + 4 * ((n \div 4) % 2) + 8 * ((n \div 8) % 2)
                      + 16 * ((n \div 16) % 2) + 32 * ((n \div 32) % 2) + 64 * ((n \div 64) % 2)
                      + 128 * ((n \div 128) % 2)
  BY <1>2, SMTT(30) DEF XorByte
<1> QED
  BY <1>1, <1>2, <1>3

LEMMA XorHigh ==
    ASSUME NEW n \in 0 .. 127
    PROVE  XorByte(n, 160) = IF (n \div 32) % 2 = 0 THEN n + 160 ELSE n + 96
<1>1. n = (n % 2) + 2 * ((n \div 2) % 2) + 4 * ((n \div 4) % 2) + 8 * ((n \div 8) % 2)
          + 16 * ((n \div 16) % 2) + 32 * ((n \div 32) % 2) + 64 * ((n \div 64) % 2)
  BY SMTT(60)
<1>2. n \in Nat /\ n \div 128 = 0
  OBVIOUS
<1>3. XorByte(n, 160) = (n % 2) + 2 * ((n \div 2) % 2) + 4 * ((n \div 4) % 2) + 8 * ((n \div 8) % 2)
                      + 16 * ((n \div 16) % 2) + 32 * ((n \div 32 + 1) % 2) + 64 * ((n \div 64) % 2)
                      + 128
  BY <1>2, SMTT(30) DEF XorByte
<1>4. PICK m \in Nat : m = n \div 32
  BY <1>2
<1>5. m % 2 \in {0, 1} /\ (m + 1) % 2 = 1 - (m % 2)
  OBVIOUS
<1> QED
  BY <1>1, <1>3, <1>4, <1>5

Halves == {n \in Nat : n < 128 * 256}
Feed(a) == Xor(a, 40961)

LEMMA FeedOctets ==
    ASSUME NEW a \in Halves
    PROVE  /\ Feed(a) \in Word
           /\ a \div 256 \in 0 .. 127 /\ a % 256 \in Octet /\ a = 256 * (a \div 256) + (a % 256)
           /\ Feed(a) \div 256 = XorByte(a \div 256, 160) /\ Feed(a) % 256 = XorByte(a % 256, 1)
<1>1. a \in Word /\ 40961 \in Word /\ 40961 \div 256 = 160 /\ 40961 % 256 = 1
  BY SMT DEF Halves, Word
<1>2. a \div 256 \in 0 .. 127 /\ a % 256 \in Octet /\ a = 256 * (a \div 256) + (a % 256)
  <2>1. a \in Nat /\ a < 128 * 256
    BY SMT DEF Halves
  <2>2. a \div 256 \in Nat /\ a \div 256 <= 127
    BY <2>1, SMTT(30)
  <2>3. a % 256 \in Octet
    BY <2>1, SMTT(30) DEF Octet
  <2>4. a = 256 * (a \div 256) + (a % 256)
    BY <2>1, SMTT(30)
  <2> QED
    BY <2>2, <2>3, <2>4
<1>3. /\ Feed(a) \in Word
      /\ Feed(a) \div 256 = XorByte(a \div 256, 40961 \div 256)
      /\ Feed(a) % 256 = XorByte(a % 256, 40961 % 256)
  BY <1>1, XorWord, SMT DEF Feed
<1> QED
  BY <1>1, <1>2, <1>3, SMT

LEMMA ShiftOut ==
    ASSUME NEW a \in Word
    PROVE  /\ a \div 2 \in Halves /\ CrcShift(a) \in Word
           /\ a % 2 = 0 => CrcShift(a) = a \div 2
           /\ a % 2 # 0 => CrcShift(a) = Feed(a \div 2)
<1>1. a \div 2 \in Halves
  BY SMTT(30) DEF Word, Halves
<1>3. Feed(a \div 2) \in Word
  BY <1>1, FeedOctets
<1>5. a \div 2 \in Word
  <2>1. \A x \in Halves : x \in Word
    BY SMTT(30) DEF Halves, Word
  <2> QED
    BY <1>1, <2>1
<1>4. CrcShift(a) = IF a % 2 = 0 THEN a \div 2 ELSE Feed(a \div 2)
  BY SMT DEF CrcShift, Feed
<1> QED
  BY <1>1, <1>3, <1>4, <1>5

\* The highest bit tells which of the two came out of a shift.
LEMMA TopBit == ASSUME NEW a \in Word PROVE (CrcShift(a) \div 256 >= 128) <=> (a % 2 # 0)
<1>1. PICK h \in 0 .. 127 : h = (a \div 2) \div 256
  BY ShiftOut, FeedOctets
<1>2. CASE a % 2 = 0
  BY <1>1, <1>2, ShiftOut
<1>3. CASE a % 2 # 0
  <2>1. CrcShift(a) \div 256 = XorByte(h, 160)
    BY <1>1, <1>3, ShiftOut, FeedOctets
  <2> QED
    BY <1>3, <2>1, XorHigh
<1> QED
  BY <1>2, <1>3

\* What 0xA001 changes, it changes alike in words whose bits agree.
LEMMA HighBack ==
    ASSUME NEW g \in 0 .. 127, NEW h \in 0 .. 127, NEW w \in Powers,
           XorByte(g, 160) \div w = XorByte(h, 160) \div w
    PROVE  g \div w = h \div w
<1>1. PICK m, n \in Nat : m = (g \div 32) % 2 /\ n = (h \div 32) % 2
  OBVIOUS
<1>2. PICK x, y \in Nat : /\ x = XorByte(g, 160) /\ y = XorByte(h, 160) /\ x \div w = y \div w
                          /\ x = IF (g \div 32) % 2 = 0 THEN g + 160 ELSE g + 96
                          /\ y = IF (h \div 32) % 2 = 0 THEN h + 160 ELSE h + 96
  BY XorHigh
<1>3. CASE w = 1
  BY <1>2, <1>3, SMTT(30)
<1>4. CASE w = 2
  BY <1>2, <1>4, SMTT(30)
<1>5. CASE w = 4
  BY <1>2, <1>5, SMTT(30)
<1>6. CASE w = 8
  BY <1>2, <1>6, SMTT(30)
<1>7. CASE w = 16
  BY <1>2, <1>7, SMTT(30)
<1>8. CASE w = 32
  BY <1>2, <1>8, SMTT(30)
<1>9. CASE w = 64
  BY <1>2, <1>9, SMTT(30)
<1>10. CASE w = 128
  BY <1>2, <1>10, SMTT(30)
<1> QED
  BY <1>3, <1>4, <1>5, <1>6, <1>7, <1>8, <1>9, <1>10 DEF Powers

LEMMA LowBack ==
    ASSUME NEW g \in Octet, NEW h \in Octet, NEW w \in Powers,
           XorByte(g, 1) % w = XorByte(h, 1) % w
    PROVE  g % w = h % w
<1>2. PICK x, y \in Nat : /\ x % w = y % w
                          /\ x = IF g % 2 = 0 THEN g + 1 ELSE g - 1
                          /\ y = IF h % 2 = 0 THEN h + 1 ELSE h - 1
  <2>1. g \in Nat /\ h \in Nat
    BY DEF Octet
  <2>2. XorByte(g, 1) = IF g % 2 = 0 THEN g + 1 ELSE g - 1
    BY XorLow
  <2>3. XorByte(h, 1) = IF h % 2 = 0 THEN h + 1 ELSE h - 1
    BY XorLow
  <2>4. XorByte(g, 1) \in Nat /\ XorByte(h, 1) \in Nat
    BY <2>1, <2>2, <2>3
  <2> QED
    BY <2>2, <2>3, <2>4, Zenon
<1>1. g \in Nat /\ h \in Nat
  BY DEF Octet
<1>3. CASE w = 1
  BY <1>1, <1>2, <1>3, SMTT(30)
<1>4. CASE w = 2
  BY <1>1, <1>2, <1>4, SMTT(30)
<1>5. CASE w = 4
  BY <1>1, <1>2, <1>5, SMTT(30)
<1>6. CASE w = 8
  BY <1>1, <1>2, <1>6, SMTT(30)
<1>7. CASE w = 16
  BY <1>1, <1>2, <1>7, SMTT(30)
<1>8. CASE w = 32
  BY <1>1, <1>2, <1>8, SMTT(30)
<1>9. CASE w = 64
  BY <1>1, <1>2, <1>9, SMTT(30)
<1>10. CASE w = 128
  BY <1>1, <1>2, <1>10, SMTT(30)
<1> QED
  BY <1>3, <1>4, <1>5, <1>6, <1>7, <1>8, <1>9, <1>10 DEF Powers

Sevens == 0 .. 127

\* A shift is taken back: words that agree after it in their high bits and in their low ones
\* agreed before it in a high bit less and a low bit more.
LEMMA ShiftBack ==
    ASSUME NEW a \in Word, NEW b \in Word, NEW w \in Powers,
           (CrcShift(a) \div 256) \div w = (CrcShift(b) \div 256) \div w,
           CrcShift(a) % w = CrcShift(b) % w
    PROVE  /\ (a \div 256) \div (2 * w) = (b \div 256) \div (2 * w)
           /\ a % (2 * w) = b % (2 * w)
<1>1. PICK c, d \in Word : c = CrcShift(a) /\ d = CrcShift(b)
  BY ShiftOut
<1>2. PICK x, y \in Halves : x = a \div 2 /\ y = b \div 2
  BY ShiftOut
<1>3. a \in Nat /\ b \in Nat /\ c \in Nat /\ d \in Nat /\ x \in Nat /\ y \in Nat
  BY DEF Word, Halves
<1>4. (c \div 256) \div w = (d \div 256) \div w /\ c % w = d % w
  BY <1>1
<1>5. (a % 2 # 0) <=> (b % 2 # 0)
  <2>1. c \div 256 \in Octet /\ d \div 256 \in Octet
    BY WordOctets
  <2>2. \A m, n \in Octet : m \div w = n \div w => (m >= 128 <=> n >= 128)
    <3> SUFFICES ASSUME NEW m \in Octet, NEW n \in Octet, m \div w = n \div w, m >= 128 PROVE n >= 128
      BY ZenonT(60)
    <3>1. m \in Nat /\ n \in Nat
      BY DEF Octet
    <3> QED
      BY <3>1, SMTT(30) DEF Powers
  <2>3. c \div 256 >= 128 <=> d \div 256 >= 128
    BY <1>4, <2>1, <2>2
  <2> QED
    BY <1>1, <2>3, TopBit
<1>6. (x \div 256) \div w = (y \div 256) \div w /\ x % w = y % w
  <2>1. CASE a % 2 = 0
    <3>1. b % 2 = 0
      BY <1>3, <1>5, <2>1
    <3>2. c = x /\ d = y
      BY <1>1, <1>2, <2>1, <3>1, ShiftOut
    <3> QED
      BY <1>4, <3>2
  <2>2. CASE a % 2 # 0
    <3>1. b % 2 # 0
      BY <1>5, <2>2
    <3>2. c = Feed(x) /\ d = Feed(y)
      BY <1>1, <1>2, <2>2, <3>1, ShiftOut
    <3>8. /\ x \div 256 \in 0 .. 127 /\ x % 256 \in Octet
          /\ c \div 256 = XorByte(x \div 256, 160) /\ c % 256 = XorByte(x % 256, 1)
      BY ONLY <3>2, x \in Halves, FeedOctets
    <3>9. /\ y \div 256 \in 0 .. 127 /\ y % 256 \in Octet
          /\ d \div 256 = XorByte(y \div 256, 160) /\ d % 256 = XorByte(y % 256, 1)
      BY ONLY <3>2, y \in Halves, FeedOctets
    <3>13. x \div 256 \in Sevens /\ y \div 256 \in Sevens
      BY ONLY <3>8, <3>9, SMT DEF Sevens
    <3>10. PICK xh, yh \in Sevens :
            /\ xh = x \div 256 /\ yh = y \div 256
            /\ c \div 256 = XorByte(xh, 160) /\ d \div 256 = XorByte(yh, 160)
      BY ONLY <3>8, <3>9, <3>13, SMT
    <3>14. xh \in 0 .. 127 /\ yh \in 0 .. 127
      BY SMT DEF Sevens
    <3>11. PICK xl, yl \in Octet :
            /\ xl = x % 256 /\ yl = y % 256
            /\ c % 256 = XorByte(xl, 1) /\ d % 256 = XorByte(yl, 1)
      BY ONLY <3>8, <3>9, SMT
    <3>3. /\ xh = x \div 256 /\ yh = y \div 256 /\ xl = x % 256 /\ yl = y % 256
          /\ c % 256 = XorByte(xl, 1) /\ d % 256 = XorByte(yl, 1)
      BY ONLY <3>10, <3>11, Zenon
    <3>12. XorByte(xh, 160) \div w = XorByte(yh, 160) \div w
      BY ONLY <1>4, <3>10, ZenonT(60)
    <3>4. \A n \in Nat : n % w = (n % 256) % w
      BY SMTT(30) DEF Powers
    <3>5. xh \div w = yh \div w
      BY ONLY <3>12, <3>14, w \in Powers, HighBack, Zenon
    <3>6. XorByte(xl, 1) % w = XorByte(yl, 1) % w
      BY <1>3, <1>4, <3>3, <3>4
    <3>7. xl % w = yl % w
      BY ONLY <3>6, xl \in Octet, yl \in Octet, w \in Powers, LowBack
    <3> QED
      BY <1>3, <3>3, <3>4, <3>5, <3>7
  <2> QED
    BY <2>1, <2>2
<1>7. (a \div 256) \div (2 * w) = (x \div 256) \div w /\ (b \div 256) \div (2 * w) = (y \div 256) \div w
  <2>1. \A n \in Nat : (n \div 256) \div (2 * w) = ((n \div 2) \div 256) \div w
    BY SMTT(30) DEF Powers
  <2> QED
    BY <1>2, <1>3, <2>1
<1>8. a % (2 * w) = 2 * (x % w) + (a % 2) /\ b % (2 * w) = 2 * (y % w) + (b % 2)
  <2>1. \A n \in Nat : n % (2 * w) = 2 * ((n \div 2) % w) + (n % 2)
    BY SMTT(30) DEF Powers
  <2> QED
    BY <1>2, <1>3, <2>1
<1>9. a % 2 = b % 2
  BY <1>3, <1>5
<1> QED
  BY <1>6, <1>7, <1>8, <1>9

\* A row of the table is the octet after eight shifts.
LEMMA TableRun ==
    ASSUME NEW low \in Octet
    PROVE  \E x \in [0 .. 8 -> Word] :
              /\ x[0] = low
              /\ \A i \in 1 .. 8 : x[i] = CrcShift(x[i - 1])
              /\ CrcTable[low] = x[8]
<1> DEFINE Shifts(h) == h = [k \in 0 .. 8 |-> IF k = 0 THEN low ELSE CrcShift(h[k - 1])]
           x == CHOOSE h : Shifts(h)
           step == [i \in 1 .. 8 |-> [s \in Word |-> CrcShift(s)]]
<1>1. low \in Word
  BY SMTT(30) DEF Octet, Word
<1>2. \A s \in Word, i \in 1 .. 8 : step[i][s] \in Word /\ step[i][s] = CrcShift(s)
  BY ShiftOut
<1>3. PICK g : IsRun(g, step, low, 8, Word)
  <2>1. StepsWithin(step, 8, Word)
    BY <1>2 DEF StepsWithin
  <2> HIDE DEF step
  <2> QED
    BY <1>1, <2>1, Iterated
<1>4. \A i \in 1 .. 8 : i - 1 \in 0 .. 8 /\ i \in 0 .. 8 /\ i # 0
  OBVIOUS
<1>5. \A i \in 0 .. 8 : g[i] = IF i = 0 THEN low ELSE CrcShift(g[i - 1])
  <2>1. /\ g \in [0 .. 8 -> Word] /\ g[0] = low
        /\ \A i \in 1 .. 8 : g[i] = step[i][g[i - 1]]
    <3> HIDE DEF step
    <3> QED
      BY <1>3 DEF IsRun
  <2> SUFFICES ASSUME NEW i \in 0 .. 8, i # 0 PROVE g[i] = CrcShift(g[i - 1])
    BY <2>1
  <2>2. i \in 1 .. 8 /\ g[i - 1] \in Word
    BY <2>1
  <2> HIDE DEF step
  <2> QED
    BY <1>2, <2>1, <2>2
<1>6. Shifts(g)
  <2>1. g \in [0 .. 8 -> Word]
    BY <1>3 DEF IsRun
  <2>2. g = [i \in 0 .. 8 |-> g[i]]
    BY <2>1
  <2> QED
    BY <1>5, <2>2
<1>7. Shifts(x)
  BY <1>6
<1>8. CrcTable[low] = x[8]
  <2>1. low \in Bytes8
    BY DEF Bytes8, Octet
  <2> QED
    BY <2>1 DEF CrcTable
<1> HIDE DEF x
<1>9. x[0] = low /\ \A i \in 1 .. 8 : x[i] = CrcShift(x[i - 1])
  BY <1>4, <1>7
<1> DEFINE T == {i \in 0 .. 8 : x[i] \in Word}
<1>10. 0 \in T
  BY <1>1, <1>9
<1>11. \A i \in 1 .. 8 : i - 1 \in T => i \in T
  BY <1>4, <1>9, ShiftOut
<1>12. \A i \in 0 .. 8 : i \in T
  <2> HIDE DEF T
  <2> QED
    BY <1>10, <1>11, UpTo
<1>13. x \in [0 .. 8 -> Word]
  BY <1>7, <1>12
<1> QED
  BY <1>8, <1>9, <1>13

LEMMA TableType == ASSUME NEW low \in Octet PROVE CrcTable[low] \in Word
  BY TableRun

\* The rows of the table differ in their high octets.
LEMMA RowsDiffer ==
    ASSUME NEW m \in Octet, NEW n \in Octet, CrcTable[m] \div 256 = CrcTable[n] \div 256
    PROVE  m = n
<1>1. PICK x \in [0 .. 8 -> Word] :
        /\ x[0] = m /\ \A i \in 1 .. 8 : x[i] = CrcShift(x[i - 1])
        /\ CrcTable[m] = x[8]
  BY TableRun
<1>2. PICK y \in [0 .. 8 -> Word] :
        /\ y[0] = n /\ \A i \in 1 .. 8 : y[i] = CrcShift(y[i - 1])
        /\ CrcTable[n] = y[8]
  BY TableRun
<1> DEFINE Alike(i, w) == (x[i] \div 256) \div w = (y[i] \div 256) \div w /\ x[i] % w = y[i] % w
<1>3. ASSUME NEW i \in 1 .. 8, NEW w \in Powers, Alike(i, w) PROVE Alike(i - 1, 2 * w)
  <2>1. PICK a, b \in Word : a = x[i - 1] /\ b = y[i - 1]
    BY <1>1, <1>2
  <2>2. x[i] = CrcShift(a) /\ y[i] = CrcShift(b)
    BY <1>1, <1>2, <2>1
  <2>3. (CrcShift(a) \div 256) \div w = (CrcShift(b) \div 256) \div w /\ CrcShift(a) % w = CrcShift(b) % w
    BY <1>3, <2>2
  <2>4. (a \div 256) \div (2 * w) = (b \div 256) \div (2 * w) /\ a % (2 * w) = b % (2 * w)
    BY ONLY <2>3, a \in Word, b \in Word, w \in Powers, ShiftBack
  <2> QED
    BY <2>1, <2>4
<1>4. Alike(8, 1)
  <2>1. PICK a, b \in Nat : a = x[8] /\ b = y[8] /\ a \div 256 = b \div 256
    BY <1>1, <1>2 DEF Word
  <2>2. (a \div 256) \div 1 = (b \div 256) \div 1 /\ a % 1 = b % 1
    BY <2>1
  <2> QED
    BY <2>1, <2>2
<1> HIDE DEF Alike
<1>14. Alike(8 - 1, 2 * 1)
  <2>1. 8 \in 1 .. 8 /\ 1 \in Powers
    BY DEF Powers
  <2> QED
    BY ONLY <1>3, <1>4, <2>1, Zenon
<1>5. Alike(7, 2)
  BY <1>14
<1>6. Alike(6, 4)
  BY <1>3, <1>5 DEF Powers
<1>7. Alike(5, 8)
  BY <1>3, <1>6 DEF Powers
<1>8. Alike(4, 16)
  BY <1>3, <1>7 DEF Powers
<1>9. Alike(3, 32)
  BY <1>3, <1>8 DEF Powers
<1>10. Alike(2, 64)
  BY <1>3, <1>9 DEF Powers
<1>11. Alike(1, 128)
  BY <1>3, <1>10 DEF Powers
<1>12. Alike(0, 256)
  BY <1>3, <1>11 DEF Powers
<1>13. m % 256 = n % 256
  BY <1>1, <1>2, <1>12 DEF Alike
<1>15. \A k \in Octet : k % 256 = k
  BY SMTT(30) DEF Octet
<1> QED
  BY <1>13, <1>15

\* The step of a byte: the row it picks gives the high octet, and changes the old one.
LEMMA StepOctets ==
    ASSUME NEW c \in Word, NEW b \in Octet
    PROVE  /\ XorByte(c % 256, b) \in Octet
           /\ CrcStep(c, b) \in Word
           /\ CrcStep(c, b) \div 256 = CrcTable[XorByte(c % 256, b)] \div 256
           /\ CrcStep(c, b) % 256 = XorByte(c \div 256, CrcTable[XorByte(c % 256, b)] % 256)
<1>1. PICK x \in Octet : x = XorByte(c % 256, b)
  BY WordOctets, XorType
<1>2. PICK t \in Word : t = CrcTable[x]
  BY TableType
<1>3. PICK h \in Octet : h = c \div 256
  BY WordOctets
<1>4. h \in Word /\ h \div 256 = 0 /\ h % 256 = h
  BY SMTT(30) DEF Octet, Word
<1>5. /\ Xor(h, t) \in Word
      /\ Xor(h, t) \div 256 = XorByte(h \div 256, t \div 256)
      /\ Xor(h, t) % 256 = XorByte(h % 256, t % 256)
  BY ONLY <1>4, t \in Word, XorWord
<1>6. XorByte(0, t \div 256) = t \div 256
  <2>1. t \div 256 \in Octet
    BY WordOctets
  <2> QED
    BY <2>1, XorNothing
<1>7. CrcStep(c, b) = Xor(h, t)
  BY <1>1, <1>2, <1>3, Zenon DEF CrcStep
<1> QED
  BY <1>1, <1>2, <1>3, <1>4, <1>5, <1>6, <1>7

LEMMA StepTellsByte ==
    ASSUME NEW c \in Word, NEW a \in Octet, NEW b \in Octet, CrcStep(c, a) = CrcStep(c, b)
    PROVE  a = b
<1>1. PICK l \in Octet : l = c % 256
  BY WordOctets
<1>2. PICK x, y \in Octet : x = XorByte(l, a) /\ y = XorByte(l, b)
  BY XorType
<1>3. CrcTable[x] \div 256 = CrcTable[y] \div 256
  <2>1. CrcStep(c, a) \div 256 = CrcTable[XorByte(c % 256, a)] \div 256
    BY ONLY c \in Word, a \in Octet, StepOctets
  <2>2. CrcStep(c, b) \div 256 = CrcTable[XorByte(c % 256, b)] \div 256
    BY ONLY c \in Word, b \in Octet, StepOctets
  <2>3. CrcStep(c, a) = CrcStep(c, b)
    OBVIOUS
  <2> QED
    BY <1>1, <1>2, <2>1, <2>2, <2>3, ZenonT(60)
<1>4. x = y
  BY ONLY <1>3, x \in Octet, y \in Octet, RowsDiffer
<1>5. XorByte(a, l) = XorByte(b, l)
  BY <1>2, <1>4, XorSwaps
<1> QED
  BY ONLY <1>5, a \in Octet, b \in Octet, l \in Octet, XorCancels

LEMMA StepTellsState ==
    ASSUME NEW c \in Word, NEW d \in Word, NEW b \in Octet, CrcStep(c, b) = CrcStep(d, b)
    PROVE  c = d
<1>1. PICK k, l \in Octet : k = c % 256 /\ l = d % 256
  BY WordOctets
<1>2. PICK g, h \in Octet : g = c \div 256 /\ h = d \div 256
  BY WordOctets
<1>3. PICK x, y \in Octet : x = XorByte(k, b) /\ y = XorByte(l, b)
  BY XorType
<1>4. CrcStep(c, b) \div 256 = CrcTable[x] \div 256 /\ CrcStep(c, b) % 256 = XorByte(g, CrcTable[x] % 256)
  <2>1. /\ CrcStep(c, b) \div 256 = CrcTable[XorByte(c % 256, b)] \div 256
        /\ CrcStep(c, b) % 256 = XorByte(c \div 256, CrcTable[XorByte(c % 256, b)] % 256)
    BY ONLY c \in Word, b \in Octet, StepOctets
  <2> QED
    BY <1>1, <1>2, <1>3, <2>1, ZenonT(60)
<1>5. CrcStep(d, b) \div 256 = CrcTable[y] \div 256 /\ CrcStep(d, b) % 256 = XorByte(h, CrcTable[y] % 256)
  <2>1. /\ CrcStep(d, b) \div 256 = CrcTable[XorByte(d % 256, b)] \div 256
        /\ CrcStep(d, b) % 256 = XorByte(d \div 256, CrcTable[XorByte(d % 256, b)] % 256)
    BY ONLY d \in Word, b \in Octet, StepOctets
  <2> QED
    BY <1>1, <1>2, <1>3, <2>1, ZenonT(60)
<1>6. CrcTable[x] \div 256 = CrcTable[y] \div 256
  BY <1>4, <1>5
<1>7. x = y
  BY ONLY <1>6, x \in Octet, y \in Octet, RowsDiffer
<1>8. k = l
  <2>1. XorByte(k, b) = XorByte(l, b)
    BY <1>3, <1>7
  <2> QED
    BY ONLY <2>1, k \in Octet, l \in Octet, b \in Octet, XorCancels
<1>9. PICK r \in Octet : r = CrcTable[x] % 256
  BY TableType, WordOctets
<1>10. XorByte(g, r) = XorByte(h, r)
  BY <1>4, <1>5, <1>7, <1>9
<1>11. g = h
  BY ONLY <1>10, g \in Octet, h \in Octet, r \in Octet, XorCancels
<1> QED
  BY <1>1, <1>2, <1>8, <1>11, WordOctets

LEMMA ShiftOdd ==
    ASSUME NEW h \in 0 .. 127, NEW l \in Octet, NEW a \in Word, a % 2 # 0, a \div 2 = 256 * h + l
    PROVE  CrcShift(a) = 256 * XorByte(h, 160) + XorByte(l, 1)
<1>1. PICK x \in Halves : x = a \div 2 /\ CrcShift(a) = Feed(x)
  BY ShiftOut
<1>2. x \div 256 = h /\ x % 256 = l
  <2>1. h \in Octet
    BY DEF Octet
  <2> QED
    BY <1>1, <2>1, OctetsWord
<1>3. Feed(x) \in Word /\ Feed(x) \div 256 = XorByte(h, 160) /\ Feed(x) % 256 = XorByte(l, 1)
  BY <1>2, FeedOctets
<1> QED
  BY <1>1, <1>3, WordOctets

\* The row 84 is 0xFF01: no other has a high octet of ones.
LEMMA RowOfOnes == CrcTable[84] \div 256 = 255 /\ CrcTable[84] % 256 = 1
<1>1. 84 \in Octet
  BY DEF Octet
<1>2. PICK x \in [0 .. 8 -> Word] :
        /\ x[0] = 84 /\ \A i \in 1 .. 8 : x[i] = CrcShift(x[i - 1])
        /\ CrcTable[84] = x[8]
  BY <1>1, TableRun
<1>3. /\ x[1] = CrcShift(x[0]) /\ x[2] = CrcShift(x[1]) /\ x[3] = CrcShift(x[2]) /\ x[4] = CrcShift(x[3])
      /\ x[5] = CrcShift(x[4]) /\ x[6] = CrcShift(x[5]) /\ x[7] = CrcShift(x[6]) /\ x[8] = CrcShift(x[7])
  BY <1>2
<1>4. /\ x[0] \in Word /\ x[1] \in Word /\ x[2] \in Word /\ x[3] \in Word
      /\ x[4] \in Word /\ x[5] \in Word /\ x[6] \in Word /\ x[7] \in Word
  BY <1>2
<1>5. \A l \in Octet : XorByte(l, 1) = IF l % 2 = 0 THEN l + 1 ELSE l - 1
  BY XorLow
<1>6. /\ 0 \in Octet /\ 10 \in Octet /\ 5 \in Octet
      /\ 0 \in 0 .. 127 /\ 80 \in 0 .. 127 /\ 30 \in 0 .. 127 /\ 95 \in 0 .. 127
  BY DEF Octet
<1>7. /\ XorByte(10, 1) = 11 /\ XorByte(5, 1) = 4 /\ XorByte(0, 1) = 1
  BY <1>5, <1>6
<1>8. /\ XorByte(0, 160) = 160 /\ XorByte(80, 160) = 240 /\ XorByte(30, 160) = 190 /\ XorByte(95, 160) = 255
  BY <1>6, XorHigh
<1>9. x[1] = 42
  <2>1. 84 % 2 = 0 /\ 84 \div 2 = 42
    OBVIOUS
  <2> QED
    BY <1>2, <1>3, <1>4, <2>1, ShiftOut
<1>10. x[2] = 21
  <2>1. 42 % 2 = 0 /\ 42 \div 2 = 21
    OBVIOUS
  <2> QED
    BY <1>3, <1>4, <1>9, <2>1, ShiftOut
<1>11. x[3] = 256 * 160 + 11
  <2>1. x[2] % 2 # 0 /\ x[2] \div 2 = 256 * 0 + 10
    BY <1>10
  <2>2. CrcShift(x[2]) = 256 * XorByte(0, 160) + XorByte(10, 1)
    BY ONLY <1>4, <1>6, <2>1, ShiftOdd
  <2> QED
    BY <1>3, <1>7, <1>8, <2>2
<1>12. x[4] = 256 * 240 + 4
  <2>1. x[3] % 2 # 0 /\ x[3] \div 2 = 256 * 80 + 5
    BY <1>11
  <2>2. CrcShift(x[3]) = 256 * XorByte(80, 160) + XorByte(5, 1)
    BY ONLY <1>4, <1>6, <2>1, ShiftOdd
  <2> QED
    BY <1>3, <1>7, <1>8, <2>2
<1>13. x[5] = 256 * 120 + 2
  <2>1. x[4] % 2 = 0 /\ x[4] \div 2 = 256 * 120 + 2
    BY <1>12
  <2>2. CrcShift(x[4]) = x[4] \div 2
    BY <1>4, <2>1, ShiftOut
  <2> QED
    BY <1>3, <2>1, <2>2
<1>14. x[6] = 256 * 60 + 1
  <2>1. x[5] % 2 = 0 /\ x[5] \div 2 = 256 * 60 + 1
    BY <1>13
  <2>2. CrcShift(x[5]) = x[5] \div 2
    BY <1>4, <2>1, ShiftOut
  <2> QED
    BY <1>3, <2>1, <2>2
<1>15. x[7] = 256 * 190 + 1
  <2>1. x[6] % 2 # 0 /\ x[6] \div 2 = 256 * 30 + 0
    BY <1>14
  <2>2. CrcShift(x[6]) = 256 * XorByte(30, 160) + XorByte(0, 1)
    BY ONLY <1>4, <1>6, <2>1, ShiftOdd
  <2> QED
    BY <1>3, <1>7, <1>8, <2>2
<1>16. x[8] = 256 * 255 + 1
  <2>1. x[7] % 2 # 0 /\ x[7] \div 2 = 256 * 95 + 0
    BY <1>15
  <2>2. CrcShift(x[7]) = 256 * XorByte(95, 160) + XorByte(0, 1)
    BY ONLY <1>4, <1>6, <2>1, ShiftOdd
  <2> QED
    BY <1>3, <1>7, <1>8, <2>2
<1> QED
  BY <1>2, <1>16

LEMMA OnesAreRow84 == ASSUME NEW x \in Octet, CrcTable[x] \div 256 = 255 PROVE x = 84
<1>1. 84 \in Octet /\ CrcTable[x] \div 256 = CrcTable[84] \div 256
  BY RowOfOnes DEF Octet
<1> QED
  BY ONLY <1>1, x \in Octet, RowsDiffer

\* The CRC begins with sixteen ones.
Ones == 256 * 255 + 255

LEMMA OnesOctets == Ones \in Word /\ Ones \div 256 = 255 /\ Ones % 256 = 255 /\ 255 \in Octet
  BY SMTT(30) DEF Ones, Word, Octet

\* No byte leaves the ones as they were.
LEMMA OnesMove == ASSUME NEW b \in Octet PROVE CrcStep(Ones, b) # Ones
<1> SUFFICES ASSUME CrcStep(Ones, b) = Ones PROVE FALSE
  OBVIOUS
<1>1. PICK x \in Octet : x = XorByte(255, b)
  BY OnesOctets, XorType
<1>2. /\ CrcStep(Ones, b) \div 256 = CrcTable[x] \div 256
      /\ CrcStep(Ones, b) % 256 = XorByte(255, CrcTable[x] % 256)
  BY <1>1, OnesOctets, StepOctets
<1>3. CrcTable[x] \div 256 = 255
  BY <1>2, OnesOctets
<1>4. x = 84
  BY ONLY <1>3, x \in Octet, OnesAreRow84
<1>5. XorByte(255, 1) = 255
  BY <1>2, <1>4, OnesOctets, RowOfOnes
<1>6. XorByte(255, 1) = 254
  BY OnesOctets, XorLow
<1> QED
  BY <1>5, <1>6

\* Only after one first byte is there a second one that leaves the CRC as it was.
LEMMA FirstMoves ==
    ASSUME NEW c \in Octet, NEW n \in Octet, CrcStep(CrcStep(Ones, c), n) = CrcStep(Ones, c)
    PROVE  c = 171
<1>1. PICK s \in Word : s = CrcStep(Ones, c)
  BY OnesOctets, StepOctets
<1>2. PICK x \in Octet : x = XorByte(255, c)
  BY OnesOctets, XorType
<1>3. PICK h, l \in Octet : h = s \div 256 /\ l = s % 256
  BY WordOctets
<1>4. PICK y \in Octet : y = XorByte(l, n)
  BY XorType
<1>5. h = CrcTable[x] \div 256 /\ l = XorByte(255, CrcTable[x] % 256)
  BY <1>1, <1>2, <1>3, OnesOctets, StepOctets, SMTT(60)
<1>6. CrcStep(s, n) \div 256 = CrcTable[y] \div 256 /\ CrcStep(s, n) % 256 = XorByte(h, CrcTable[y] % 256)
  BY <1>3, <1>4, StepOctets
<1>7. CrcStep(s, n) = s
  BY <1>1
<1>8. CrcTable[x] \div 256 = CrcTable[y] \div 256
  BY <1>3, <1>5, <1>6, <1>7
<1>9. x = y
  BY ONLY <1>8, x \in Octet, y \in Octet, RowsDiffer
<1>10. PICK r \in Octet : r = CrcTable[x] % 256
  BY TableType, WordOctets
<1>11. XorByte(h, r) = XorByte(255, r)
  BY <1>3, <1>5, <1>6, <1>7, <1>9, <1>10
<1>12. h = 255
  BY ONLY <1>11, OnesOctets, h \in Octet, r \in Octet, XorCancels
<1>13. CrcTable[x] \div 256 = 255
  BY <1>5, <1>12
<1>14. x = 84
  BY ONLY <1>13, x \in Octet, OnesAreRow84
<1>15. 171 \in Octet /\ XorByte(171, 255) = 84
  <2>1. 171 \in Octet
    BY DEF Octet
  <2>2. XorByte(171, 255) = 84
    BY SMTT(30) DEF XorByte
  <2> QED
    BY <2>1, <2>2
<1>16. XorByte(c, 255) = XorByte(171, 255)
  BY <1>2, <1>14, <1>15, OnesOctets, XorSwaps
<1> QED
  BY ONLY <1>15, <1>16, OnesOctets, c \in Octet, XorCancels

LEMMA OnesNumber == Ones = 65535
  BY SMT DEF Ones

\* The CRC of a sequence is where the steps of its bytes lead.
CrcSteps(x, p) == /\ x \in [0 .. Len(p) -> Word] /\ x[0] = Ones
                  /\ \A i \in 1 .. Len(p) : x[i] = CrcStep(x[i - 1], p[i])

LEMMA CrcRun == ASSUME NEW p \in Seq(Octet) PROVE \E x : CrcSteps(x, p) /\ Crc(p) = x[Len(p)]
<1> DEFINE Runs(h) == h = [k \in 0 .. Len(p) |-> IF k = 0 THEN 65535 ELSE CrcStep(h[k - 1], p[k])]
           x == CHOOSE h : Runs(h)
           step == [i \in 1 .. Len(p) |-> [s \in Word |-> CrcStep(s, p[i])]]
<1>1. Len(p) \in Nat /\ \A i \in 1 .. Len(p) : p[i] \in Octet
  OBVIOUS
<1>2. \A s \in Word, i \in 1 .. Len(p) : step[i][s] \in Word /\ step[i][s] = CrcStep(s, p[i])
  BY <1>1, StepOctets
<1>3. PICK g : IsRun(g, step, Ones, Len(p), Word)
  <2>1. StepsWithin(step, Len(p), Word)
    BY <1>2 DEF StepsWithin
  <2> HIDE DEF step
  <2> QED
    BY <1>1, <2>1, OnesOctets, Iterated
<1>4. \A i \in 1 .. Len(p) : i - 1 \in 0 .. Len(p) /\ i \in 0 .. Len(p) /\ i # 0
  BY <1>1
<1>5. \A i \in 0 .. Len(p) : g[i] = IF i = 0 THEN Ones ELSE CrcStep(g[i - 1], p[i])
  <2>1. /\ g \in [0 .. Len(p) -> Word] /\ g[0] = Ones
        /\ \A i \in 1 .. Len(p) : g[i] = step[i][g[i - 1]]
    <3> HIDE DEF step
    <3> QED
      BY <1>3 DEF IsRun
  <2> SUFFICES ASSUME NEW i \in 0 .. Len(p), i # 0 PROVE g[i] = CrcStep(g[i - 1], p[i])
    BY <2>1
  <2>2. i \in 1 .. Len(p) /\ g[i - 1] \in Word
    BY <1>1, <2>1
  <2> HIDE DEF step
  <2> QED
    BY <1>2, <2>1, <2>2
<1>6. Runs(g)
  <2>1. g \in [0 .. Len(p) -> Word]
    BY <1>3 DEF IsRun
  <2>2. g = [i \in 0 .. Len(p) |-> g[i]]
    BY <2>1
  <2> QED
    BY <1>5, <2>2, OnesNumber
<1>7. Runs(x)
  BY <1>6
<1>8. Crc(p) = x[Len(p)]
  BY DEF Crc
<1> HIDE DEF x
<1>9. x[0] = Ones /\ \A i \in 1 .. Len(p) : x[i] = CrcStep(x[i - 1], p[i])
  BY <1>1, <1>4, <1>7, OnesNumber
<1> DEFINE T == {i \in 0 .. Len(p) : x[i] \in Word}
<1>10. 0 \in T
  BY <1>1, <1>9, OnesOctets
<1>11. \A i \in 1 .. Len(p) : i - 1 \in T => i \in T
  BY <1>1, <1>4, <1>9, StepOctets
<1>12. \A i \in 0 .. Len(p) : i \in T
  <2> HIDE DEF T
  <2> QED
    BY <1>1, <1>10, <1>11, UpTo
<1>13. x \in [0 .. Len(p) -> Word]
  BY <1>7, <1>12
<1> QED
  BY <1>8, <1>9, <1>13 DEF CrcSteps

LEMMA CrcType == ASSUME NEW p \in Seq(Octet) PROVE Crc(p) \in Word
<1>1. PICK x : CrcSteps(x, p) /\ Crc(p) = x[Len(p)]
  BY CrcRun
<1> QED
  BY <1>1 DEF CrcSteps

\* Sequences that end alike have the same CRC only if it was the same before the common end.
EndAlike(p, q, x, y, i, j, n) ==
    /\ CrcSteps(x, p) /\ CrcSteps(y, q) /\ x[Len(p)] = y[Len(q)]
    /\ i + n = Len(p) /\ j + n = Len(q) /\ \A m \in 1 .. n : p[i + m] = q[j + m]

LEMMA CrcBack ==
    ASSUME NEW p \in Seq(Octet), NEW q \in Seq(Octet), NEW x, NEW y, NEW i \in Nat, NEW j \in Nat,
           NEW n \in Nat, EndAlike(p, q, x, y, i, j, n)
    PROVE  x[i] = y[j]
<1> USE DEF EndAlike
<1> DEFINE T == {m \in 0 .. n : x[i + m] = y[j + m] => x[i] = y[j]}
<1>1. 0 \in T
  OBVIOUS
<1>2. ASSUME NEW m \in 1 .. n, m - 1 \in T PROVE m \in T
  <2>1. /\ i + m \in 1 .. Len(p) /\ j + m \in 1 .. Len(q) /\ m \in 0 .. n
        /\ (i + m) - 1 = i + (m - 1) /\ (j + m) - 1 = j + (m - 1)
        /\ (i + m) - 1 \in 0 .. Len(p) /\ (j + m) - 1 \in 0 .. Len(q)
    OBVIOUS
  <2>2. PICK b \in Octet : b = p[i + m] /\ b = q[j + m]
    BY <2>1
  <2>3. PICK c, d \in Word : c = x[i + (m - 1)] /\ d = y[j + (m - 1)]
    BY <2>1 DEF CrcSteps
  <2>4. x[i + m] = CrcStep(c, b) /\ y[j + m] = CrcStep(d, b)
    BY <2>1, <2>2, <2>3 DEF CrcSteps
  <2>5. ASSUME x[i + m] = y[j + m] PROVE x[i] = y[j]
    <3>1. CrcStep(c, b) = CrcStep(d, b)
      BY <2>4, <2>5
    <3>2. c = d
      BY ONLY <3>1, c \in Word, d \in Word, b \in Octet, StepTellsState
    <3> QED
      BY <1>2, <2>3, <3>2
  <2> QED
    BY <2>1, <2>5
<1>3. \A m \in 0 .. n : m \in T
  <2> HIDE DEF T
  <2> QED
    BY <1>1, <1>2, UpTo
<1>4. n \in T
  BY <1>3
<1> QED
  BY <1>4

\* Sequences that begin alike have the same CRC after the common beginning.
LEMMA CrcAhead ==
    ASSUME NEW p \in Seq(Octet), NEW q \in Seq(Octet), NEW x, CrcSteps(x, p), NEW y, CrcSteps(y, q),
           NEW n \in Nat, n <= Len(p), n <= Len(q), \A m \in 1 .. n : p[m] = q[m]
    PROVE  x[n] = y[n]
<1> DEFINE T == {m \in 0 .. n : x[m] = y[m]}
<1>1. 0 \in T
  BY DEF CrcSteps
<1>2. ASSUME NEW m \in 1 .. n, m - 1 \in T PROVE m \in T
  <2>1. m \in 1 .. Len(p) /\ m \in 1 .. Len(q) /\ m \in 0 .. n
    OBVIOUS
  <2> QED
    BY <1>2, <2>1 DEF CrcSteps
<1>3. \A m \in 0 .. n : m \in T
  <2> HIDE DEF T
  <2> QED
    BY <1>1, <1>2, UpTo
<1> QED
  BY <1>3

\* Sequences with one different byte have different CRCs.
LEMMA CrcTells ==
    ASSUME NEW p \in Seq(Octet), NEW q \in Seq(Octet), Len(p) = Len(q), NEW k \in 1 .. Len(p),
           p[k] # q[k], \A i \in 1 .. Len(p) : i # k => p[i] = q[i]
    PROVE  Crc(p) # Crc(q)
<1> SUFFICES ASSUME Crc(p) = Crc(q) PROVE FALSE
  OBVIOUS
<1>1. PICK x : CrcSteps(x, p) /\ Crc(p) = x[Len(p)]
  BY CrcRun
<1>2. PICK y : CrcSteps(y, q) /\ Crc(q) = y[Len(q)]
  BY CrcRun
<1>3. PICK n \in Nat : k + n = Len(p) /\ k + n = Len(q)
  <2>1. Len(p) - k \in Nat /\ k + (Len(p) - k) = Len(p)
    OBVIOUS
  <2> QED
    BY <2>1
<1>4. \A m \in 1 .. n : p[k + m] = q[k + m]
  BY <1>3
<1>5. x[k] = y[k]
  <2>1. x[Len(p)] = y[Len(q)] /\ CrcSteps(x, p) /\ CrcSteps(y, q)
    BY <1>1, <1>2
  <2>2. k \in Nat
    OBVIOUS
  <2>3. EndAlike(p, q, x, y, k, k, n)
    BY ONLY <1>3, <1>4, <2>1, Zenon DEF EndAlike
  <2>4. n \in Nat
    BY <1>3
  <2> QED
    BY ONLY <2>2, <2>3, <2>4, p \in Seq(Octet), q \in Seq(Octet), CrcBack
<1>6. x[k - 1] = y[k - 1]
  <2>1. k - 1 \in Nat /\ k - 1 <= Len(p) /\ k - 1 <= Len(q) /\ \A m \in 1 .. k - 1 : p[m] = q[m]
    OBVIOUS
  <2>2. CrcSteps(x, p) /\ CrcSteps(y, q)
    BY <1>1, <1>2
  <2> QED
    BY ONLY <2>1, <2>2, p \in Seq(Octet), q \in Seq(Octet), CrcAhead
<1>7. PICK c \in Word, a, b \in Octet : c = x[k - 1] /\ a = p[k] /\ b = q[k]
  <2>1. x[k - 1] \in Word /\ p[k] \in Octet /\ q[k] \in Octet
    BY <1>1 DEF CrcSteps
  <2> QED
    BY <2>1
<1>8. CrcStep(c, a) = CrcStep(c, b)
  BY <1>1, <1>2, <1>5, <1>6, <1>7 DEF CrcSteps
<1>9. a = b
  BY ONLY <1>8, c \in Word, a \in Octet, b \in Octet, StepTellsByte
<1> QED
  BY <1>7, <1>9

\* A byte more in front changes the CRC.
LEMMA CrcLonger ==
    ASSUME NEW p \in Seq(Octet), NEW q \in Seq(Octet), Len(q) = Len(p) + 1,
           \A m \in 1 .. Len(p) : q[m + 1] = p[m]
    PROVE  Crc(p) # Crc(q)
<1> SUFFICES ASSUME Crc(p) = Crc(q) PROVE FALSE
  OBVIOUS
<1>1. PICK x : CrcSteps(x, p) /\ Crc(p) = x[Len(p)]
  BY CrcRun
<1>2. PICK y : CrcSteps(y, q) /\ Crc(q) = y[Len(q)]
  BY CrcRun
<1>3. PICK n \in Nat : 0 + n = Len(p) /\ 1 + n = Len(q)
  OBVIOUS
<1>4. \A m \in 1 .. n : p[0 + m] = q[1 + m]
  BY <1>3
<1>5. x[0] = y[1]
  <2>1. x[Len(p)] = y[Len(q)] /\ CrcSteps(x, p) /\ CrcSteps(y, q)
    BY <1>1, <1>2
  <2>2. PICK i, j \in Nat : i = 0 /\ j = 1
    OBVIOUS
  <2>3. EndAlike(p, q, x, y, i, j, n)
    BY ONLY <1>3, <1>4, <2>1, <2>2, Zenon DEF EndAlike
  <2>4. n \in Nat
    BY <1>3
  <2>6. i \in Nat /\ j \in Nat
    BY <2>2
  <2>5. x[i] = y[j]
    BY ONLY <2>6, <2>3, <2>4, p \in Seq(Octet), q \in Seq(Octet), CrcBack
  <2> QED
    BY ONLY <2>2, <2>5
<1>6. q[1] \in Octet /\ y[1] = CrcStep(Ones, q[1])
  <2>1. 1 \in 1 .. Len(q) /\ 1 - 1 = 0
    OBVIOUS
  <2> QED
    BY <1>2, <2>1 DEF CrcSteps
<1> QED
  BY <1>1, <1>5, <1>6, OnesMove DEF CrcSteps

\* p is q without its second byte, and the CRC does not show it.
SecondUnseen(p, q) ==
    /\ p # <<>> /\ Len(q) = Len(p) + 1 /\ q[1] = p[1]
    /\ \A m \in 2 .. Len(p) : q[m + 1] = p[m]
    /\ Crc(p) = Crc(q)

\* A byte less at the second place changes the CRC, but after one first byte.
LEMMA CrcShorter ==
    ASSUME NEW p \in Seq(Octet), NEW q \in Seq(Octet), SecondUnseen(p, q)
    PROVE  q[1] = 171
<1> USE DEF SecondUnseen
<1>1. PICK x : CrcSteps(x, p) /\ Crc(p) = x[Len(p)]
  BY CrcRun
<1>2. PICK y : CrcSteps(y, q) /\ Crc(q) = y[Len(q)]
  BY CrcRun
<1>3. PICK n \in Nat : 1 + n = Len(p) /\ 2 + n = Len(q)
  <2>1. Len(p) - 1 \in Nat
    OBVIOUS
  <2> QED
    BY <2>1, SMTT(60)
<1>4. ASSUME NEW m \in 1 .. n PROVE p[1 + m] = q[2 + m]
  <2>1. 1 + m \in 2 .. Len(p) /\ (1 + m) + 1 = 2 + m
    BY <1>3
  <2> QED
    BY <2>1
<1>5. x[1] = y[2]
  <2>1. x[Len(p)] = y[Len(q)] /\ CrcSteps(x, p) /\ CrcSteps(y, q)
    BY <1>1, <1>2
  <2>2. 1 \in Nat /\ 2 \in Nat
    OBVIOUS
  <2>3. EndAlike(p, q, x, y, 1, 2, n)
    BY ONLY <1>3, <1>4, <2>1, Zenon DEF EndAlike
  <2>4. n \in Nat
    BY <1>3
  <2> QED
    BY ONLY <2>2, <2>3, <2>4, p \in Seq(Octet), q \in Seq(Octet), CrcBack
<1>6. PICK a, b \in Octet : a = q[1] /\ a = p[1] /\ b = q[2]
  BY <1>3
<1>7. x[1] = CrcStep(Ones, a) /\ y[1] = CrcStep(Ones, a) /\ y[2] = CrcStep(y[1], b)
  <2>1. 1 \in 1 .. Len(p) /\ 1 \in 1 .. Len(q) /\ 2 \in 1 .. Len(q) /\ 1 - 1 = 0 /\ 2 - 1 = 1
    BY <1>3
  <2> QED
    BY <1>1, <1>2, <1>6, <2>1 DEF CrcSteps
<1>8. CrcStep(CrcStep(Ones, a), b) = CrcStep(Ones, a)
  BY <1>5, <1>7
<1>9. a = 171
  BY ONLY <1>8, a \in Octet, b \in Octet, FirstMoves
<1> QED
  BY <1>6, <1>9

-------------------------------------------------------------------------------
(* The frames of the NCC line.                                              *)

\* What the decoder accepts: a body between marks, its length as its second byte, and its CRC.
IsFrame(w, b) ==
    /\ Len(b) >= 7 /\ Len(b) <= 252 /\ Len(w) = Len(b) + 4
    /\ w[1] = 2 /\ w[Len(b) + 4] = 3 /\ b[2] = Len(b) + 1
    /\ \A i \in 1 .. Len(b) : w[i + 1] = b[i]
    /\ w[Len(b) + 2] = Crc(b) % 256 /\ w[Len(b) + 3] = Crc(b) \div 256

LEMMA CheckOctets ==
    ASSUME NEW v \in Seq(Octet), NEW n \in Nat, n = Len(v), n >= 11
    PROVE  SubSeq(v, n - 2, n - 1) = <<v[n - 2], v[n - 1]>>
<1>1. PICK i \in Nat : i = n - 3
  OBVIOUS
<1>2. i + 1 = n - 2 /\ i <= n - 1 /\ n - 1 <= Len(v) /\ n - 1 \in Nat /\ (n - 1) - i = 2
      /\ i + 2 = n - 1
  BY <1>1
<1>3. PICK u : u = SubSeq(v, i + 1, n - 1)
  OBVIOUS
<1>4. u \in Seq(Octet) /\ Len(u) = (n - 1) - i /\ \A x \in 1 .. (n - 1) - i : u[x] = v[i + x]
  BY ONLY <1>2, <1>3, i \in Nat, v \in Seq(Octet), PartFields
<1>5. Len(u) = 2 /\ u[1] = v[n - 2] /\ u[2] = v[n - 1]
  BY <1>1, <1>2, <1>4
<1>6. u = <<u[1], u[2]>>
  <2>1. PICK t : t = <<u[1], u[2]>>
    OBVIOUS
  <2>2. u[1] \in Octet /\ u[2] \in Octet
    BY <1>4, <1>5
  <2>3. t \in Seq(Octet) /\ Len(u) = Len(t) /\ \A x \in 1 .. Len(u) : u[x] = t[x]
    BY <1>5, <2>1, <2>2
  <2>4. u = t
    BY ONLY <1>4, <2>3, SeqEqual
  <2> QED
    BY <2>1, <2>4
<1> QED
  BY <1>2, <1>3, <1>5, <1>6

LEMMA AcceptedFrame ==
    ASSUME NEW v \in Seq(Octet), Verdict(v) = "ok"
    PROVE  \E b \in Seq(Octet) : IsFrame(v, b)
<1>1. PICK n \in Nat : n = Len(v)
  OBVIOUS
<1>2. PICK b : b = SubSeq(v, 2, n - 3)
  OBVIOUS
<1>11. /\ ~(n < 11) /\ ~(n > 256) /\ v[1] = 2 /\ v[n] = 3 /\ n = v[3] + 3
       /\ CrcBytes(b) = SubSeq(v, n - 2, n - 1)
  BY <1>1, <1>2 DEF Verdict, Overhead, MaxPacket, Stx, Etx
<1>3. n >= 11 /\ n <= 256
  <2>1. ~(n < 11) /\ ~(n > 256)
    BY ONLY <1>11, Zenon
  <2>2. n \in Nat
    BY <1>1
  <2> QED
    BY ONLY <2>1, <2>2, SMT
<1>12. v[1] = 2 /\ v[n] = 3 /\ n = v[3] + 3
  BY <1>11
<1>13. CrcBytes(b) = SubSeq(v, n - 2, n - 1)
  BY <1>11
<1>4. b \in Seq(Octet) /\ Len(b) = n - 4 /\ \A x \in 1 .. n - 4 : b[x] = v[1 + x]
  <2>1. PICK i, j \in Nat : i = 1 /\ j = n - 3
    BY <1>3
  <2>2. i <= j /\ j <= Len(v) /\ b = SubSeq(v, i + 1, j) /\ j - i = n - 4 /\ i \in Nat /\ j \in Nat
    BY <1>1, <1>2, <1>3, <2>1
  <2>3. b \in Seq(Octet) /\ Len(b) = j - i /\ \A x \in 1 .. j - i : b[x] = v[i + x]
    BY ONLY <2>2, v \in Seq(Octet), PartFields
  <2> QED
    BY <2>1, <2>2, <2>3
<1>5. <<Crc(b) % 256, Crc(b) \div 256>> = <<v[n - 2], v[n - 1]>>
  <2>1. SubSeq(v, n - 2, n - 1) = <<v[n - 2], v[n - 1]>>
    BY ONLY <1>1, <1>3, n \in Nat, v \in Seq(Octet), CheckOctets
  <2> QED
    BY <1>13, <2>1, Zenon DEF CrcBytes
<1>6. Crc(b) % 256 = v[n - 2] /\ Crc(b) \div 256 = v[n - 1]
  BY <1>5
<1>7. v[3] \in Nat
  <2>1. 3 \in 1 .. Len(v)
    BY <1>1, <1>3
  <2>2. v[3] \in Octet
    BY <2>1
  <2>3. \A o \in Octet : o \in Nat
    BY DEF Octet
  <2> QED
    BY ONLY <2>2, <2>3
<1>8. b[2] = v[3] /\ v[3] = Len(b) + 1
  BY <1>3, <1>4, <1>7, <1>12, SMTT(60)
<1>9. Len(b) + 4 = n /\ Len(b) + 2 = n - 2 /\ Len(b) + 3 = n - 1 /\ Len(b) >= 7 /\ Len(b) <= 252
  BY <1>3, <1>4
<1>10. \A i \in 1 .. Len(b) : v[i + 1] = b[i]
  <2>1. \A i \in 1 .. Len(b) : i \in 1 .. n - 4 /\ i + 1 = 1 + i
    BY <1>4
  <2> QED
    BY <1>4, <2>1
<1> QED
  <2>1. /\ Len(b) >= 7 /\ Len(b) <= 252 /\ Len(v) = Len(b) + 4
        /\ v[1] = 2 /\ v[Len(b) + 4] = 3 /\ b[2] = Len(b) + 1
    BY <1>1, <1>8, <1>9, <1>12
  <2>2. v[Len(b) + 2] = Crc(b) % 256 /\ v[Len(b) + 3] = Crc(b) \div 256
    BY <1>6, <1>9
  <2>3. IsFrame(v, b)
    BY <1>10, <2>1, <2>2, Zenon DEF IsFrame
  <2> QED
    BY <1>4, <2>3

LEMMA FrameAccepted ==
    ASSUME NEW v \in Seq(Octet), NEW b \in Seq(Octet), IsFrame(v, b)
    PROVE  Verdict(v) = "ok"
<1>1. PICK n \in Nat : n = Len(v) /\ n = Len(b) + 4
  BY DEF IsFrame
<1>2. n >= 11 /\ n <= 256 /\ v[1] = 2 /\ v[n] = 3
  BY <1>1 DEF IsFrame
<1>3. v[3] = n - 3
  <2>1. v[2 + 1] = b[2]
    BY <1>1, <1>2 DEF IsFrame
  <2> QED
    BY <1>1, <2>1 DEF IsFrame
<1>4. SubSeq(v, 2, n - 3) = b
  <2>1. PICK i, j \in Nat : i = 1 /\ j = n - 3
    BY <1>2
  <2>2. PICK u : u = SubSeq(v, i + 1, j)
    OBVIOUS
  <2>3. i <= j /\ j <= Len(v) /\ j - i = n - 4 /\ i \in Nat /\ j \in Nat
    BY <1>1, <1>2, <2>1
  <2>8. i \in Nat /\ j \in Nat /\ i <= j /\ j <= Len(v)
    BY ONLY <2>3
  <2>4. u \in Seq(Octet) /\ Len(u) = j - i /\ \A x \in 1 .. j - i : u[x] = v[i + x]
    BY ONLY <2>2, <2>8, v \in Seq(Octet), PartFields, SMTT(60)
  <2>5. Len(u) = Len(b)
    BY <1>1, <2>3, <2>4
  <2>6. ASSUME NEW x \in 1 .. Len(u) PROVE u[x] = b[x]
    <3>1. x \in 1 .. Len(b) /\ x \in 1 .. j - i /\ i + x = x + 1
      BY <2>1, <2>4, <2>5
    <3> QED
      BY <2>4, <3>1 DEF IsFrame
  <2>7. u = b
    BY ONLY <2>4, <2>5, <2>6, b \in Seq(Octet), SeqEqual
  <2> QED
    BY <2>1, <2>2, <2>7
<1>5. CrcBytes(SubSeq(v, 2, n - 3)) = SubSeq(v, n - 2, n - 1)
  <2>1. SubSeq(v, n - 2, n - 1) = <<v[n - 2], v[n - 1]>>
    BY ONLY <1>1, <1>2, n \in Nat, v \in Seq(Octet), CheckOctets
  <2>2. v[n - 2] = Crc(b) % 256 /\ v[n - 1] = Crc(b) \div 256
    <3>1. Len(b) + 2 = n - 2 /\ Len(b) + 3 = n - 1
      BY <1>1
    <3> QED
      BY <3>1 DEF IsFrame
  <2>3. CrcBytes(b) = <<Crc(b) % 256, Crc(b) \div 256>>
    BY Zenon DEF CrcBytes
  <2> QED
    BY <1>4, <2>1, <2>2, <2>3
<1>6. ~(n < 11) /\ ~(n > 256) /\ ~(v[3] < 8) /\ n = v[3] + 3
  BY <1>2, <1>3
<1> QED
  BY <1>1, <1>2, <1>5, <1>6 DEF Verdict, Overhead, MaxPacket, Stx, Etx

\* A frame with one byte changed is refused.
LEMMA GarbledFrame ==
    ASSUME NEW w \in Seq(Octet), NEW b \in Seq(Octet), IsFrame(w, b),
           NEW v \in Seq(Octet), NEW c \in Seq(Octet), IsFrame(v, c),
           NEW k \in 1 .. Len(w), Len(v) = Len(w), \A i \in 1 .. Len(w) : i # k => v[i] = w[i]
    PROVE  v = w
<1> SUFFICES ASSUME v[k] # w[k] PROVE FALSE
  <2>1. ASSUME v[k] = w[k] PROVE v = w
    <3>1. \A i \in 1 .. Len(v) : v[i] = w[i]
      BY <2>1
    <3> QED
      BY ONLY <3>1, Len(v) = Len(w), v \in Seq(Octet), w \in Seq(Octet), SeqEqual
  <2> QED
    BY <2>1
<1>1. PICK m \in Nat : m = Len(b) /\ m = Len(c) /\ m >= 7 /\ m <= 252 /\ m + 4 = Len(w)
  BY DEF IsFrame
<1>2. k # 1 /\ k # m + 4
  BY <1>1 DEF IsFrame
<1>3. CASE k \in 2 .. m + 1
  <2>1. PICK j \in 1 .. m : k = j + 1
    <3>1. k - 1 \in 1 .. m /\ k = (k - 1) + 1
      BY <1>1, <1>3
    <3> QED
      BY <3>1
  <2>2. b[j] # c[j]
    BY <1>1, <2>1 DEF IsFrame
  <2>3. ASSUME NEW i \in 1 .. m, i # j PROVE b[i] = c[i]
    <3>1. i + 1 \in 1 .. Len(w) /\ i + 1 # k
      BY <1>1, <2>1, <2>3
    <3> QED
      BY <1>1, <3>1 DEF IsFrame
  <2>4. Crc(b) # Crc(c)
    <3>1. Len(b) = Len(c) /\ j \in 1 .. Len(b) /\ \A i \in 1 .. Len(b) : i # j => b[i] = c[i]
      BY <1>1, <2>1, <2>3
    <3> QED
      BY ONLY <2>2, <3>1, b \in Seq(Octet), c \in Seq(Octet), CrcTells
  <2>5. v[m + 2] = w[m + 2] /\ v[m + 3] = w[m + 3]
    <3>1. /\ m + 2 \in 1 .. Len(w) /\ m + 3 \in 1 .. Len(w) /\ m + 2 # k /\ m + 3 # k
      BY <1>1, <1>3
    <3> QED
      BY <3>1
  <2>6. Crc(b) % 256 = Crc(c) % 256 /\ Crc(b) \div 256 = Crc(c) \div 256
    BY <1>1, <2>5 DEF IsFrame
  <2>7. PICK d, e \in Word : d = Crc(b) /\ e = Crc(c)
    BY CrcType
  <2>8. d = e
    <3>1. d = 256 * (d \div 256) + (d % 256) /\ e = 256 * (e \div 256) + (e % 256)
      BY WordOctets
    <3> QED
      BY <2>6, <2>7, <3>1
  <2> QED
    BY <2>4, <2>7, <2>8
<1>4. CASE k \in m + 2 .. m + 3
  <2>1. \A i \in 1 .. m : b[i] = c[i]
    <3> SUFFICES ASSUME NEW i \in 1 .. m PROVE b[i] = c[i]
      OBVIOUS
    <3>1. i + 1 \in 1 .. Len(w) /\ i + 1 # k
      BY <1>1, <1>4
    <3> QED
      BY <1>1, <3>1 DEF IsFrame
  <2>2. b = c
    <3>1. Len(b) = Len(c) /\ \A i \in 1 .. Len(b) : b[i] = c[i]
      BY <1>1, <2>1
    <3> QED
      BY ONLY <3>1, b \in Seq(Octet), c \in Seq(Octet), SeqEqual
  <2>3. v[m + 2] = w[m + 2] /\ v[m + 3] = w[m + 3]
    BY <1>1, <2>2 DEF IsFrame
  <2>4. k = m + 2 \/ k = m + 3
    BY <1>1, <1>4
  <2> QED
    BY <2>3, <2>4
<1> QED
  BY <1>1, <1>2, <1>3, <1>4

\* A frame whose first three bytes survive is refused if its length has changed.
LEMMA CountTells ==
    ASSUME NEW w \in Seq(Octet), NEW b \in Seq(Octet), IsFrame(w, b),
           NEW v \in Seq(Octet), NEW c \in Seq(Octet), IsFrame(v, c), v[3] = w[3]
    PROVE  Len(v) = Len(w)
<1>1. w[2 + 1] = b[2] /\ v[2 + 1] = c[2]
  BY SMTT(60) DEF IsFrame
<1> QED
  BY <1>1 DEF IsFrame

\* A frame with a byte lost is refused; one case depends on the control byte.
LEMMA FrameWithLoss ==
    ASSUME NEW w \in Seq(Octet), NEW b \in Seq(Octet), IsFrame(w, b), b[1] # 171,
           NEW v \in Seq(Octet), NEW c \in Seq(Octet), IsFrame(v, c),
           NEW k \in 1 .. Len(w), Len(v) + 1 = Len(w),
           \A i \in 1 .. Len(v) : v[i] = IF i < k THEN w[i] ELSE w[i + 1]
    PROVE  FALSE
<1>1. PICK m \in Nat : m = Len(c) /\ m + 1 = Len(b) /\ m >= 7 /\ m <= 251
                       /\ m + 5 = Len(w) /\ m + 4 = Len(v)
  <2>1. Len(c) \in Nat
    OBVIOUS
  <2> QED
    BY <2>1 DEF IsFrame
<1>2. CASE k >= 4
  <2>1. v[3] = w[3]
    BY <1>1, <1>2
  <2>2. Len(v) = Len(w)
    BY ONLY <2>1, IsFrame(w, b), IsFrame(v, c), w \in Seq(Octet), b \in Seq(Octet),
            v \in Seq(Octet), c \in Seq(Octet), CountTells
  <2> QED
    BY <1>1, <2>2
<1>3. ASSUME k <= 3 PROVE Crc(b) = Crc(c)
  <2>1. v[m + 2] = w[m + 3] /\ v[m + 3] = w[m + 4]
    <3>1. m + 2 \in 1 .. Len(v) /\ m + 3 \in 1 .. Len(v) /\ ~(m + 2 < k) /\ ~(m + 3 < k)
          /\ (m + 2) + 1 = m + 3 /\ (m + 3) + 1 = m + 4
      BY <1>1, <1>3
    <3> QED
      BY <3>1
  <2>2. Crc(b) % 256 = Crc(c) % 256 /\ Crc(b) \div 256 = Crc(c) \div 256
    <3>1. Len(b) + 2 = m + 3 /\ Len(b) + 3 = m + 4
      BY <1>1
    <3> QED
      BY <1>1, <2>1, <3>1, SMTT(60) DEF IsFrame
  <2>3. PICK d, e \in Word : d = Crc(b) /\ e = Crc(c)
    BY CrcType
  <2>4. d = 256 * (d \div 256) + (d % 256) /\ e = 256 * (e \div 256) + (e % 256)
    BY WordOctets
  <2> QED
    BY <2>2, <2>3, <2>4
<1>4. ASSUME NEW i \in 1 .. m, i + 1 >= k PROVE c[i] = b[i + 1]
  <2>1. i + 1 \in 1 .. Len(v) /\ ~(i + 1 < k) /\ i + 1 \in 1 .. Len(b) /\ i \in 1 .. Len(c)
    BY <1>1, <1>4
  <2>2. v[i + 1] = w[(i + 1) + 1]
    BY <2>1
  <2> QED
    BY <2>1, <2>2 DEF IsFrame
<1>5. CASE k \in {1, 2}
  <2>1. \A i \in 1 .. Len(c) : b[i + 1] = c[i]
    BY <1>1, <1>4, <1>5
  <2>2. Len(b) = Len(c) + 1
    BY <1>1
  <2>3. Crc(c) # Crc(b)
    BY ONLY <2>1, <2>2, b \in Seq(Octet), c \in Seq(Octet), CrcLonger
  <2> QED
    BY <1>3, <1>5, <2>3
<1>6. CASE k = 3
  <2>1. \A i \in 2 .. Len(c) : b[i + 1] = c[i]
    <3> SUFFICES ASSUME NEW i \in 2 .. Len(c) PROVE b[i + 1] = c[i]
      OBVIOUS
    <3>1. i \in 1 .. m /\ i + 1 >= k
      BY <1>1, <1>6
    <3> QED
      BY <1>4, <3>1
  <2>2. b[1] = c[1]
    <3>1. 2 \in 1 .. Len(v) /\ 2 < k /\ 1 \in 1 .. Len(b) /\ 1 \in 1 .. Len(c) /\ 1 + 1 = 2
      BY <1>1, <1>6
    <3> QED
      BY <3>1 DEF IsFrame
  <2>3. Len(b) = Len(c) + 1
    BY <1>1
  <2>4. c # <<>>
    BY <1>1
  <2>5. Crc(c) = Crc(b)
    BY <1>3, <1>6
  <2>6. SecondUnseen(c, b)
    BY ONLY <2>1, <2>2, <2>3, <2>4, <2>5, Zenon DEF SecondUnseen
  <2>7. b[1] = 171
    BY ONLY <2>6, b \in Seq(Octet), c \in Seq(Octet), CrcShorter
  <2> QED
    BY <2>7
<1>7. k >= 4 \/ k \in {1, 2} \/ k = 3
  OBVIOUS
<1> QED
  BY <1>2, <1>5, <1>6, <1>7

\* A frame with a byte doubled is refused.
LEMMA FrameWithRepeat ==
    ASSUME NEW w \in Seq(Octet), NEW b \in Seq(Octet), IsFrame(w, b),
           NEW v \in Seq(Octet), NEW c \in Seq(Octet), IsFrame(v, c),
           NEW k \in 1 .. Len(w), Len(v) = Len(w) + 1,
           \A i \in 1 .. Len(v) : v[i] = IF i <= k THEN w[i] ELSE w[i - 1]
    PROVE  FALSE
<1>1. PICK m \in Nat : m = Len(b) /\ m + 1 = Len(c) /\ m >= 7 /\ m <= 251
                       /\ m + 4 = Len(w) /\ m + 5 = Len(v)
  <2>1. Len(b) \in Nat
    OBVIOUS
  <2> QED
    BY <2>1, SMTT(60) DEF IsFrame
<1>2. CASE k >= 3
  <2>1. v[3] = w[3]
    BY <1>1, <1>2
  <2>2. Len(v) = Len(w)
    BY ONLY <2>1, IsFrame(w, b), IsFrame(v, c), w \in Seq(Octet), b \in Seq(Octet),
            v \in Seq(Octet), c \in Seq(Octet), CountTells
  <2> QED
    BY <1>1, <2>2
<1>3. CASE k \in {1, 2}
  <2>1. v[m + 3] = w[m + 2] /\ v[m + 4] = w[m + 3]
    <3>1. m + 3 \in 1 .. Len(v) /\ m + 4 \in 1 .. Len(v) /\ ~(m + 3 <= k) /\ ~(m + 4 <= k)
          /\ (m + 3) - 1 = m + 2 /\ (m + 4) - 1 = m + 3
      BY <1>1, <1>3
    <3> QED
      BY <3>1
  <2>2. Crc(b) % 256 = Crc(c) % 256 /\ Crc(b) \div 256 = Crc(c) \div 256
    <3>1. Len(c) + 2 = m + 3 /\ Len(c) + 3 = m + 4
      BY <1>1
    <3> QED
      BY <1>1, <2>1, <3>1, ZenonT(60) DEF IsFrame
  <2>3. PICK d, e \in Word : d = Crc(b) /\ e = Crc(c)
    BY CrcType
  <2>4. d = 256 * (d \div 256) + (d % 256) /\ e = 256 * (e \div 256) + (e % 256)
    BY WordOctets
  <2>5. Crc(b) = Crc(c)
    BY <2>2, <2>3, <2>4
  <2>6. ASSUME NEW i \in 1 .. Len(b) PROVE c[i + 1] = b[i]
    <3>1. /\ i + 2 \in 1 .. Len(v) /\ ~(i + 2 <= k) /\ (i + 2) - 1 = i + 1
          /\ i + 1 \in 1 .. Len(c) /\ (i + 1) + 1 = i + 2
      BY <1>1, <1>3
    <3>2. v[i + 2] = w[i + 1]
      BY <3>1
    <3> QED
      BY <3>1, <3>2 DEF IsFrame
  <2>7. Len(c) = Len(b) + 1
    BY <1>1
  <2>8. Crc(b) # Crc(c)
    BY ONLY <2>6, <2>7, b \in Seq(Octet), c \in Seq(Octet), CrcLonger
  <2> QED
    BY <2>5, <2>8
<1>4. k >= 3 \/ k \in {1, 2}
  OBVIOUS
<1> QED
  BY <1>2, <1>3, <1>4

\* A frame cut off is refused.
LEMMA FrameCutOff ==
    ASSUME NEW w \in Seq(Octet), NEW b \in Seq(Octet), IsFrame(w, b),
           NEW v \in Seq(Octet), NEW c \in Seq(Octet), IsFrame(v, c),
           Len(v) < Len(w), \A i \in 1 .. Len(v) : v[i] = w[i]
    PROVE  FALSE
<1>1. Len(v) >= 11
  BY DEF IsFrame
<1>2. v[3] = w[3]
  BY <1>1
<1>3. Len(v) = Len(w)
  BY ONLY <1>2, IsFrame(w, b), IsFrame(v, c), w \in Seq(Octet), b \in Seq(Octet),
          v \in Seq(Octet), c \in Seq(Octet), CountTells
<1> QED
  BY <1>3

\* What encode makes is a frame, and its fields are those it was given.
LEMMA EncodedFrame ==
    ASSUME NEW f \in Frames, Encode(f) # <<>>
    PROVE  /\ Encode(f) \in Seq(Octet)
           /\ \E b \in Seq(Octet) : IsFrame(Encode(f), b) /\ b[1] = f.control
           /\ FrameFields(Encode(f)) = f
<1>1. PICK c \in Octet, t \in [1 .. 5 -> Octet], p \in Seq(Octet) :
        f = [control |-> c, termId |-> t, payload |-> p]
  <2>1. Octet = Bytes8
    BY DEF Octet, Bytes8
  <2> QED
    BY <2>1, NccFrameAssumption
<1>2. f.control = c /\ f.termId = t /\ f.payload = p
  BY <1>1
<1>3. t \in Seq(Octet) /\ Len(t) = 5
  <2>1. \A S : \A j \in Nat : \A g \in [1 .. j -> S] : g \in Seq(S) /\ Len(g) = j
    OBVIOUS
  <2>2. PICK j \in Nat : j = 5
    OBVIOUS
  <2>3. j \in Nat /\ t \in [1 .. j -> Octet]
    BY <1>1, <2>2
  <2>4. t \in Seq(Octet) /\ Len(t) = j
    BY ONLY <2>1, <2>3, Zenon
  <2> QED
    BY <2>2, <2>4
<1>4. PICK n \in Nat : n = Len(p)
  OBVIOUS
<1>5. n <= 245 /\ n \in Nat
  <2>1. ~(n > 245)
    BY <1>2, <1>4, Zenon DEF Encode, MaxPayload
  <2> QED
    BY <1>4, <2>1
<1>6. PICK m \in Octet : m = (8 + n) % 256 /\ m = 8 + n
  BY <1>5 DEF Octet
<1>7. PICK h : h = <<c, m>>
  OBVIOUS
<1>8. h \in Seq(Octet) /\ Len(h) = 2 /\ h[1] = c /\ h[2] = m
  BY <1>7
<1>9. PICK g : g = h \o t
  OBVIOUS
<1>10. /\ g \in Seq(Octet) /\ Len(g) = Len(h) + Len(t)
       /\ \A x \in 1 .. Len(h) : g[x] = h[x]
       /\ \A x \in 1 .. Len(t) : g[Len(h) + x] = t[x]
  <2>1. h \in Seq(Octet) /\ t \in Seq(Octet)
    BY <1>3, <1>8
  <2> QED
    BY ONLY <1>9, <2>1, JoinFields
<1>11. Len(g) = 7 /\ g[1] = c /\ g[2] = m /\ \A x \in 1 .. 5 : g[2 + x] = t[x]
  BY <1>3, <1>8, <1>10
<1>12. PICK b : b = g \o p
  OBVIOUS
<1>13. /\ b \in Seq(Octet) /\ Len(b) = Len(g) + Len(p)
       /\ \A x \in 1 .. Len(g) : b[x] = g[x]
       /\ \A x \in 1 .. Len(p) : b[Len(g) + x] = p[x]
  <2>1. g \in Seq(Octet)
    BY <1>10
  <2> QED
    BY ONLY <1>12, <2>1, p \in Seq(Octet), JoinFields
<1>14. /\ Len(b) = 7 + n /\ b[1] = c /\ b[2] = m
       /\ \A x \in 1 .. 5 : b[2 + x] = t[x]
       /\ \A x \in 1 .. n : b[7 + x] = p[x]
  <2>1. Len(b) = 7 + n /\ \A x \in 1 .. n : b[7 + x] = p[x]
    BY <1>4, <1>11, <1>13
  <2>2. b[1] = c /\ b[2] = m
    BY <1>11, <1>13
  <2>3. \A x \in 1 .. 5 : 2 + x \in 1 .. Len(g)
    BY <1>11
  <2> QED
    BY <1>11, <1>13, <2>1, <2>2, <2>3
<1>15. PICK d \in Word : d = Crc(b)
  BY <1>13, CrcType
<1>16. PICK k : k = <<d % 256, d \div 256>>
  OBVIOUS
<1>17. k \in Seq(Octet) /\ Len(k) = 2 /\ k[1] = d % 256 /\ k[2] = d \div 256
  BY <1>16, WordOctets
<1>18. PICK s, e : s = <<2>> /\ e = <<3>>
  OBVIOUS
<1>19. s \in Seq(Octet) /\ Len(s) = 1 /\ s[1] = 2 /\ e \in Seq(Octet) /\ Len(e) = 1 /\ e[1] = 3
  <2>1. 2 \in Octet /\ 3 \in Octet
    BY DEF Octet
  <2> QED
    BY <1>18, <2>1
<1>20. PICK u : u = s \o b
  OBVIOUS
<1>21. /\ u \in Seq(Octet) /\ Len(u) = Len(s) + Len(b)
       /\ \A x \in 1 .. Len(s) : u[x] = s[x]
       /\ \A x \in 1 .. Len(b) : u[Len(s) + x] = b[x]
  <2>1. s \in Seq(Octet) /\ b \in Seq(Octet)
    BY <1>13, <1>19
  <2> QED
    BY ONLY <1>20, <2>1, JoinFields
<1>22. PICK v : v = u \o k
  OBVIOUS
<1>23. /\ v \in Seq(Octet) /\ Len(v) = Len(u) + Len(k)
       /\ \A x \in 1 .. Len(u) : v[x] = u[x]
       /\ \A x \in 1 .. Len(k) : v[Len(u) + x] = k[x]
  <2>1. u \in Seq(Octet) /\ k \in Seq(Octet)
    BY <1>17, <1>21
  <2> QED
    BY ONLY <1>22, <2>1, JoinFields
<1>24. PICK w : w = v \o e
  OBVIOUS
<1>25. /\ w \in Seq(Octet) /\ Len(w) = Len(v) + Len(e)
       /\ \A x \in 1 .. Len(v) : w[x] = v[x]
       /\ \A x \in 1 .. Len(e) : w[Len(v) + x] = e[x]
  <2>1. v \in Seq(Octet) /\ e \in Seq(Octet)
    BY <1>19, <1>23
  <2> QED
    BY ONLY <1>24, <2>1, JoinFields
<1>26. w = Encode(f)
  <2>1. b = <<f.control, (8 + Len(f.payload)) % 256>> \o f.termId \o f.payload
    BY <1>2, <1>4, <1>6, <1>7, <1>9, <1>12, Zenon
  <2>2. w = <<2>> \o b \o <<Crc(b) % 256, Crc(b) \div 256>> \o <<3>>
    BY <1>15, <1>16, <1>18, <1>20, <1>22, <1>24, Zenon
  <2>3. ~(Len(f.payload) > 245)
    BY <1>2, <1>4, <1>5
  <2> QED
    BY <2>1, <2>2, <2>3, ZenonT(60) DEF Encode, CrcBytes, Stx, Etx, Overhead, MaxPayload
<1>27. Len(u) = n + 8 /\ Len(v) = n + 10 /\ Len(w) = n + 11
  BY <1>5, <1>14, <1>17, <1>19, <1>21, <1>23, <1>25
<1>28. \A x \in 1 .. n + 8 : w[x] = u[x]
  <2>1. \A x \in 1 .. n + 8 : x \in 1 .. Len(u) /\ x \in 1 .. Len(v)
    BY <1>5, <1>27
  <2> QED
    BY <1>23, <1>25, <2>1
<1>29. w[1] = 2 /\ \A x \in 1 .. 7 + n : w[x + 1] = b[x]
  <2>1. 1 \in 1 .. n + 8 /\ 1 \in 1 .. Len(s)
    BY <1>5, <1>19
  <2>2. \A x \in 1 .. 7 + n : x + 1 \in 1 .. n + 8 /\ x \in 1 .. Len(b) /\ Len(s) + x = x + 1
    BY <1>5, <1>14, <1>19
  <2> QED
    BY <1>19, <1>21, <1>28, <2>1, <2>2
<1>30. w[n + 9] = d % 256 /\ w[n + 10] = d \div 256 /\ w[n + 11] = 3
  <2>1. /\ n + 9 \in 1 .. Len(v) /\ n + 10 \in 1 .. Len(v) /\ 1 \in 1 .. Len(k) /\ 2 \in 1 .. Len(k)
        /\ Len(u) + 1 = n + 9 /\ Len(u) + 2 = n + 10 /\ 1 \in 1 .. Len(e) /\ Len(v) + 1 = n + 11
    BY <1>5, <1>17, <1>19, <1>27
  <2>2. v[n + 9] = k[1] /\ v[n + 10] = k[2]
    BY <1>23, <2>1
  <2> QED
    BY <1>17, <1>19, <1>25, <2>1, <2>2, SMTT(60)
<1>31. IsFrame(w, b)
  <2>1. /\ Len(b) >= 7 /\ Len(b) <= 252 /\ Len(w) = Len(b) + 4 /\ b[2] = Len(b) + 1
        /\ Len(b) + 4 = n + 11 /\ Len(b) + 2 = n + 9 /\ Len(b) + 3 = n + 10
    BY <1>5, <1>6, <1>14, <1>27
  <2>2. w[1] = 2 /\ w[Len(b) + 4] = 3 /\ w[Len(b) + 2] = Crc(b) % 256 /\ w[Len(b) + 3] = Crc(b) \div 256
    BY <1>15, <1>29, <1>30, <2>1, ZenonT(60)
  <2>3. \A i \in 1 .. Len(b) : w[i + 1] = b[i]
    BY <1>14, <1>29
  <2> QED
    BY <2>1, <2>2, <2>3, Zenon DEF IsFrame
<1>32. SubSeq(w, 4, 8) = t
  <2>1. PICK i, j \in Nat : i = 3 /\ j = 8
    OBVIOUS
  <2>2. PICK q : q = SubSeq(w, i + 1, j)
    OBVIOUS
  <2>3. i \in Nat /\ j \in Nat /\ i <= j /\ j <= Len(w) /\ w \in Seq(Octet)
    BY <1>5, <1>25, <1>27, <2>1
  <2>4. q \in Seq(Octet) /\ Len(q) = j - i /\ \A x \in 1 .. j - i : q[x] = w[i + x]
    BY ONLY <2>2, <2>3, PartFields
  <2>5. Len(q) = Len(t)
    BY <1>3, <2>1, <2>4
  <2>6. ASSUME NEW x \in 1 .. Len(q) PROVE q[x] = t[x]
    <3>1. x \in 1 .. j - i /\ x \in 1 .. 5 /\ 2 + x \in 1 .. 7 + n /\ i + x = (2 + x) + 1
      BY <1>3, <1>5, <2>1, <2>5
    <3>2. b[2 + x] = t[x] /\ w[(2 + x) + 1] = b[2 + x] /\ q[x] = w[i + x]
      BY ONLY <1>14, <1>29, <2>4, <3>1, Zenon
    <3> QED
      BY ONLY <3>1, <3>2, Zenon
  <2>7. q = t
    BY ONLY <1>3, <2>4, <2>5, <2>6, SeqEqual
  <2>8. i + 1 = 4 /\ j = 8
    BY <2>1
  <2> QED
    BY <2>2, <2>7, <2>8
<1>33. SubSeq(w, 9, Len(w) - 3) = p
  <2>1. PICK i, j \in Nat : i = 8 /\ j = n + 8
    BY <1>5
  <2>2. PICK q : q = SubSeq(w, i + 1, j)
    OBVIOUS
  <2>3. i \in Nat /\ j \in Nat /\ i <= j /\ j <= Len(w) /\ w \in Seq(Octet)
    BY <1>5, <1>25, <1>27, <2>1
  <2>4. q \in Seq(Octet) /\ Len(q) = j - i /\ \A x \in 1 .. j - i : q[x] = w[i + x]
    BY ONLY <2>2, <2>3, PartFields
  <2>5. Len(q) = Len(p)
    BY <1>4, <1>5, <2>1, <2>4
  <2>6. ASSUME NEW x \in 1 .. Len(q) PROVE q[x] = p[x]
    <3>1. x \in 1 .. j - i /\ x \in 1 .. n /\ 7 + x \in 1 .. 7 + n /\ i + x = (7 + x) + 1
      BY <1>4, <1>5, <2>1, <2>5
    <3>2. b[7 + x] = p[x] /\ w[(7 + x) + 1] = b[7 + x] /\ q[x] = w[i + x]
      BY ONLY <1>14, <1>29, <2>4, <3>1, Zenon
    <3> QED
      BY ONLY <3>1, <3>2, Zenon
  <2>7. q = p
    BY ONLY <2>4, <2>5, <2>6, p \in Seq(Octet), SeqEqual
  <2>8. i + 1 = 9 /\ j = Len(w) - 3
    BY <1>5, <1>27, <2>1
  <2> QED
    BY <2>2, <2>7, <2>8
<1>34. w[2] = c
  <2>1. 1 \in 1 .. 7 + n /\ 1 + 1 = 2
    BY <1>5
  <2> QED
    BY <1>14, <1>29, <2>1
<1>35. FrameFields(w) = f
  BY <1>1, <1>32, <1>33, <1>34, Zenon DEF FrameFields
<1>36. b[1] = f.control /\ b \in Seq(Octet) /\ w \in Seq(Octet)
  BY <1>2, <1>13, <1>14, <1>25
<1> QED
  BY <1>26, <1>31, <1>35, <1>36, Zenon

\* The four kinds of damage, to a frame whose control byte is not 171.
LEMMA GarbledRefused ==
    ASSUME NEW f \in Frames, NEW w, w = Encode(f), w # <<>>, NEW k \in 1 .. Len(w), NEW byte \in Octet,
           NEW v, v = [w EXCEPT ![k] = byte]
    PROVE  v \in Seq(Octet) /\ (Verdict(v) = "ok" => v = w)
<1>1. PICK b \in Seq(Octet) : w \in Seq(Octet) /\ IsFrame(w, b)
  BY EncodedFrame
<1>2. v \in Seq(Octet) /\ Len(v) = Len(w) /\ \A i \in 1 .. Len(w) : i # k => v[i] = w[i]
  BY <1>1
<1>3. ASSUME Verdict(v) = "ok" PROVE v = w
  <2>1. PICK c \in Seq(Octet) : IsFrame(v, c)
    BY <1>2, <1>3, AcceptedFrame
  <2>2. b \in Seq(Octet) /\ c \in Seq(Octet) /\ k \in 1 .. Len(w)
    BY <1>1, <2>1
  <2> QED
    BY ONLY <1>1, <1>2, <2>1, <2>2, GarbledFrame
<1> QED
  BY <1>2, <1>3

LEMMA LostRefused ==
    ASSUME NEW w \in Seq(Octet), NEW b \in Seq(Octet), IsFrame(w, b), b[1] # 171, NEW k \in 1 .. Len(w),
           NEW v, v = SubSeq(w, 1, k - 1) \o SubSeq(w, k + 1, Len(w))
    PROVE  v \in Seq(Octet) /\ Verdict(v) # "ok"
<1>1. w \in Seq(Octet) /\ IsFrame(w, b) /\ b[1] # 171
  OBVIOUS
<1>2. PICK n \in Nat : n = Len(w)
  BY <1>1
<1>3. PICK s, t : s = SubSeq(w, 1, k - 1) /\ t = SubSeq(w, k + 1, n)
  OBVIOUS
<1>4. s \in Seq(Octet) /\ Len(s) = k - 1 /\ \A x \in 1 .. k - 1 : s[x] = w[x]
  <2>1. PICK i, j \in Nat : i = 0 /\ j = k - 1
    BY <1>1
  <2>2. i \in Nat /\ j \in Nat /\ i <= j /\ j <= Len(w) /\ w \in Seq(Octet) /\ s = SubSeq(w, i + 1, j)
    BY <1>1, <1>2, <1>3, <2>1
  <2>3. s \in Seq(Octet) /\ Len(s) = j - i /\ \A x \in 1 .. j - i : s[x] = w[i + x]
    BY ONLY <2>2, PartFields, SMTT(60)
  <2> QED
    BY <2>1, <2>3
<1>5. t \in Seq(Octet) /\ Len(t) = n - k /\ \A x \in 1 .. n - k : t[x] = w[k + x]
  <2>1. k \in Nat /\ n \in Nat /\ k <= n /\ n <= Len(w) /\ w \in Seq(Octet) /\ t = SubSeq(w, k + 1, n)
    BY <1>1, <1>2, <1>3
  <2> QED
    BY ONLY <2>1, PartFields
<1>6. v = s \o t
  BY <1>2, <1>3
<1>7. /\ v \in Seq(Octet) /\ Len(v) = Len(s) + Len(t)
      /\ \A x \in 1 .. Len(s) : v[x] = s[x]
      /\ \A x \in 1 .. Len(t) : v[Len(s) + x] = t[x]
  <2>1. s \in Seq(Octet) /\ t \in Seq(Octet)
    BY <1>4, <1>5
  <2> QED
    BY ONLY <1>6, <2>1, JoinFields
<1>8. Len(v) + 1 = n /\ Len(v) = n - 1
  <2>1. k \in Nat
    OBVIOUS
  <2>2. n \in Nat
    BY <1>2
  <2>3. Len(s) = k - 1 /\ Len(t) = n - k /\ Len(v) = Len(s) + Len(t)
    BY <1>4, <1>5, <1>7, Zenon
  <2> QED
    BY ONLY <2>1, <2>2, <2>3
<1>9. ASSUME NEW i \in 1 .. Len(v) PROVE v[i] = IF i < k THEN w[i] ELSE w[i + 1]
  <2>1. CASE i < k
    BY <1>4, <1>7, <2>1
  <2>2. CASE ~(i < k)
    <3>1. PICK x \in 1 .. n - k : i = (k - 1) + x /\ k + x = i + 1
      <4>3. Len(v) = n - 1 /\ n \in Nat
        BY <1>2, <1>8
      <4>4. k \in Nat
        OBVIOUS
      <4>1. k \in Nat /\ n \in Nat /\ i \in Nat /\ i <= n - 1 /\ i >= k
        BY ONLY <2>2, <4>3, <4>4, i \in 1 .. Len(v)
      <4>2. i - (k - 1) \in 1 .. n - k /\ i = (k - 1) + (i - (k - 1)) /\ k + (i - (k - 1)) = i + 1
        BY ONLY <4>1
      <4> QED
        BY <4>2
    <3>2. x \in 1 .. Len(t) /\ i = Len(s) + x
      BY <1>4, <1>5, <3>1
    <3>3. v[i] = t[x]
      BY <1>7, <3>2
    <3>4. t[x] = w[i + 1]
      BY <1>5, <3>1, ZenonT(60)
    <3> QED
      BY <2>2, <3>3, <3>4
  <2> QED
    BY <2>1, <2>2
<1>10. ASSUME Verdict(v) = "ok" PROVE FALSE
  <2>1. PICK c \in Seq(Octet) : IsFrame(v, c)
    BY <1>7, <1>10, AcceptedFrame
  <2>2. v \in Seq(Octet) /\ Len(v) + 1 = Len(w)
    BY <1>2, <1>7, <1>8
  <2>3. c \in Seq(Octet)
    BY <2>1
  <2>4. \A i \in 1 .. Len(v) : v[i] = IF i < k THEN w[i] ELSE w[i + 1]
    BY <1>9
  <2> QED
    BY ONLY <1>1, <2>1, <2>2, <2>3, <2>4, b \in Seq(Octet), k \in 1 .. Len(w), FrameWithLoss
<1> QED
  BY <1>7, <1>10

LEMMA RepeatRefused ==
    ASSUME NEW f \in Frames, NEW w, w = Encode(f), w # <<>>, NEW k \in 1 .. Len(w),
           NEW v, v = SubSeq(w, 1, k) \o SubSeq(w, k, Len(w))
    PROVE  v \in Seq(Octet) /\ Verdict(v) # "ok"
<1>1. PICK b \in Seq(Octet) : w \in Seq(Octet) /\ IsFrame(w, b)
  BY EncodedFrame
<1>2. PICK n \in Nat : n = Len(w)
  BY <1>1
<1>3. PICK s, t : s = SubSeq(w, 1, k) /\ t = SubSeq(w, k, n)
  OBVIOUS
<1>4. s \in Seq(Octet) /\ Len(s) = k /\ \A x \in 1 .. k : s[x] = w[x]
  <2>1. PICK i, j \in Nat : i = 0 /\ j = k
    BY <1>1
  <2>2. i \in Nat /\ j \in Nat /\ i <= j /\ j <= Len(w) /\ w \in Seq(Octet) /\ s = SubSeq(w, i + 1, j)
    BY <1>1, <1>2, <1>3, <2>1
  <2>3. s \in Seq(Octet) /\ Len(s) = j - i /\ \A x \in 1 .. j - i : s[x] = w[i + x]
    BY ONLY <2>2, PartFields
  <2> QED
    BY <2>1, <2>3
<1>5. t \in Seq(Octet) /\ Len(t) = n - (k - 1) /\ \A x \in 1 .. n - (k - 1) : t[x] = w[(k - 1) + x]
  <2>1. PICK i \in Nat : i = k - 1
    BY <1>1
  <2>2. i \in Nat /\ n \in Nat /\ i <= n /\ n <= Len(w) /\ w \in Seq(Octet) /\ t = SubSeq(w, i + 1, n)
    BY <1>1, <1>2, <1>3, <2>1
  <2>3. t \in Seq(Octet) /\ Len(t) = n - i /\ \A x \in 1 .. n - i : t[x] = w[i + x]
    BY ONLY <2>2, PartFields
  <2> QED
    BY <2>1, <2>3
<1>6. v = s \o t
  BY <1>2, <1>3
<1>7. /\ v \in Seq(Octet) /\ Len(v) = Len(s) + Len(t)
      /\ \A x \in 1 .. Len(s) : v[x] = s[x]
      /\ \A x \in 1 .. Len(t) : v[Len(s) + x] = t[x]
  <2>1. s \in Seq(Octet) /\ t \in Seq(Octet)
    BY <1>4, <1>5
  <2> QED
    BY ONLY <1>6, <2>1, JoinFields
<1>8. Len(v) = n + 1
  BY <1>2, <1>4, <1>5, <1>7
<1>9. ASSUME NEW i \in 1 .. Len(v) PROVE v[i] = IF i <= k THEN w[i] ELSE w[i - 1]
  <2>1. CASE i <= k
    BY <1>4, <1>7, <2>1
  <2>2. CASE ~(i <= k)
    <3>1. PICK x \in 1 .. n - (k - 1) : i = k + x
      <4>1. i - k \in 1 .. n - (k - 1) /\ i = k + (i - k)
        BY <1>2, <1>8, <2>2
      <4> QED
        BY <4>1
    <3>2. v[i] = t[x] /\ t[x] = w[(k - 1) + x] /\ (k - 1) + x = i - 1
      BY <1>4, <1>5, <1>7, <3>1
    <3> QED
      BY <2>2, <3>2
  <2> QED
    BY <2>1, <2>2
<1>10. ASSUME Verdict(v) = "ok" PROVE FALSE
  <2>1. PICK c \in Seq(Octet) : IsFrame(v, c)
    BY <1>7, <1>10, AcceptedFrame
  <2>2. b \in Seq(Octet) /\ c \in Seq(Octet) /\ k \in 1 .. Len(w) /\ v \in Seq(Octet) /\ Len(v) = Len(w) + 1
    BY <1>1, <1>2, <1>7, <1>8, <2>1
  <2> QED
    BY ONLY <1>1, <1>9, <2>1, <2>2, FrameWithRepeat
<1> QED
  BY <1>7, <1>10

LEMMA CutRefused ==
    ASSUME NEW f \in Frames, NEW w, w = Encode(f), w # <<>>, NEW k \in 1 .. Len(w),
           NEW v, v = SubSeq(w, 1, k - 1)
    PROVE  v \in Seq(Octet) /\ Verdict(v) # "ok"
<1>1. PICK b \in Seq(Octet) : w \in Seq(Octet) /\ IsFrame(w, b)
  BY EncodedFrame
<1>2. v \in Seq(Octet) /\ Len(v) = k - 1 /\ \A x \in 1 .. k - 1 : v[x] = w[x]
  <2>1. PICK i, j \in Nat : i = 0 /\ j = k - 1
    BY <1>1
  <2>2. i \in Nat /\ j \in Nat /\ i <= j /\ j <= Len(w) /\ w \in Seq(Octet) /\ v = SubSeq(w, i + 1, j)
    BY <1>1, <2>1
  <2>3. v \in Seq(Octet) /\ Len(v) = j - i /\ \A x \in 1 .. j - i : v[x] = w[i + x]
    BY ONLY <2>2, PartFields
  <2> QED
    BY <2>1, <2>3
<1>3. Len(v) < Len(w) /\ \A i \in 1 .. Len(v) : v[i] = w[i]
  BY <1>1, <1>2
<1>4. ASSUME Verdict(v) = "ok" PROVE FALSE
  <2>1. PICK c \in Seq(Octet) : IsFrame(v, c)
    BY <1>2, <1>4, AcceptedFrame
  <2>2. b \in Seq(Octet) /\ c \in Seq(Octet) /\ v \in Seq(Octet)
    BY <1>1, <1>2, <2>1
  <2> QED
    BY ONLY <1>1, <1>3, <2>1, <2>2, FrameCutOff
<1> QED
  BY <1>2, <1>4

\* The wire carries the frame that was sent, or something the decoder refuses.
FrameInv == /\ NccFrameTypeOK
            /\ ~damaged => wire = Encode(sentFrame)
            /\ damaged /\ Verdict(wire) = "ok" => wire = Encode(sentFrame)

LEMMA FrameInvExact == FrameInv => DecodeExact
<1> SUFFICES ASSUME FrameInv, wire # <<>>
             PROVE  (~damaged => Verdict(wire) = "ok") /\ (Verdict(wire) = "ok" => FrameFields(wire) = sentFrame)
  BY DEF DecodeExact
<1>1. sentFrame \in Frames /\ damaged \in BOOLEAN
  BY DEF FrameInv, NccFrameTypeOK
<1>2. ASSUME wire = Encode(sentFrame) PROVE Verdict(wire) = "ok" /\ FrameFields(wire) = sentFrame
  BY <1>1, <1>2, EncodedFrame, FrameAccepted
<1> QED
  BY <1>1, <1>2 DEF FrameInv

LEMMA EncodeType == ASSUME NEW f \in Frames PROVE Encode(f) \in Seq(Bytes8)
<1>1. Octet = Bytes8
  BY DEF Octet, Bytes8
<1>2. CASE Encode(f) = <<>>
  BY <1>2
<1>3. CASE Encode(f) # <<>>
  BY <1>1, <1>3, EncodedFrame
<1> QED
  BY <1>2, <1>3

LEMMA FrameInitInv == NccFrameInit => FrameInv
<1> SUFFICES ASSUME NccFrameInit PROVE FrameInv
  OBVIOUS
<1>1. sentFrame \in Frames /\ wire = Encode(sentFrame) /\ damaged = FALSE
  BY DEF NccFrameInit
<1>2. wire \in Seq(Bytes8)
  BY <1>1, EncodeType
<1> QED
  BY <1>1, <1>2, Zenon DEF FrameInv, NccFrameTypeOK

LEMMA DamageInv ==
    ASSUME FrameInv, NEW v, Damage(v), v \in Seq(Octet), Verdict(v) = "ok" => v = wire
    PROVE  FrameInv'
<1>1. Octet = Bytes8
  BY DEF Octet, Bytes8
<1>2. wire = Encode(sentFrame) /\ sentFrame \in Frames
  BY Zenon DEF FrameInv, NccFrameTypeOK, Damage
<1>3. wire' = v /\ damaged' = TRUE /\ sentFrame' = sentFrame
  BY Zenon DEF Damage
<1>4. NccFrameTypeOK'
  BY <1>1, <1>2, <1>3 DEF NccFrameTypeOK
<1>5. Verdict(v) = "ok" => v = Encode(sentFrame)
  BY <1>2
<1> QED
  BY <1>3, <1>4, <1>5, Zenon DEF FrameInv

LEMMA FrameStepInv ==
    ASSUME \A f \in Frames : f.control # 171
    PROVE  FrameInv /\ [NccFrameNext]_nccVars => FrameInv'
<1> SUFFICES ASSUME FrameInv, [NccFrameNext]_nccVars PROVE FrameInv'
  OBVIOUS
<1>1. Octet = Bytes8
  BY DEF Octet, Bytes8
<1>2. ASSUME NEW at \in 1 .. Len(wire), NEW v, Damage(v),
             \/ \E byte \in Octet : v = [wire EXCEPT ![at] = byte]
             \/ v = SubSeq(wire, 1, at - 1) \o SubSeq(wire, at + 1, Len(wire))
             \/ v = SubSeq(wire, 1, at) \o SubSeq(wire, at, Len(wire))
             \/ v = SubSeq(wire, 1, at - 1)
      PROVE  FrameInv'
  <2>1. sentFrame \in Frames /\ wire = Encode(sentFrame) /\ wire # <<>>
    BY <1>2, Zenon DEF FrameInv, NccFrameTypeOK, Damage
  <2>2. PICK f, w, k : f = sentFrame /\ w = wire /\ k = at
    OBVIOUS
  <2>3. f \in Frames /\ f.control # 171 /\ w = Encode(f) /\ w # <<>> /\ k \in 1 .. Len(w)
    BY <1>2, <2>1, <2>2, Zenon
  <2>4. CASE \E byte \in Octet : v = [w EXCEPT ![k] = byte]
    <3>1. v \in Seq(Octet) /\ (Verdict(v) = "ok" => v = w)
      BY ONLY <2>3, <2>4, GarbledRefused, Zenon
    <3>2. Verdict(v) = "ok" => v = wire
      BY <2>2, <3>1, Zenon
    <3> QED
      BY <1>2, <3>1, <3>2, DamageInv, Zenon
  <2>5. CASE v = SubSeq(w, 1, k - 1) \o SubSeq(w, k + 1, Len(w))
    <3>2. PICK b \in Seq(Octet) : w \in Seq(Octet) /\ IsFrame(w, b) /\ b[1] # 171
      BY ONLY <2>3, EncodedFrame, ZenonT(60)
    <3>3. b \in Seq(Octet) /\ k \in 1 .. Len(w)
      BY <2>3, <3>2
    <3>1. v \in Seq(Octet) /\ Verdict(v) # "ok"
      BY ONLY <2>5, <3>2, <3>3, LostRefused, Zenon
    <3> QED
      BY <1>2, <3>1, DamageInv, Zenon
  <2>6. CASE v = SubSeq(w, 1, k) \o SubSeq(w, k, Len(w))
    <3>1. v \in Seq(Octet) /\ Verdict(v) # "ok"
      BY ONLY <2>3, <2>6, RepeatRefused, Zenon
    <3> QED
      BY <1>2, <3>1, DamageInv, Zenon
  <2>7. CASE v = SubSeq(w, 1, k - 1)
    <3>1. v \in Seq(Octet) /\ Verdict(v) # "ok"
      BY ONLY <2>3, <2>7, CutRefused, Zenon
    <3> QED
      BY <1>2, <3>1, DamageInv, Zenon
  <2> QED
    BY <1>2, <2>2, <2>4, <2>5, <2>6, <2>7, Zenon
<1>3. CASE SendFrame
  <2>1. PICK f \in Frames : sentFrame' = f /\ wire' = Encode(f) /\ damaged' = FALSE
    BY <1>3 DEF SendFrame
  <2>2. Encode(f) \in Seq(Bytes8)
    BY EncodeType
  <2> QED
    BY <2>1, <2>2 DEF FrameInv, NccFrameTypeOK
<1>4. CASE UNCHANGED nccVars
  <2>1. sentFrame' = sentFrame /\ wire' = wire /\ damaged' = damaged
    BY <1>4 DEF nccVars
  <2> QED
    BY <2>1, Zenon DEF FrameInv, NccFrameTypeOK
<1>5. CASE \E at \in 1 .. Len(wire) : \E byte \in Bytes8 : Garble(at, byte)
  BY <1>1, <1>2, <1>5, Zenon DEF Garble
<1>6. CASE \E at \in 1 .. Len(wire) : LoseByte(at)
  BY <1>2, <1>6, Zenon DEF LoseByte
<1>7. CASE \E at \in 1 .. Len(wire) : RepeatByte(at)
  BY <1>2, <1>7, Zenon DEF RepeatByte
<1>8. CASE \E at \in 1 .. Len(wire) : CutOff(at)
  BY <1>2, <1>8, Zenon DEF CutOff
<1> QED
  BY <1>3, <1>4, <1>5, <1>6, <1>7, <1>8, Zenon DEF NccFrameNext

\* DecodeExact for every set of frames with no control byte 171 (the flags of the protocol
\* end at 0x20): encode's frames come back whole, and the decoder refuses every frame with a
\* byte changed, lost or doubled, or with its end cut off.
THEOREM FrameCorrect ==
    ASSUME \A f \in Frames : f.control # 171
    PROVE  NccFrameSpec => [](NccFrameTypeOK /\ DecodeExact)
<1>1. FrameInv => NccFrameTypeOK /\ DecodeExact
  BY FrameInvExact DEF FrameInv
<1>2. FrameInv /\ [NccFrameNext]_nccVars => FrameInv'
  BY FrameStepInv
<1> QED
  BY <1>1, <1>2, FrameInitInv, PTL DEF NccFrameSpec

\* A frame on the line is bytes, whatever the line makes of it.
LEMMA FrameTypeStep == NccFrameTypeOK /\ [NccFrameNext]_nccVars => NccFrameTypeOK'
<1> SUFFICES ASSUME NccFrameTypeOK, [NccFrameNext]_nccVars PROVE NccFrameTypeOK'
  OBVIOUS
<1>0. sentFrame \in Frames /\ wire \in Seq(Bytes8) /\ damaged \in BOOLEAN
  BY DEF NccFrameTypeOK
<1>1. ASSUME NEW v, Damage(v), v \in Seq(Bytes8) PROVE NccFrameTypeOK'
  <2>1. wire' = v /\ damaged' = TRUE /\ sentFrame' = sentFrame
    BY <1>1, Zenon DEF Damage
  <2> QED
    BY <1>0, <1>1, <2>1 DEF NccFrameTypeOK
<1>2. ASSUME NEW at \in 1 .. Len(wire), NEW byte \in Bytes8, Garble(at, byte) PROVE NccFrameTypeOK'
  <2>1. [wire EXCEPT ![at] = byte] \in Seq(Bytes8)
    BY <1>0
  <2> QED
    BY <1>1, <1>2, <2>1 DEF Garble
<1>3. ASSUME NEW at \in 1 .. Len(wire)
      PROVE  /\ SubSeq(wire, 1, at - 1) \in Seq(Bytes8) /\ SubSeq(wire, at + 1, Len(wire)) \in Seq(Bytes8)
             /\ SubSeq(wire, 1, at) \in Seq(Bytes8) /\ SubSeq(wire, at, Len(wire)) \in Seq(Bytes8)
  BY <1>0
<1>4. ASSUME NEW at \in 1 .. Len(wire), LoseByte(at) PROVE NccFrameTypeOK'
  <2>1. SubSeq(wire, 1, at - 1) \o SubSeq(wire, at + 1, Len(wire)) \in Seq(Bytes8)
    BY <1>3
  <2> QED
    BY <1>1, <1>4, <2>1 DEF LoseByte
<1>5. ASSUME NEW at \in 1 .. Len(wire), RepeatByte(at) PROVE NccFrameTypeOK'
  <2>1. SubSeq(wire, 1, at) \o SubSeq(wire, at, Len(wire)) \in Seq(Bytes8)
    BY <1>3
  <2> QED
    BY <1>1, <1>5, <2>1 DEF RepeatByte
<1>6. ASSUME NEW at \in 1 .. Len(wire), CutOff(at) PROVE NccFrameTypeOK'
  BY <1>1, <1>3, <1>6 DEF CutOff
<1>7. CASE SendFrame
  <2>1. PICK f \in Frames : sentFrame' = f /\ wire' = Encode(f)
    BY <1>7 DEF SendFrame
  <2>2. f \in Frames /\ Encode(f) \in Seq(Bytes8)
    BY <2>1, EncodeType
  <2> QED
    BY <1>7, <2>1, <2>2 DEF SendFrame, NccFrameTypeOK
<1>8. CASE UNCHANGED nccVars
  BY <1>0, <1>8 DEF nccVars, NccFrameTypeOK
<1> QED
  BY <1>2, <1>4, <1>5, <1>6, <1>7, <1>8 DEF NccFrameNext

\* The line carries bytes, for every set of frames.
THEOREM FrameTypeCorrect == NccFrameSpec => []NccFrameTypeOK
<1>1. NccFrameInit => NccFrameTypeOK
  BY FrameInitInv DEF FrameInv
<1> QED
  BY <1>1, FrameTypeStep, PTL DEF NccFrameSpec

-------------------------------------------------------------------------------
(* The host bridge.  What a reader holds and what is still on its stream    *)
(* are, together, the frames sent and not yet taken, cut at their places:  *)
(* the first octets the reader has are always the front of a frame.        *)

Bytes == 0 .. 255
Body == {m \in Seq(Bytes) : ((Len(m) \div 256) \div 256) \div 256 < 256}

\* The places where the frames of ms end in t.
Cuts(t, ms, p) ==
    /\ p \in [0 .. Len(ms) -> 0 .. Len(t)]
    /\ p[0] = 0 /\ p[Len(ms)] = Len(t)
    /\ \A i, j \in 0 .. Len(ms) : i <= j => p[i] <= p[j]
    /\ \A i \in 1 .. Len(ms) : /\ p[i] = p[i - 1] + 4 + Len(ms[i])
                               /\ SubSeq(t, p[i - 1] + 1, p[i]) = FrameJson(ms[i])
MadeOf(t, ms) == \E p : Cuts(t, ms, p)

Awaited(s) == SubSeq(s.sent, Len(s.got) + 1, Len(s.sent))
Held(c, e) == IF e \in busy /\ sock[e] = c THEN acc[e] ELSE <<>>
StreamRight(s, held) ==
    /\ Len(s.got) <= Len(s.sent)
    /\ s.got = SubSeq(s.sent, 1, Len(s.got))
    /\ MadeOf(held \o s.line, Awaited(s))
BridgeInv ==
    /\ HostBridgeTcpTypeOK
    /\ \A c \in DOMAIN calls, e \in BridgeEnd :
          ~calls[c][e].spoilt => StreamRight(calls[c][e], Held(c, e))

LEMMA MessagesBodies == Messages \subseteq Body
  BY HostBridgeTcpAssumption DEF Body, Bytes

LEMMA LengthOctets ==
    ASSUME NEW n \in Nat, ((n \div 256) \div 256) \div 256 < 256
    PROVE  \E a, b, c, d \in Bytes :
              /\ a = ((n \div 256) \div 256) \div 256 /\ b = ((n \div 256) \div 256) % 256
              /\ c = (n \div 256) % 256 /\ d = n % 256
              /\ n = 256 * (256 * (256 * a + b) + c) + d
<1>1. PICK x \in Nat : x = n \div 256 /\ n = 256 * x + (n % 256) /\ n % 256 \in Bytes
  BY DEF Bytes
<1>2. PICK y \in Nat : y = x \div 256 /\ x = 256 * y + (x % 256) /\ x % 256 \in Bytes
  BY DEF Bytes
<1>3. PICK z \in Nat : z = y \div 256 /\ y = 256 * z + (y % 256) /\ y % 256 \in Bytes
  BY DEF Bytes
<1>4. z \in Bytes
  BY <1>1, <1>2, <1>3 DEF Bytes
<1>5. n = 256 * (256 * (256 * z + (y % 256)) + (x % 256)) + (n % 256)
  BY <1>1, <1>2, <1>3
<1> QED
  BY <1>1, <1>2, <1>3, <1>4, <1>5

LEMMA FrameJsonFields ==
    ASSUME NEW m \in Body
    PROVE  /\ FrameJson(m) \in Seq(Bytes) /\ Len(FrameJson(m)) = 4 + Len(m)
           /\ PrefixLength(FrameJson(m)) = Len(m) /\ FrameBody(FrameJson(m)) = m
<1>1. m \in Seq(Bytes) /\ Len(m) \in Nat /\ ((Len(m) \div 256) \div 256) \div 256 < 256
  BY DEF Body
<1>2. PICK a \in Bytes, b \in Bytes, c \in Bytes, d \in Bytes :
          /\ a = ((Len(m) \div 256) \div 256) \div 256 /\ b = ((Len(m) \div 256) \div 256) % 256
          /\ c = (Len(m) \div 256) % 256 /\ d = Len(m) % 256
          /\ Len(m) = 256 * (256 * (256 * a + b) + c) + d
  BY <1>1, LengthOctets
<1>3. PICK f : f = <<a, b, c, d>> \o m
  OBVIOUS
<1>4. FrameJson(m) = f
  BY <1>2, <1>3, SMTT(60) DEF FrameJson
<1>5. /\ f \in Seq(Bytes) /\ Len(f) = 4 + Len(m)
      /\ f[1] = a /\ f[2] = b /\ f[3] = c /\ f[4] = d
      /\ \A i \in 1 .. Len(m) : f[4 + i] = m[i]
  <2>1. PICK h : h = <<a, b, c, d>>
    OBVIOUS
  <2>2. h \in Seq(Bytes) /\ Len(h) = 4 /\ h[1] = a /\ h[2] = b /\ h[3] = c /\ h[4] = d
    BY ONLY <2>1, a \in Bytes, b \in Bytes, c \in Bytes, d \in Bytes
  <2>3. f = h \o m
    BY <1>3, <2>1
  <2>4. /\ f \in Seq(Bytes) /\ Len(f) = Len(h) + Len(m)
        /\ \A x \in 1 .. Len(h) : f[x] = h[x]
        /\ \A x \in 1 .. Len(m) : f[Len(h) + x] = m[x]
    <3>1. h \in Seq(Bytes) /\ m \in Seq(Bytes)
      BY <1>1, <2>2
    <3> QED
      BY ONLY <2>3, <3>1, JoinFields
  <2> QED
    BY <2>2, <2>4
<1>6. PrefixLength(f) = Len(m)
  BY <1>2, <1>5 DEF PrefixLength
<1>7. FrameBody(f) = m
  <2>1. PICK u : u = SubSeq(f, 4 + 1, 4 + Len(m))
    OBVIOUS
  <2>2. u \in Seq(Bytes) /\ Len(u) = (4 + Len(m)) - 4 /\ \A x \in 1 .. (4 + Len(m)) - 4 : u[x] = f[4 + x]
    <3>1. 4 \in Nat /\ 4 + Len(m) \in Nat /\ 4 <= 4 + Len(m) /\ 4 + Len(m) <= Len(f)
      BY <1>1, <1>5
    <3> QED
      BY ONLY <1>5, <2>1, <3>1, PartFields
  <2>3. Len(u) = Len(m) /\ \A x \in 1 .. Len(u) : u[x] = m[x]
    BY <1>1, <1>5, <2>2
  <2>4. u = m
    BY ONLY <1>1, <2>2, <2>3, SeqEqual
  <2>5. SubSeq(f, 5, 4 + Len(m)) = m
    BY <2>1, <2>4
  <2> QED
    BY <1>6, <2>5 DEF FrameBody
<1> QED
  BY <1>4, <1>5, <1>6, <1>7

LEMMA MadeOfNone == MadeOf(<<>>, <<>>)
<1> DEFINE p == [i \in 0 .. 0 |-> 0]
<1>1. Cuts(<<>>, <<>>, p)
  BY DEF Cuts
<1> QED
  BY <1>1 DEF MadeOf

LEMMA NoneMadeOf ==
    ASSUME NEW t \in Seq(Bytes), NEW ms \in Seq(Body), MadeOf(t, ms)
    PROVE  ms = <<>> => t = <<>>
<1>1. PICK p : Cuts(t, ms, p)
  BY DEF MadeOf
<1>2. ms = <<>> => Len(t) = 0
  BY <1>1 DEF Cuts
<1> QED
  BY <1>2

\* One more frame at the end.
LEMMA MadeOfMore ==
    ASSUME NEW t \in Seq(Bytes), NEW ms \in Seq(Body), NEW m \in Body, MadeOf(t, ms)
    PROVE  MadeOf(t \o FrameJson(m), Append(ms, m))
<1>1. PICK p : Cuts(t, ms, p)
  BY DEF MadeOf
<1>2. PICK f \in Seq(Bytes) : f = FrameJson(m) /\ Len(f) = 4 + Len(m)
  BY FrameJsonFields
<1> DEFINE n == Len(ms) + 1
           u == t \o f
           ns == Append(ms, m)
           q == [i \in 0 .. n |-> IF i = n THEN Len(u) ELSE p[i]]
<1>3. /\ Len(ns) = n /\ n \in Nat /\ Len(m) \in Nat /\ ns[n] = m /\ \A i \in 1 .. Len(ms) : ns[i] = ms[i]
      /\ u \in Seq(Bytes) /\ Len(u) = Len(t) + 4 + Len(m)
  <2>1. m \in Seq(Bytes) /\ Len(m) \in Nat /\ n \in Nat
    BY DEF Body
  <2>2. Len(ns) = n /\ ns[n] = m /\ \A i \in 1 .. Len(ms) : ns[i] = ms[i]
    OBVIOUS
  <2>3. u \in Seq(Bytes) /\ Len(u) = Len(t) + Len(f)
    <3>1. t \in Seq(Bytes) /\ f \in Seq(Bytes) /\ u = t \o f
      BY <1>2
    <3> HIDE DEF u
    <3> QED
      BY ONLY <3>1, JoinFields
  <2> HIDE DEF u, ns
  <2> QED
    BY <1>2, <2>1, <2>2, <2>3
<1>4. /\ p \in [0 .. Len(ms) -> 0 .. Len(t)] /\ p[0] = 0 /\ p[Len(ms)] = Len(t)
      /\ \A i, j \in 0 .. Len(ms) : i <= j => p[i] <= p[j]
      /\ \A i \in 1 .. Len(ms) : /\ p[i] = p[i - 1] + 4 + Len(ms[i])
                                 /\ SubSeq(t, p[i - 1] + 1, p[i]) = FrameJson(ms[i])
  BY <1>1 DEF Cuts
<1>5. /\ DOMAIN q = 0 .. n /\ q[n] = Len(u)
      /\ \A i \in 0 .. Len(ms) : q[i] = p[i] /\ p[i] \in 0 .. Len(t) /\ i \in 0 .. n
  <2>1. n \in Nat /\ n \in 0 .. n /\ \A i \in 0 .. Len(ms) : i \in 0 .. n /\ i # n
    BY <1>3
  <2> HIDE DEF u, n
  <2>2. \A i \in 0 .. Len(ms) : p[i] \in 0 .. Len(t)
    BY <1>4
  <2> QED
    BY <2>1, <2>2
<1> HIDE DEF q, u, ns
<1>6. q \in [0 .. n -> 0 .. Len(u)] /\ q[0] = 0
  <2>1. \A i \in 0 .. n : q[i] \in 0 .. Len(u)
    <3> TAKE i \in 0 .. n
    <3>1. i = n \/ i \in 0 .. Len(ms)
      BY <1>3
    <3> QED
      BY <1>3, <1>5, <3>1
  <2>2. q = [i \in 0 .. n |-> q[i]]
    BY <1>5 DEF q
  <2>3. 0 \in 0 .. Len(ms)
    OBVIOUS
  <2> QED
    BY <1>4, <1>5, <2>1, <2>2, <2>3
<1>7. \A i, j \in 0 .. n : i <= j => q[i] <= q[j]
  <2> SUFFICES ASSUME NEW i \in 0 .. n, NEW j \in 0 .. n, i <= j PROVE q[i] <= q[j]
    OBVIOUS
  <2>1. CASE j = n
    <3>1. q[i] \in 0 .. Len(u) /\ q[j] = Len(u)
      BY <1>5, <1>6, <2>1
    <3> QED
      BY <1>3, <3>1
  <2>2. CASE j # n
    <3>1. i \in 0 .. Len(ms) /\ j \in 0 .. Len(ms)
      BY <1>3, <2>2
    <3> QED
      BY <1>4, <1>5, <3>1
  <2> QED
    BY <2>1, <2>2
<1>8. ASSUME NEW i \in 1 .. n
      PROVE  q[i] = q[i - 1] + 4 + Len(ns[i]) /\ SubSeq(u, q[i - 1] + 1, q[i]) = FrameJson(ns[i])
  <2>1. CASE i = n
    <3>1. q[i - 1] = Len(t) /\ q[i] = Len(t) + 4 + Len(m) /\ ns[i] = m
      BY <1>3, <1>4, <1>5, <2>1
    <3>2. SubSeq(u, Len(t) + 1, Len(t) + 4 + Len(m)) = f
      <4>1. Len(t) \in Nat /\ (Len(t) + 4) + Len(m) \in Nat /\ (Len(t) + 4) + Len(m) = Len(t) + Len(f)
        BY <1>2, <1>3
      <4>2. SubSeq(t \o f, Len(t) + 1, (Len(t) + 4) + Len(m)) = f
        BY ONLY <1>2, <4>1, t \in Seq(Bytes), PartOfBack, SMTT(60)
      <4> QED
        BY <4>2 DEF u
    <3> QED
      BY <1>2, <1>3, <3>1, <3>2
  <2>2. CASE i # n
    <3>1. i \in 1 .. Len(ms) /\ i \in 0 .. Len(ms) /\ i - 1 \in 0 .. Len(ms)
      BY <1>3, <2>2
    <3>2. q[i] = p[i] /\ q[i - 1] = p[i - 1] /\ ns[i] = ms[i] /\ p[i] \in 0 .. Len(t) /\ p[i - 1] \in 0 .. Len(t)
      BY <1>3, <1>5, <3>1
    <3>3. SubSeq(u, p[i - 1] + 1, p[i]) = SubSeq(t, p[i - 1] + 1, p[i])
      <4>1. p[i - 1] \in Nat /\ p[i] \in Nat /\ p[i - 1] <= p[i] /\ p[i] <= Len(t)
        <5>1. i - 1 <= i
          OBVIOUS
        <5>2. \A x, y \in 0 .. Len(ms) : x <= y => p[x] <= p[y]
          BY <1>4
        <5>3. p[i - 1] <= p[i]
          BY ONLY <3>1, <5>1, <5>2
        <5> QED
          BY <3>2, <5>3
      <4>2. SubSeq(t \o f, p[i - 1] + 1, p[i]) = SubSeq(t, p[i - 1] + 1, p[i])
        BY ONLY <1>2, <4>1, t \in Seq(Bytes), PartOfFront, ZenonT(60)
      <4> QED
        BY <4>2 DEF u
    <3> QED
      BY <1>4, <3>1, <3>2, <3>3
  <2> QED
    BY <2>1, <2>2
<1>9. Cuts(u, ns, q)
  BY <1>3, <1>5, <1>6, <1>7, <1>8 DEF Cuts
<1> QED
  BY <1>2, <1>9 DEF MadeOf, u, ns

\* The first frame, and what is left behind it.
LEMMA MadeOfFirst ==
    ASSUME NEW t \in Seq(Bytes), NEW ms \in Seq(Body), MadeOf(t, ms), ms # <<>>
    PROVE  /\ 4 + Len(ms[1]) <= Len(t)
           /\ SubSeq(t, 1, 4 + Len(ms[1])) = FrameJson(ms[1])
           /\ MadeOf(SubSeq(t, 5 + Len(ms[1]), Len(t)), SubSeq(ms, 2, Len(ms)))
<1>1. PICK p : Cuts(t, ms, p)
  BY DEF MadeOf
<1>2. /\ p \in [0 .. Len(ms) -> 0 .. Len(t)] /\ p[0] = 0 /\ p[Len(ms)] = Len(t)
      /\ \A i, j \in 0 .. Len(ms) : i <= j => p[i] <= p[j]
      /\ \A i \in 1 .. Len(ms) : /\ p[i] = p[i - 1] + 4 + Len(ms[i])
                                 /\ SubSeq(t, p[i - 1] + 1, p[i]) = FrameJson(ms[i])
  BY <1>1 DEF Cuts
<1>3. PICK n \in Nat : Len(ms) = n + 1
  <2>1. Len(ms) \in Nat /\ Len(ms) # 0
    OBVIOUS
  <2>2. Len(ms) - 1 \in Nat /\ Len(ms) = (Len(ms) - 1) + 1
    BY <2>1
  <2> QED
    BY <2>2
<1>4. PICK k \in Nat : k = 4 + Len(ms[1]) /\ ms[1] \in Body
  BY <1>3 DEF Body
<1>5. /\ p[1] = k /\ k <= Len(t) /\ SubSeq(t, 1, k) = FrameJson(ms[1])
  <2>1. 1 \in 1 .. Len(ms) /\ 1 \in 0 .. Len(ms) /\ 1 - 1 = 0
    BY <1>3
  <2>2. p[1] = p[0] + 4 + Len(ms[1]) /\ SubSeq(t, p[0] + 1, p[1]) = FrameJson(ms[1])
    BY <1>2, <2>1
  <2>3. p[1] \in 0 .. Len(t)
    BY <1>2, <2>1
  <2> QED
    BY <1>2, <1>4, <2>2, <2>3 DEF Body
<1> DEFINE u == SubSeq(t, k + 1, Len(t))
           ns == SubSeq(ms, 2, Len(ms))
           q == [i \in 0 .. n |-> p[i + 1] - k]
<1>6. /\ u \in Seq(Bytes) /\ Len(u) = Len(t) - k /\ Len(ns) = n
      /\ \A i \in 1 .. n : ns[i] = ms[i + 1]
  <2>1. u \in Seq(Bytes) /\ Len(u) = Len(t) - k
    <3>1. k \in Nat /\ Len(t) \in Nat /\ k <= Len(t) /\ Len(t) <= Len(t) /\ u = SubSeq(t, k + 1, Len(t))
      BY <1>5
    <3> HIDE DEF u
    <3> QED
      BY ONLY <3>1, t \in Seq(Bytes), PartFields
  <2>2. Len(ns) = n /\ \A i \in 1 .. n : ns[i] = ms[1 + i]
    <3>1. /\ 1 \in Nat /\ n + 1 \in Nat /\ 1 <= n + 1 /\ n + 1 <= Len(ms) /\ (n + 1) - 1 = n
          /\ ns = SubSeq(ms, 1 + 1, n + 1)
      BY <1>3
    <3> HIDE DEF ns
    <3>2. Len(ns) = (n + 1) - 1 /\ \A i \in 1 .. (n + 1) - 1 : ns[i] = ms[1 + i]
      BY ONLY <3>1, ms \in Seq(Body), PartFields
    <3> QED
      BY <3>1, <3>2
  <2> HIDE DEF u, ns
  <2>3. \A i \in 1 .. n : 1 + i = i + 1
    OBVIOUS
  <2> QED
    BY <2>1, <2>2, <2>3
<1>7. \A i \in 0 .. n : /\ i + 1 \in 0 .. Len(ms) /\ p[i + 1] \in 0 .. Len(t) /\ p[1] <= p[i + 1]
                        /\ q[i] = p[i + 1] - k /\ q[i] \in 0 .. Len(u)
  <2> SUFFICES ASSUME NEW i \in 0 .. n
               PROVE  /\ i + 1 \in 0 .. Len(ms) /\ p[i + 1] \in 0 .. Len(t) /\ p[1] <= p[i + 1]
                      /\ q[i] = p[i + 1] - k /\ q[i] \in 0 .. Len(u)
    OBVIOUS
  <2>1. i + 1 \in 0 .. Len(ms) /\ 1 \in 0 .. Len(ms) /\ 1 <= i + 1
    BY <1>3
  <2>2. p[i + 1] \in 0 .. Len(t) /\ p[1] <= p[i + 1]
    BY <1>2, <2>1
  <2>3. q[i] = p[i + 1] - k
    OBVIOUS
  <2> HIDE DEF q, u
  <2> QED
    BY <1>5, <1>6, <2>1, <2>2, <2>3
<1>8. q \in [0 .. n -> 0 .. Len(u)] /\ q[0] = 0 /\ q[n] = Len(u)
  <2>1. q \in [0 .. n -> 0 .. Len(u)]
    <3>1. \A i \in 0 .. n : p[i + 1] - k \in 0 .. Len(u)
      BY <1>7
    <3> HIDE DEF u
    <3> QED
      BY <3>1
  <2>2. 0 \in 0 .. n /\ n \in 0 .. n /\ 0 + 1 = 1
    BY <1>3
  <2>3. q[0] = p[0 + 1] - k /\ q[n] = p[n + 1] - k
    BY <1>7, <2>2
  <2>4. p[n + 1] = Len(t)
    BY <1>2, <1>3
  <2>5. q[0] = 0
    BY <1>4, <1>5, <2>2, <2>3
  <2>6. q[n] = Len(u)
    BY <1>6, <2>3, <2>4
  <2> HIDE DEF q, u
  <2> QED
    BY <2>1, <2>5, <2>6
<1> HIDE DEF q, u, ns
<1>9. \A i, j \in 0 .. n : i <= j => q[i] <= q[j]
  <2> SUFFICES ASSUME NEW i \in 0 .. n, NEW j \in 0 .. n, i <= j PROVE q[i] <= q[j]
    OBVIOUS
  <2>1. i + 1 \in 0 .. Len(ms) /\ j + 1 \in 0 .. Len(ms) /\ i + 1 <= j + 1
    BY <1>7
  <2>2. \A x, y \in 0 .. Len(ms) : x <= y => p[x] <= p[y]
    BY <1>2
  <2>3. p[i + 1] <= p[j + 1]
    BY ONLY <2>1, <2>2, Zenon
  <2> QED
    BY <1>4, <1>7, <2>3
<1>10. ASSUME NEW i \in 1 .. n
       PROVE  q[i] = q[i - 1] + 4 + Len(ns[i]) /\ SubSeq(u, q[i - 1] + 1, q[i]) = FrameJson(ns[i])
  <2>1. i + 1 \in 1 .. Len(ms) /\ i - 1 \in 0 .. n /\ i \in 0 .. n /\ (i + 1) - 1 = i /\ (i - 1) + 1 = i
    BY <1>3
  <2>2. q[i - 1] = p[i] - k /\ q[i] = p[i + 1] - k /\ ns[i] = ms[i + 1] /\ Len(ms[i + 1]) \in Nat
    <3>1. q[i - 1] = p[(i - 1) + 1] - k /\ q[i] = p[i + 1] - k
      BY <1>7, <2>1
    <3>2. ms[i + 1] \in Body
      BY <2>1
    <3>3. Len(ms[i + 1]) \in Nat
      BY <3>2 DEF Body
    <3>4. ns[i] = ms[i + 1]
      BY <1>6
    <3> QED
      BY <2>1, <3>1, <3>3, <3>4
  <2>3. p[i + 1] = p[i] + 4 + Len(ms[i + 1]) /\ SubSeq(t, p[i] + 1, p[i + 1]) = FrameJson(ms[i + 1])
    BY <1>2, <2>1
  <2>4. p[i] \in 0 .. Len(t) /\ p[i + 1] \in 0 .. Len(t) /\ k <= p[i]
    <3>1. /\ p[(i - 1) + 1] \in 0 .. Len(t) /\ p[1] <= p[(i - 1) + 1] /\ p[i + 1] \in 0 .. Len(t)
      BY <1>7, <2>1
    <3> QED
      BY <1>5, <2>1, <3>1
  <2>5. PICK a \in Nat, b \in Nat, z \in Nat, l \in Nat :
           /\ a = p[i] /\ b = p[i + 1] /\ z = Len(t) /\ l = Len(ms[i + 1]) /\ k <= a /\ b <= z
    BY <2>2, <2>4, SMTT(60)
  <2>10. SubSeq(t, a + 1, b) = FrameJson(ms[i + 1])
    BY <2>3, <2>5
  <2>6. b = a + 4 + l
    BY <2>3, <2>5
  <2>11. a \in Nat /\ b \in Nat /\ l \in Nat /\ k \in Nat /\ k <= a /\ z \in Nat /\ b <= z
    BY <1>4, <2>5
  <2>7. q[i - 1] = a - k /\ q[i] = b - k /\ Len(ns[i]) = l
    BY <2>2, <2>5
  <2>8. PICK x \in Nat, y \in Nat : x = a - k /\ y = b - k /\ x <= y /\ k + x = a /\ k + y = b /\ y = x + 4 + l
    <3>1. a - k \in Nat /\ b - k \in Nat
      BY ONLY <2>6, <2>11
    <3>2. a - k <= b - k /\ k + (a - k) = a /\ k + (b - k) = b /\ b - k = (a - k) + 4 + l
      BY ONLY <2>6, <2>11
    <3> QED
      BY <3>1, <3>2
  <2>9. SubSeq(u, x + 1, y) = SubSeq(t, a + 1, b)
    <3>1. k \in Nat /\ x \in Nat /\ y \in Nat /\ z \in Nat /\ z = Len(t) /\ k <= z /\ x <= y /\ k + y <= z
      <4>1. z = Len(t) /\ x \in Nat /\ y \in Nat /\ x <= y /\ k + y = b
        BY <2>5, <2>8
      <4> QED
        BY ONLY <2>6, <2>11, <4>1
    <3>2. SubSeq(SubSeq(t, k + 1, z), x + 1, y) = SubSeq(t, (k + x) + 1, k + y)
      BY ONLY <3>1, t \in Seq(Bytes), PartOfPart
    <3> QED
      BY <2>5, <2>8, <3>2 DEF u
  <2> QED
    BY <2>2, <2>7, <2>8, <2>9, <2>10
<1>11. Cuts(u, ns, q)
  BY <1>6, <1>8, <1>9, <1>10 DEF Cuts
<1>12. MadeOf(u, ns) /\ k + 1 = 5 + Len(ms[1])
  BY <1>4, <1>11 DEF MadeOf, Body
<1> QED
  BY <1>4, <1>5, <1>12 DEF u, ns

\* A message more is sent while n of those sent have been taken.
LEMMA SentNext ==
    ASSUME NEW S, NEW ms \in Seq(S), NEW m \in S, NEW n \in 0 .. Len(ms)
    PROVE  /\ SubSeq(Append(ms, m), 1, n) = SubSeq(ms, 1, n)
           /\ SubSeq(Append(ms, m), n + 1, Len(ms) + 1) = Append(SubSeq(ms, n + 1, Len(ms)), m)
<1> PICK k \in Nat : k = Len(ms)
  OBVIOUS
<1> PICK ns : ns = Append(ms, m)
  OBVIOUS
<1> n \in Nat /\ n <= k
  OBVIOUS
<1>1. ns \in Seq(S) /\ Len(ns) = k + 1 /\ ns[k + 1] = m /\ \A i \in 1 .. k : ns[i] = ms[i]
  OBVIOUS
<1>2. SubSeq(ns, 1, n) = SubSeq(ms, 1, n)
  <2>1. ns = ms \o <<m>> /\ <<m>> \in Seq(S)
    OBVIOUS
  <2>2. SubSeq(ms \o <<m>>, 0 + 1, n) = SubSeq(ms, 0 + 1, n)
    <3>1. 0 \in Nat /\ 0 <= n /\ n <= Len(ms)
      OBVIOUS
    <3> QED
      BY <2>1, <3>1, PartOfFront
  <2> QED
    BY <2>1, <2>2
<1>3. PICK u : u = SubSeq(ns, n + 1, k + 1)
  OBVIOUS
<1>4. PICK v : v = SubSeq(ms, n + 1, k)
  OBVIOUS
<1>5. u \in Seq(S) /\ Len(u) = (k + 1) - n /\ \A x \in 1 .. (k + 1) - n : u[x] = ns[n + x]
  <2>1. n <= k + 1 /\ k + 1 <= Len(ns) /\ k + 1 \in Nat /\ ns \in Seq(S) /\ n \in Nat
    BY <1>1
  <2> QED
    BY ONLY <1>3, <2>1, PartFields, SMTT(60)
<1>6. v \in Seq(S) /\ Len(v) = k - n /\ \A x \in 1 .. k - n : v[x] = ms[n + x]
  <2>1. n <= k /\ k <= Len(ms) /\ k \in Nat /\ ms \in Seq(S) /\ n \in Nat
    OBVIOUS
  <2> QED
    BY ONLY <1>4, <2>1, PartFields
<1>7. PICK w : w = Append(v, m)
  OBVIOUS
<1>8. w \in Seq(S) /\ Len(w) = (k - n) + 1 /\ w[(k - n) + 1] = m /\ \A x \in 1 .. k - n : w[x] = v[x]
  BY <1>6, <1>7
<1>9. ASSUME NEW x \in 1 .. (k + 1) - n PROVE u[x] = w[x]
  <2>1. CASE x = (k - n) + 1
    <3>1. n + x = k + 1
      BY <2>1
    <3> QED
      BY <1>1, <1>5, <1>8, <2>1, <3>1
  <2>2. CASE x # (k - n) + 1
    <3>1. x \in 1 .. k - n /\ n + x \in 1 .. k
      BY <2>2
    <3> QED
      BY <1>1, <1>5, <1>6, <1>8, <3>1
  <2> QED
    BY <2>1, <2>2
<1>10. u = w
  <2>1. Len(u) = Len(w) /\ \A x \in 1 .. Len(u) : u[x] = w[x]
    BY <1>5, <1>8, <1>9
  <2> QED
    BY ONLY <1>5, <1>8, <2>1, SeqEqual
<1> QED
  BY <1>2, <1>3, <1>4, <1>7, <1>10

\* The next of the messages sent is taken.
LEMMA TakenNext ==
    ASSUME NEW S, NEW ms \in Seq(S), NEW n \in Nat, n < Len(ms)
    PROVE  /\ Len(SubSeq(ms, 1, n + 1)) = n + 1
           /\ Append(SubSeq(ms, 1, n), SubSeq(ms, n + 1, Len(ms))[1]) = SubSeq(ms, 1, n + 1)
           /\ SubSeq(SubSeq(ms, n + 1, Len(ms)), 2, Len(SubSeq(ms, n + 1, Len(ms)))) = SubSeq(ms, (n + 1) + 1, Len(ms))
<1> PICK k \in Nat : k = Len(ms)
  OBVIOUS
<1> n < k
  OBVIOUS
<1> PICK ns : ns = SubSeq(ms, n + 1, k)
  OBVIOUS
<1> PICK got : got = SubSeq(ms, 1, n)
  OBVIOUS
<1> PICK g : g = Append(got, ns[1])
  OBVIOUS
<1>1. ns \in Seq(S) /\ Len(ns) = k - n /\ \A x \in 1 .. k - n : ns[x] = ms[n + x]
  <2>1. n <= k /\ k <= Len(ms) /\ n \in Nat
    OBVIOUS
  <2> QED
    BY ONLY <2>1, k \in Nat, ms \in Seq(S), ns = SubSeq(ms, n + 1, k), PartFields
<1>2. ns # <<>> /\ 1 \in 1 .. k - n /\ ns[1] = ms[n + 1] /\ ms[n + 1] \in S /\ ns[1] \in S
  <2>1. 1 \in 1 .. k - n /\ n + 1 \in 1 .. Len(ms)
    OBVIOUS
  <2>2. ns[1] = ms[n + 1] /\ ms[n + 1] \in S
    BY <1>1, <2>1
  <2> QED
    <3>1. ns # <<>>
      <4>1. Len(ns) = k - n /\ k - n >= 1
        BY <1>1
      <4>2. Len(ns) # 0
        BY ONLY <4>1, k \in Nat, n \in Nat
      <4> QED
        BY <4>2
    <3> QED
      BY <2>1, <2>2, <3>1
<1>10. got \in Seq(S) /\ Len(got) = n
  <2>1. 0 \in Nat /\ 0 <= n /\ n <= Len(ms) /\ got = SubSeq(ms, 0 + 1, n) /\ n - 0 = n
    OBVIOUS
  <2> QED
    BY <2>1, PartFields
<1>3. g \in Seq(S) /\ Len(g) = n + 1 /\ g[n + 1] = ms[n + 1] /\ \A x \in 1 .. n : g[x] = got[x]
  <2>1. PICK e \in S : e = ns[1]
    BY <1>2
  <2>2. g = Append(got, e)
    BY <2>1
  <2>3. g \in Seq(S) /\ Len(g) = n + 1 /\ g[n + 1] = e /\ \A x \in 1 .. n : g[x] = got[x]
    BY ONLY <1>10, <2>2, n \in Nat, e \in S
  <2> QED
    BY <1>2, <2>1, <2>3
<1>4. PICK v : v = SubSeq(ms, 0 + 1, n + 1)
  OBVIOUS
<1>5. v \in Seq(S) /\ Len(v) = (n + 1) - 0 /\ \A x \in 1 .. (n + 1) - 0 : v[x] = ms[0 + x]
  <2>1. 0 \in Nat /\ n + 1 \in Nat /\ 0 <= n + 1 /\ n + 1 <= Len(ms)
    OBVIOUS
  <2> QED
    BY <1>4, <2>1, PartFields
<1>6. \A x \in 1 .. n - 0 : got[x] = ms[0 + x]
  <2>1. 0 \in Nat /\ 0 <= n /\ n <= Len(ms) /\ got = SubSeq(ms, 0 + 1, n)
    OBVIOUS
  <2> QED
    BY <2>1, PartFields
<1>7. ASSUME NEW x \in 1 .. n + 1 PROVE g[x] = v[x]
  <2>1. x \in 1 .. (n + 1) - 0 /\ 0 + x = x
    OBVIOUS
  <2>2. CASE x = n + 1
    BY <1>3, <1>5, <2>1, <2>2
  <2>3. CASE x # n + 1
    <3>1. x \in 1 .. n - 0 /\ x \in 1 .. n
      BY <2>3
    <3> QED
      BY <1>3, <1>5, <1>6, <2>1, <3>1
  <2> QED
    BY <2>2, <2>3
<1>8. g = v
  <2>1. v \in Seq(S) /\ Len(g) = Len(v) /\ \A x \in 1 .. Len(g) : g[x] = v[x]
    BY <1>3, <1>5, <1>7
  <2> QED
    BY ONLY <1>3, <2>1, SeqEqual
<1>9. SubSeq(ns, 2, Len(ns)) = SubSeq(ms, (n + 1) + 1, k)
  <2>1. PICK z \in Nat : z = k - n /\ 1 <= z /\ n + z = k /\ z = Len(ns)
    <3>1. k - n \in Nat /\ 1 <= k - n /\ n + (k - n) = k
      OBVIOUS
    <3>2. Len(ns) = k - n
      BY <1>1
    <3> QED
      BY <3>1, <3>2
  <2>2. 1 \in Nat /\ n <= k /\ n + z <= k /\ ns = SubSeq(ms, n + 1, k)
    BY <2>1
  <2>3. SubSeq(SubSeq(ms, n + 1, k), 1 + 1, z) = SubSeq(ms, (n + 1) + 1, n + z)
    BY ONLY <2>1, <2>2, k \in Nat, n \in Nat, k = Len(ms), ms \in Seq(S), PartOfPart
  <2> QED
    BY <2>1, <2>2, <2>3
<1> QED
  BY <1>4, <1>5, <1>8, <1>9

\* A reader that has a whole frame has the first of those awaited.
LEMMA FirstRead ==
    ASSUME NEW now \in Seq(Bytes), NEW rest \in Seq(Bytes), NEW ms \in Seq(Body),
           MadeOf(now \o rest, ms), FrameWhole(now)
    PROVE  /\ ms # <<>> /\ FrameBody(now) = ms[1]
           /\ Len(now) <= 4 + PrefixLength(now) => MadeOf(rest, SubSeq(ms, 2, Len(ms)))
<1>1. PICK t : t = now \o rest
  OBVIOUS
<1>2. /\ t \in Seq(Bytes) /\ Len(t) = Len(now) + Len(rest)
      /\ \A x \in 1 .. Len(now) : t[x] = now[x]
  BY <1>1, JoinFields
<1>3. Len(now) >= 4 /\ Len(now) >= 4 + PrefixLength(now)
  BY DEF FrameWhole
<1>4. ms # <<>>
  <2>1. MadeOf(t, ms)
    BY <1>1
  <2>2. ms = <<>> => t = <<>>
    BY ONLY <1>2, <2>1, ms \in Seq(Body), NoneMadeOf
  <2>3. t # <<>>
    BY <1>2, <1>3
  <2> QED
    BY <2>2, <2>3
<1>5. /\ 4 + Len(ms[1]) <= Len(t)
      /\ SubSeq(t, 1, 4 + Len(ms[1])) = FrameJson(ms[1])
      /\ MadeOf(SubSeq(t, 5 + Len(ms[1]), Len(t)), SubSeq(ms, 2, Len(ms)))
  BY <1>1, <1>2, <1>4, MadeOfFirst
<1>6. PICK m \in Body : m = ms[1]
  BY <1>4
<1>7. m \in Seq(Bytes) /\ Len(m) \in Nat
  BY <1>6 DEF Body
<1>8. PICK f : f = FrameJson(m)
  OBVIOUS
<1>9. f \in Seq(Bytes) /\ Len(f) = 4 + Len(m) /\ PrefixLength(f) = Len(m) /\ FrameBody(f) = m
  BY <1>8, FrameJsonFields
<1>10. \A x \in 1 .. 4 + Len(m) : f[x] = t[x]
  <2>1. f = SubSeq(t, 0 + 1, 4 + Len(m)) /\ 0 \in Nat /\ 4 + Len(m) \in Nat /\ 0 <= 4 + Len(m) /\ 4 + Len(m) <= Len(t)
    BY <1>5, <1>6, <1>7, <1>8
  <2>2. \A x \in 1 .. (4 + Len(m)) - 0 : f[x] = t[0 + x]
    BY ONLY <1>2, <2>1, PartFields
  <2> QED
    BY <1>7, <2>2
<1>11. f[1] = now[1] /\ f[2] = now[2] /\ f[3] = now[3] /\ f[4] = now[4]
  <2>1. \A x \in {1, 2, 3, 4} : x \in 1 .. 4 + Len(m) /\ x \in 1 .. Len(now)
    BY <1>3, <1>7
  <2> QED
    BY <1>2, <1>10, <2>1
<1>12. PrefixLength(now) = Len(m)
  BY <1>9, <1>11 DEF PrefixLength
<1>13. FrameBody(now) = m
  <2>1. PICK n \in Nat : n = 4 + Len(m) /\ 4 <= n /\ n <= Len(now) /\ n = Len(f)
    BY <1>3, <1>7, <1>9, <1>12
  <2>2. PICK u : u = SubSeq(now, 4 + 1, n)
    OBVIOUS
  <2>3. PICK v : v = SubSeq(f, 4 + 1, n)
    OBVIOUS
  <2>4. u \in Seq(Bytes) /\ Len(u) = n - 4 /\ \A x \in 1 .. n - 4 : u[x] = now[4 + x]
    BY ONLY <2>1, <2>2, 4 \in Nat, now \in Seq(Bytes), PartFields
  <2>5. v \in Seq(Bytes) /\ Len(v) = n - 4 /\ \A x \in 1 .. n - 4 : v[x] = f[4 + x]
    <3>1. f \in Seq(Bytes) /\ n <= Len(f)
      BY <1>9, <2>1
    <3> QED
      BY ONLY <2>1, <2>3, <3>1, 4 \in Nat, PartFields
  <2>6. \A x \in 1 .. Len(u) : u[x] = v[x]
    <3> SUFFICES ASSUME NEW x \in 1 .. n - 4 PROVE u[x] = v[x]
      BY <2>4
    <3>1. 4 + x \in 1 .. 4 + Len(m) /\ 4 + x \in 1 .. Len(now)
      BY <2>1
    <3> QED
      BY <1>2, <1>10, <2>4, <2>5, <3>1
  <2>7. u = v
    <3>1. Len(u) = Len(v)
      BY <2>4, <2>5
    <3> QED
      BY ONLY <2>4, <2>5, <2>6, <3>1, SeqEqual
  <2>8. FrameBody(now) = u /\ FrameBody(f) = v
    BY <1>9, <1>12, <2>1, <2>2, <2>3 DEF FrameBody
  <2> QED
    BY <1>9, <2>7, <2>8
<1>14. ASSUME Len(now) <= 4 + PrefixLength(now) PROVE SubSeq(t, 5 + Len(m), Len(t)) = rest
  <2>1. PICK k \in Nat : k = Len(now) /\ k + 1 = 5 + Len(m)
    BY <1>3, <1>7, <1>12, <1>14
  <2>2. PICK n \in Nat : n = k + Len(rest) /\ n = Len(t)
    BY <1>2, <2>1
  <2>3. SubSeq(now \o rest, k + 1, n) = rest
    BY ONLY <2>1, <2>2, now \in Seq(Bytes), rest \in Seq(Bytes), PartOfBack
  <2> QED
    BY <1>1, <2>1, <2>2, <2>3
<1> QED
  BY <1>4, <1>5, <1>6, <1>13, <1>14

BytesSeq == Seq(Bytes)
MessageSeq == Seq(Messages)
GotSeq == Seq(BytesSeq)

\* The same for the messages of a stream, with the places named by what was taken.
Prefix(got, ms) == got = SubSeq(ms, 1, Len(got)) /\ Len(got) <= Len(ms)
Rest(got, ms) == SubSeq(ms, Len(got) + 1, Len(ms))

LEMMA StreamSends ==
    ASSUME NEW ms \in MessageSeq, NEW m \in Messages, NEW got \in GotSeq, Prefix(got, ms)
    PROVE  Prefix(got, Append(ms, m)) /\ Rest(got, Append(ms, m)) = Append(Rest(got, ms), m)
<1>1. ms \in Seq(Messages)
  BY DEF MessageSeq
<1>2. PICK n : n = Len(got)
  OBVIOUS
<1>3. PICK k : k = Len(ms)
  OBVIOUS
<1>4. n \in Nat
  BY <1>2 DEF GotSeq
<1>41. k \in Nat
  BY <1>1, <1>3
<1>5. n <= k
  BY <1>2, <1>3 DEF Prefix
<1>6. PICK ns : ns = Append(ms, m)
  OBVIOUS
<1>61. n \in 0 .. Len(ms)
  BY <1>3, <1>4, <1>41, <1>5
<1>62. /\ SubSeq(Append(ms, m), 1, n) = SubSeq(ms, 1, n)
       /\ SubSeq(Append(ms, m), n + 1, Len(ms) + 1) = Append(SubSeq(ms, n + 1, Len(ms)), m)
  BY ONLY <1>1, <1>61, m \in Messages, SentNext, Zenon
<1>7. /\ SubSeq(ns, 1, n) = SubSeq(ms, 1, n)
      /\ SubSeq(ns, n + 1, k + 1) = Append(SubSeq(ms, n + 1, k), m)
  BY ONLY <1>3, <1>6, <1>62, Zenon
<1>8. Len(ns) = k + 1
  BY ONLY <1>1, <1>3, <1>6, m \in Messages
<1>9. Rest(got, ns) = Append(Rest(got, ms), m)
  BY ONLY <1>2, <1>3, <1>7, <1>8, Zenon DEF Rest
<1>10. Prefix(got, ns)
  <2>1. got = SubSeq(ms, 1, n)
    BY <1>2 DEF Prefix
  <2>2. Len(got) <= Len(ns)
    BY ONLY <1>2, <1>4, <1>41, <1>5, <1>8
  <2> QED
    BY ONLY <1>2, <1>7, <2>1, <2>2, Zenon DEF Prefix
<1> QED
  BY <1>6, <1>9, <1>10

LEMMA StreamTakes ==
    ASSUME NEW ms \in MessageSeq, NEW got \in GotSeq, Prefix(got, ms), Rest(got, ms) # <<>>
    PROVE  LET g == Append(got, Rest(got, ms)[1])
           IN Prefix(g, ms) /\ Rest(g, ms) = SubSeq(Rest(got, ms), 2, Len(Rest(got, ms)))
<1>1. ms \in Seq(Messages)
  BY DEF MessageSeq
<1>3. PICK n : n = Len(got)
  OBVIOUS
<1>4. PICK k : k = Len(ms)
  OBVIOUS
<1>5. n \in Nat
  BY <1>3 DEF GotSeq
<1>51. k \in Nat
  BY <1>1, <1>4
<1>6. n <= k
  BY <1>3, <1>4 DEF Prefix
<1>7. got = SubSeq(ms, 1, n)
  BY <1>3 DEF Prefix
<1>8. PICK ns : ns = SubSeq(ms, n + 1, k)
  OBVIOUS
<1>9. Rest(got, ms) = ns
  BY <1>3, <1>4, <1>8 DEF Rest
<1>10. ns \in Seq(Messages) /\ Len(ns) = k - n
  <2>1. k <= Len(ms)
    BY ONLY <1>4, <1>51
  <2> QED
    BY ONLY <1>1, <1>5, <1>51, <1>6, <1>8, <2>1, PartFields
<1>11. n < k
  <2>1. ns # <<>>
    BY <1>9
  <2>2. Len(ns) # 0
    BY ONLY <1>10, <2>1
  <2> QED
    BY ONLY <1>5, <1>51, <1>6, <1>10, <2>2
<1>12. PICK g : g = Append(got, ns[1])
  OBVIOUS
<1>13. n < Len(ms)
  BY <1>4, <1>11
<1>14. /\ Len(SubSeq(ms, 1, n + 1)) = n + 1
       /\ Append(SubSeq(ms, 1, n), SubSeq(ms, n + 1, Len(ms))[1]) = SubSeq(ms, 1, n + 1)
       /\ SubSeq(SubSeq(ms, n + 1, Len(ms)), 2, Len(SubSeq(ms, n + 1, Len(ms)))) = SubSeq(ms, (n + 1) + 1, Len(ms))
  BY ONLY <1>1, <1>5, <1>13, TakenNext, Zenon
<1>15. /\ Len(g) = n + 1 /\ g = SubSeq(ms, 1, n + 1)
       /\ SubSeq(ns, 2, Len(ns)) = SubSeq(ms, (n + 1) + 1, k)
  BY ONLY <1>4, <1>7, <1>8, <1>12, <1>14, Zenon
<1>16. Rest(g, ms) = SubSeq(ns, 2, Len(ns))
  BY ONLY <1>4, <1>15, Zenon DEF Rest
<1>17. Prefix(g, ms)
  <2>1. Len(g) <= Len(ms)
    BY ONLY <1>4, <1>5, <1>51, <1>11, <1>15
  <2> QED
    BY ONLY <1>15, <2>1, Zenon DEF Prefix
<1> QED
  BY <1>9, <1>12, <1>16, <1>17

StreamLines == Seq(Bytes)
StreamSent == Seq(Messages)
StreamGot == Seq(Seq(Bytes))
StreamFit == [line : StreamLines, sent : StreamSent, got : StreamGot, spoilt : BOOLEAN]
CallFit == [BridgeEnd -> StreamFit]

LEMMA StreamIsFit == Stream = StreamFit
  BY DEF Stream, StreamFit, StreamLines, StreamSent, StreamGot, Bytes

LEMMA BridgeTypes ==
    HostBridgeTcpTypeOK <=>
        /\ listening \in BOOLEAN
        /\ sock \in [BridgeEnd -> 0..Len(calls)]
        /\ accepted \in 0..Len(calls)
        /\ calls \in Seq(CallFit)
        /\ acc \in [BridgeEnd -> StreamLines]
        /\ busy \subseteq {e \in BridgeEnd : sock[e] # 0}
        /\ negotiated \subseteq BridgeEnd
        /\ sends \in 0..MaxSends
  BY StreamIsFit DEF HostBridgeTcpTypeOK, CallFit, StreamLines, Bytes

\* One stream of one connection put in the place of another.
PutIn(cs, c, e, s) == [cs EXCEPT ![c] = [cs[c] EXCEPT ![e] = s]]

LEMMA PutFields ==
    ASSUME NEW cs \in Seq(CallFit), NEW c \in DOMAIN cs, NEW e \in BridgeEnd, NEW s \in StreamFit
    PROVE  /\ PutIn(cs, c, e, s) \in Seq(CallFit) /\ Len(PutIn(cs, c, e, s)) = Len(cs)
           /\ PutIn(cs, c, e, s)[c][e] = s
           /\ \A d \in DOMAIN cs, f \in BridgeEnd :
                 d # c \/ f # e => PutIn(cs, c, e, s)[d][f] = cs[d][f]
<1>1. c \in 1 .. Len(cs) /\ DOMAIN cs = 1 .. Len(cs) /\ cs[c] \in CallFit
  OBVIOUS
<1>2. PICK k : k = [cs[c] EXCEPT ![e] = s]
  OBVIOUS
<1>3. k \in CallFit /\ k[e] = s /\ \A f \in BridgeEnd : f # e => k[f] = cs[c][f]
  BY <1>1, <1>2 DEF CallFit
<1>4. PICK n : n = [cs EXCEPT ![c] = k]
  OBVIOUS
<1>5. n \in Seq(CallFit) /\ Len(n) = Len(cs) /\ \A d \in 1 .. Len(cs) : n[d] = IF d = c THEN k ELSE cs[d]
  BY ONLY <1>1, <1>3, <1>4, cs \in Seq(CallFit), ExceptSeq
<1>6. PutIn(cs, c, e, s) = n
  BY <1>2, <1>4 DEF PutIn
<1> QED
  BY <1>1, <1>3, <1>5, <1>6

\* What a step does when one stream changes, and its reader holds what it should.
LEMMA OneStream ==
    ASSUME BridgeInv, HostBridgeTcpTypeOK', NEW c \in DOMAIN calls, NEW e \in BridgeEnd, NEW s \in StreamFit,
           calls' = PutIn(calls, c, e, s),
           \A d \in DOMAIN calls, f \in BridgeEnd : d # c \/ f # e => Held(d, f)' = Held(d, f),
           s.spoilt \/ StreamRight(s, Held(c, e)')
    PROVE  BridgeInv'
<1>1. calls \in Seq(CallFit)
  BY BridgeTypes DEF BridgeInv
<1>2. /\ calls' \in Seq(CallFit) /\ Len(calls') = Len(calls) /\ calls'[c][e] = s
      /\ \A d \in DOMAIN calls, f \in BridgeEnd : d # c \/ f # e => calls'[d][f] = calls[d][f]
  BY <1>1, PutFields
<1>3. DOMAIN calls' = DOMAIN calls
  BY <1>1, <1>2
<1>4. ASSUME NEW d \in DOMAIN calls', NEW f \in BridgeEnd, ~calls'[d][f].spoilt
      PROVE  StreamRight(calls'[d][f], Held(d, f)')
  <2>1. CASE d = c /\ f = e
    BY <1>2, <1>4, <2>1
  <2>2. CASE d # c \/ f # e
    <3>1. calls'[d][f] = calls[d][f] /\ Held(d, f)' = Held(d, f) /\ d \in DOMAIN calls
      BY <1>2, <1>3, <2>2
    <3>2. StreamRight(calls[d][f], Held(d, f))
      BY <1>4, <3>1 DEF BridgeInv
    <3> QED
      BY <3>1, <3>2
  <2> QED
    BY <2>1, <2>2
<1> QED
  BY <1>4 DEF BridgeInv

LEMMA NoStream ==
    ASSUME BridgeInv, HostBridgeTcpTypeOK', calls' = calls,
           \A d \in DOMAIN calls, f \in BridgeEnd : Held(d, f)' = Held(d, f)
    PROVE  BridgeInv'
<1>1. ASSUME NEW d \in DOMAIN calls', NEW f \in BridgeEnd, ~calls'[d][f].spoilt
      PROVE  StreamRight(calls'[d][f], Held(d, f)')
  <2>1. StreamRight(calls[d][f], Held(d, f))
    BY <1>1 DEF BridgeInv
  <2>2. calls'[d][f] = calls[d][f] /\ Held(d, f)' = Held(d, f)
    OBVIOUS
  <2> QED
    BY <2>1, <2>2
<1> QED
  BY <1>1 DEF BridgeInv

LEMMA BridgeInitInv == HostBridgeTcpInit => BridgeInv
<1> SUFFICES ASSUME HostBridgeTcpInit PROVE BridgeInv
  OBVIOUS
<1>1. HostBridgeTcpTypeOK
  <2>1. /\ listening \in BOOLEAN /\ accepted \in 0..Len(calls) /\ calls \in Seq(CallFit) /\ Len(calls) = 0
        /\ busy \subseteq {e \in BridgeEnd : sock[e] # 0} /\ negotiated \subseteq BridgeEnd /\ sends \in 0..MaxSends
    <3>1. calls = <<>>
      BY DEF HostBridgeTcpInit
    <3>2. <<>> \in Seq(CallFit) /\ Len(<<>>) = 0
      OBVIOUS
    <3>3. /\ listening \in BOOLEAN /\ accepted = 0 /\ busy = {} /\ negotiated = {} /\ sends \in 0..MaxSends
      <4>1. listening = FALSE /\ accepted = 0 /\ busy = {} /\ negotiated = {} /\ sends = 0
        BY Zenon DEF HostBridgeTcpInit
      <4>2. 0 \in 0..MaxSends
        BY HostBridgeTcpAssumption
      <4> QED
        BY ONLY <4>1, <4>2, Zenon
    <3> QED
      BY <3>1, <3>2, <3>3
  <2>2. sock \in [BridgeEnd -> 0..Len(calls)]
    BY <2>1 DEF HostBridgeTcpInit
  <2>3. acc \in [BridgeEnd -> StreamLines]
    BY DEF HostBridgeTcpInit, StreamLines
  <2> QED
    BY <2>1, <2>2, <2>3, BridgeTypes
<1>2. DOMAIN calls = {}
  BY DEF HostBridgeTcpInit
<1> QED
  BY <1>1, <1>2 DEF BridgeInv

\* The steps that only move sockets, or clear a reader's accumulator as it starts.
LEMMA SocketsMove ==
    ASSUME BridgeInv, \/ ListenIpv4Local \/ AcceptBlocking
                      \/ \E e \in BridgeEnd : CloseSocket(e) \/ TryRecvSidebandJson(e)
    PROVE  BridgeInv'
<1>0. /\ listening \in BOOLEAN
      /\ sock \in [BridgeEnd -> 0..Len(calls)]
      /\ accepted \in 0..Len(calls)
      /\ calls \in Seq(CallFit)
      /\ acc \in [BridgeEnd -> StreamLines]
      /\ busy \subseteq {e \in BridgeEnd : sock[e] # 0}
      /\ negotiated \subseteq BridgeEnd
      /\ sends \in 0..MaxSends
      /\ Len(calls) \in Nat
  BY BridgeTypes DEF BridgeInv
<1>1. PICK N \in Nat : N = Len(calls)
  BY <1>0
<1>2. calls' = calls
  BY DEF ListenIpv4Local, AcceptBlocking, CloseSocket, TryRecvSidebandJson
<1>3. ASSUME NEW e \in BridgeEnd, NEW k \in 0 .. N, e \notin busy, sock' = [sock EXCEPT ![e] = k],
             listening' \in BOOLEAN, accepted' \in 0 .. N, UNCHANGED <<acc, busy, negotiated, sends>>
      PROVE  BridgeInv'
  <2>1. /\ sock' \in [BridgeEnd -> 0 .. N]
        /\ \A f \in BridgeEnd : f # e => sock'[f] = sock[f]
    BY <1>0, <1>1, <1>3
  <2>2. busy' \subseteq {f \in BridgeEnd : sock'[f] # 0}
    BY <1>0, <1>3, <2>1
  <2>3. HostBridgeTcpTypeOK'
    BY <1>0, <1>1, <1>2, <1>3, <2>1, <2>2, StreamIsFit DEF HostBridgeTcpTypeOK, CallFit, StreamLines, Bytes
  <2>4. \A d \in DOMAIN calls, f \in BridgeEnd : Held(d, f)' = Held(d, f)
    BY <1>3, <2>1 DEF Held
  <2> QED
    BY <1>2, <2>3, <2>4, NoStream
<1>4. CASE ListenIpv4Local
  <2>1. "server" \in BridgeEnd /\ 0 \in 0 .. N /\ Len(calls) \in 0 .. N
    BY <1>1 DEF BridgeEnd
  <2> QED
    BY <1>3, <1>4, <2>1 DEF ListenIpv4Local
<1>5. CASE AcceptBlocking
  <2>1. "server" \in BridgeEnd /\ accepted + 1 \in 0 .. N
    BY <1>0, <1>1, <1>5 DEF BridgeEnd, AcceptBlocking
  <2> QED
    BY <1>0, <1>3, <1>5, <2>1 DEF AcceptBlocking
<1>6. ASSUME NEW e \in BridgeEnd, CloseSocket(e) PROVE BridgeInv'
  <2>1. 0 \in 0 .. N
    OBVIOUS
  <2> QED
    BY <1>0, <1>1, <1>3, <1>6, <2>1 DEF CloseSocket
<1>7. ASSUME NEW e \in BridgeEnd, TryRecvSidebandJson(e) PROVE BridgeInv'
  <2>1. <<>> \in StreamLines
    BY DEF StreamLines
  <2>2. /\ acc' \in [BridgeEnd -> StreamLines] /\ acc'[e] = <<>>
        /\ \A f \in BridgeEnd : f # e => acc'[f] = acc[f]
    BY <1>0, <1>7, <2>1 DEF TryRecvSidebandJson
  <2>3. HostBridgeTcpTypeOK'
    <3>1. /\ listening' \in BOOLEAN /\ sock' = sock /\ accepted' = accepted /\ negotiated' = negotiated /\ sends' = sends
          /\ busy' \subseteq {f \in BridgeEnd : sock'[f] # 0}
      BY <1>0, <1>7 DEF TryRecvSidebandJson
    <3> QED
      BY <1>0, <1>2, <2>2, <3>1, StreamIsFit DEF HostBridgeTcpTypeOK, CallFit, StreamLines, Bytes
  <2>4. ASSUME NEW d \in DOMAIN calls, NEW f \in BridgeEnd PROVE Held(d, f)' = Held(d, f)
    <3>1. CASE f = e
      BY <1>7, <2>2, <3>1 DEF TryRecvSidebandJson, Held
    <3>2. CASE f # e
      BY <1>7, <2>2, <3>2 DEF TryRecvSidebandJson, Held
    <3> QED
      BY <3>1, <3>2
  <2> QED
    BY <1>2, <2>3, <2>4, NoStream
<1> QED
  BY <1>4, <1>5, <1>6, <1>7

\* A call that nobody has read from.
LEMMA Connects ==
    ASSUME BridgeInv, ConnectIpv4
    PROVE  BridgeInv'
<1>0. /\ listening \in BOOLEAN
      /\ sock \in [BridgeEnd -> 0..Len(calls)]
      /\ accepted \in 0..Len(calls)
      /\ calls \in Seq(CallFit)
      /\ acc \in [BridgeEnd -> StreamLines]
      /\ busy \subseteq {e \in BridgeEnd : sock[e] # 0}
      /\ negotiated \subseteq BridgeEnd
      /\ sends \in 0..MaxSends
      /\ Len(calls) \in Nat
  BY BridgeTypes DEF BridgeInv
<1>1. PICK N \in Nat : N = Len(calls)
  BY <1>0
<1>2. "client" \in BridgeEnd
  BY DEF BridgeEnd
<1>3. PICK k \in {0, N + 1} :
         /\ sock' = [sock EXCEPT !["client"] = k]
         /\ \/ k = 0 /\ calls' = calls
            \/ k = N + 1 /\ calls' = Append(calls, NewCall)
  BY <1>1 DEF ConnectIpv4
<1>4. NewCall \in CallFit /\ \A f \in BridgeEnd : NewCall[f] = [line |-> <<>>, sent |-> <<>>, got |-> <<>>, spoilt |-> FALSE]
  BY DEF NewCall, CallFit, StreamFit, StreamLines, StreamSent, StreamGot
<1>5. PICK M \in Nat : /\ calls' \in Seq(CallFit) /\ Len(calls') = M /\ M \in {N, N + 1} /\ k \in 0 .. M
                       /\ \A d \in 1 .. N : calls'[d] = calls[d]
                       /\ \A d \in 1 .. M : d \in 1 .. N \/ (d = N + 1 /\ calls'[d] = NewCall)
  <2>1. CASE k = 0 /\ calls' = calls
    BY <1>0, <1>1, <2>1
  <2>2. CASE k = N + 1 /\ calls' = Append(calls, NewCall)
    <3>1. calls' \in Seq(CallFit) /\ Len(calls') = N + 1 /\ calls'[N + 1] = NewCall /\ \A d \in 1 .. N : calls'[d] = calls[d]
      BY ONLY <1>0, <1>1, <1>4, <2>2
    <3> QED
      BY <2>2, <3>1
  <2> QED
    BY <1>3, <2>1, <2>2
<1>6. /\ sock' \in [BridgeEnd -> 0 .. M]
      /\ \A f \in BridgeEnd : f # "client" => sock'[f] = sock[f]
  <2>1. sock \in [BridgeEnd -> 0 .. M]
    <3>1. \A n \in 0 .. N : n \in 0 .. M
      BY <1>5
    <3>2. \A f \in BridgeEnd : sock[f] \in 0 .. N
      BY <1>0, <1>1
    <3> QED
      BY <1>0, <3>1, <3>2
  <2>2. k \in 0 .. M /\ sock' = [sock EXCEPT !["client"] = k]
    BY <1>3, <1>5
  <2> QED
    BY ONLY <1>2, <2>1, <2>2
<1>7. "client" \notin busy /\ UNCHANGED <<listening, accepted, acc, busy, negotiated, sends>>
  BY DEF ConnectIpv4
<1>8. HostBridgeTcpTypeOK'
  <2>1. busy' \subseteq {f \in BridgeEnd : sock'[f] # 0}
    BY <1>0, <1>6, <1>7
  <2>2. accepted' \in 0 .. M
    BY <1>0, <1>1, <1>5, <1>7
  <2>3. /\ listening' \in BOOLEAN /\ acc' \in [BridgeEnd -> StreamLines]
        /\ negotiated' \subseteq BridgeEnd /\ sends' \in 0..MaxSends
    BY <1>0, <1>7
  <2>4. calls' \in Seq(CallFit) /\ Len(calls') = M
    BY <1>5
  <2> QED
    BY ONLY <1>6, <2>1, <2>2, <2>3, <2>4, StreamIsFit DEF HostBridgeTcpTypeOK, CallFit, StreamLines, Bytes
<1>9. \A d \in Nat, f \in BridgeEnd : Held(d, f)' = Held(d, f)
  BY <1>6, <1>7 DEF Held
<1>10. ASSUME NEW d \in DOMAIN calls', NEW f \in BridgeEnd, ~calls'[d][f].spoilt
       PROVE  StreamRight(calls'[d][f], Held(d, f)')
  <2>1. d \in 1 .. M /\ d \in Nat
    BY <1>5
  <2>2. CASE d \in 1 .. N
    <3>1. d \in DOMAIN calls /\ calls'[d][f] = calls[d][f] /\ Held(d, f)' = Held(d, f)
      BY <1>0, <1>1, <1>5, <1>9, <2>1, <2>2
    <3>2. StreamRight(calls[d][f], Held(d, f))
      BY <1>10, <3>1 DEF BridgeInv
    <3> QED
      BY <3>1, <3>2
  <2>3. CASE d = N + 1 /\ calls'[d] = NewCall
    <3>1. Held(d, f) = <<>>
      <4>1. sock[f] \in 0 .. N
        BY <1>0, <1>1
      <4> QED
        BY <2>3, <4>1 DEF Held
    <3>2. PICK s : s = [line |-> <<>>, sent |-> <<>>, got |-> <<>>, spoilt |-> FALSE]
      OBVIOUS
    <3>3. calls'[d][f] = s /\ Held(d, f)' = <<>>
      BY <1>4, <1>9, <2>1, <2>3, <3>1, <3>2
    <3>4. Awaited(s) = <<>> /\ s.line = <<>> /\ s.got = <<>> /\ s.sent = <<>>
      BY <3>2 DEF Awaited
    <3>5. StreamRight(s, <<>>)
      BY <3>4, MadeOfNone DEF StreamRight
    <3> QED
      BY <3>3, <3>5
  <2> QED
    BY <1>5, <2>1, <2>2, <2>3
<1> QED
  BY <1>8, <1>10 DEF BridgeInv

LEMMA Sends ==
    ASSUME BridgeInv, NEW e \in BridgeEnd, NEW m \in Messages, SendSidebandJson(e, m)
    PROVE  BridgeInv'
<1>0. /\ listening \in BOOLEAN
      /\ sock \in [BridgeEnd -> 0..Len(calls)]
      /\ accepted \in 0..Len(calls)
      /\ calls \in Seq(CallFit)
      /\ acc \in [BridgeEnd -> StreamLines]
      /\ busy \subseteq {f \in BridgeEnd : sock[f] # 0}
      /\ negotiated \subseteq BridgeEnd
      /\ sends \in 0..MaxSends
      /\ Len(calls) \in Nat
  BY BridgeTypes DEF BridgeInv
<1>1. /\ sends' = sends + 1 /\ sends < MaxSends /\ negotiated' = negotiated \cup {e}
      /\ UNCHANGED <<listening, sock, accepted, acc, busy>>
  BY DEF SendSidebandJson
<1>2. \A d \in Nat, f \in BridgeEnd : Held(d, f)' = Held(d, f)
  BY <1>1 DEF Held
<1>3. ASSUME calls' \in Seq(CallFit), Len(calls') = Len(calls) PROVE HostBridgeTcpTypeOK'
  <2>1. sends' \in 0 .. MaxSends
    BY <1>0, <1>1, HostBridgeTcpAssumption
  <2>2. /\ listening' \in BOOLEAN /\ sock' \in [BridgeEnd -> 0..Len(calls')] /\ accepted' \in 0..Len(calls')
        /\ acc' \in [BridgeEnd -> StreamLines] /\ busy' \subseteq {f \in BridgeEnd : sock'[f] # 0}
        /\ negotiated' \subseteq BridgeEnd
    BY <1>0, <1>1, <1>3
  <2> QED
    BY ONLY <1>3, <2>1, <2>2, StreamIsFit DEF HostBridgeTcpTypeOK, CallFit, StreamLines, Bytes
<1>4. CASE sock[e] = 0
  <2>1. calls' = calls
    BY <1>4 DEF SendSidebandJson
  <2>2. HostBridgeTcpTypeOK'
    BY <1>0, <1>3, <2>1
  <2>3. \A d \in DOMAIN calls, f \in BridgeEnd : Held(d, f)' = Held(d, f)
    BY <1>0, <1>2
  <2> QED
    BY <2>1, <2>2, <2>3, NoStream
<1>5. CASE sock[e] # 0
  <2>1. PICK c : c = sock[e]
    OBVIOUS
  <2>16. PICK o \in BridgeEnd : o = Peer(e)
    BY DEF Peer, BridgeEnd
  <2>2. c \in DOMAIN calls /\ c \in Nat
    BY <1>0, <1>5, <2>1
  <2>3. PICK s0 : s0 = calls[c][o]
    OBVIOUS
  <2>4. s0 \in StreamFit /\ s0.line \in Seq(Bytes) /\ s0.sent \in Seq(Messages) /\ s0.got \in Seq(Seq(Bytes))
    <3>1. s0 \in StreamFit
      BY <1>0, <2>2, <2>3 DEF CallFit
    <3> QED
      BY <3>1 DEF StreamFit, StreamLines, StreamSent, StreamGot
  <2>5. PICK f : f = FrameJson(m)
    OBVIOUS
  <2>6. f \in Seq(Bytes) /\ m \in Body
    BY <2>5, MessagesBodies, FrameJsonFields
  <2>7. PICK line, more : line = s0.line \o f /\ more = Append(s0.sent, m)
    OBVIOUS
  <2>8. line \in StreamLines /\ more \in StreamSent
    <3>1. line \in Seq(Bytes)
      BY <2>4, <2>6, <2>7, JoinFields
    <3>2. more \in Seq(Messages)
      BY <2>4, <2>7
    <3> QED
      BY <3>1, <3>2 DEF StreamLines, StreamSent
  <2>9. PICK s : s = [s0 EXCEPT !.line = line, !.sent = more]
    OBVIOUS
  <2>10. s \in StreamFit /\ s.line = line /\ s.sent = more /\ s.got = s0.got /\ s.spoilt = s0.spoilt
    BY ONLY <2>4, <2>8, <2>9, ZenonT(30) DEF StreamFit
  <2>11. calls' = PutIn(calls, c, o, s)
    <3>1. calls' = [calls EXCEPT ![c][o].line = @ \o f, ![c][o].sent = Append(@, m)]
      BY <1>5, <2>1, <2>16, <2>5 DEF SendSidebandJson
    <3> QED
      BY <2>3, <2>7, <2>9, <3>1 DEF PutIn
  <2>12. HostBridgeTcpTypeOK'
    <3>1. calls' \in Seq(CallFit) /\ Len(calls') = Len(calls)
      BY <1>0, <2>2, <2>10, <2>11, PutFields
    <3> QED
      BY <1>3, <3>1
  <2>13. ASSUME ~s.spoilt PROVE StreamRight(s, Held(c, o)')
    <3>1. PICK h : h = Held(c, o)
      OBVIOUS
    <3>2. StreamRight(s0, h) /\ h = Held(c, o)'
      BY <1>2, <2>2, <2>3, <2>10, <2>13, <3>1 DEF BridgeInv
    <3>3. h \in Seq(Bytes)
      BY <1>0, <3>1 DEF Held, StreamLines
    <3>4. PICK n \in Nat, k \in Nat : n = Len(s0.got) /\ k = Len(s0.sent)
      BY <2>4
    <3>5. n <= k /\ s0.got = SubSeq(s0.sent, 1, n) /\ MadeOf(h \o s0.line, SubSeq(s0.sent, n + 1, k))
      BY <3>2, <3>4 DEF StreamRight, Awaited
    <3>6. PICK ms : ms = SubSeq(s0.sent, n + 1, k)
      OBVIOUS
    <3>7. ms \in Seq(Messages)
      BY <2>4, <3>4, <3>5, <3>6, PartFields
    <3>8. ms \in Seq(Body)
      BY ONLY <3>7, MessagesBodies, SeqMonotonic
    <3>9. PICK t : t = h \o s0.line
      OBVIOUS
    <3>10. t \in Seq(Bytes)
      BY <2>4, <3>3, <3>9, JoinFields
    <3>11. MadeOf(t \o f, Append(ms, m))
      BY <2>5, <2>6, <3>5, <3>6, <3>8, <3>9, <3>10, MadeOfMore
    <3>12. t \o f = h \o line
      <4>1. PICK l : l = s0.line
        OBVIOUS
      <4>2. h \in Seq(Bytes) /\ l \in Seq(Bytes) /\ f \in Seq(Bytes)
        BY <2>4, <2>6, <3>3, <4>1
      <4>3. (h \o l) \o f = h \o (l \o f)
        BY ONLY <4>2, ConcatAssociative
      <4> QED
        BY <2>7, <3>9, <4>1, <4>3
    <3>13. SubSeq(more, 1, n) = SubSeq(s0.sent, 1, n) /\ SubSeq(more, n + 1, k + 1) = Append(ms, m)
      <4>1. PICK q : q = s0.sent
        OBVIOUS
      <4>2. q \in Seq(Messages)
        BY <2>4, <4>1
      <4>3. n \in 0 .. Len(q)
        BY <3>4, <3>5, <4>1
      <4>4. /\ SubSeq(Append(q, m), 1, n) = SubSeq(q, 1, n)
            /\ SubSeq(Append(q, m), n + 1, Len(q) + 1) = Append(SubSeq(q, n + 1, Len(q)), m)
        BY ONLY <4>2, <4>3, m \in Messages, SentNext, Zenon
      <4> QED
        BY <2>7, <3>4, <3>6, <4>1, <4>4
    <3>14. Len(s.sent) = k + 1
      BY <2>4, <2>7, <2>10, <3>4
    <3>15. MadeOf(h \o s.line, Awaited(s))
      BY <2>10, <3>4, <3>11, <3>12, <3>13, <3>14 DEF Awaited
    <3>16. Len(s.got) <= Len(s.sent) /\ s.got = SubSeq(s.sent, 1, Len(s.got))
      BY <2>10, <3>4, <3>5, <3>13, <3>14
    <3> QED
      BY <3>2, <3>15, <3>16 DEF StreamRight
  <2>14. \A d \in DOMAIN calls, g \in BridgeEnd : d # c \/ g # o => Held(d, g)' = Held(d, g)
    BY <1>0, <1>2
  <2>15. s.spoilt \/ StreamRight(s, Held(c, o)')
    BY <2>13
  <2> QED
    BY <2>2, <2>10, <2>11, <2>12, <2>14, <2>15, OneStream
<1> QED
  BY <1>4, <1>5

LEMMA SendsRaw ==
    ASSUME BridgeInv, NEW e \in BridgeEnd, SendBytes(e)
    PROVE  BridgeInv'
<1>0. /\ listening \in BOOLEAN
      /\ sock \in [BridgeEnd -> 0..Len(calls)]
      /\ accepted \in 0..Len(calls)
      /\ calls \in Seq(CallFit)
      /\ acc \in [BridgeEnd -> StreamLines]
      /\ busy \subseteq {f \in BridgeEnd : sock[f] # 0}
      /\ negotiated \subseteq BridgeEnd
      /\ sends \in 0..MaxSends
      /\ Len(calls) \in Nat
  BY BridgeTypes DEF BridgeInv
<1>1. /\ sends' = sends + 1 /\ sends < MaxSends /\ sock[e] # 0
      /\ UNCHANGED <<listening, sock, accepted, acc, busy, negotiated>>
  BY DEF SendBytes
<1>2. \A d \in Nat, f \in BridgeEnd : Held(d, f)' = Held(d, f)
  BY <1>1 DEF Held
<1>3. PICK c : c = sock[e]
  OBVIOUS
<1>14. PICK o \in BridgeEnd : o = Peer(e)
  BY DEF Peer, BridgeEnd
<1>4. c \in DOMAIN calls /\ c \in Nat
  BY <1>0, <1>1, <1>3
<1>5. PICK s0 : s0 = calls[c][o]
  OBVIOUS
<1>6. s0 \in StreamFit /\ s0.line \in Seq(Bytes)
  BY <1>0, <1>4, <1>5 DEF CallFit, StreamFit, StreamLines
<1>7. PICK line : line = s0.line \o RawBytes
  OBVIOUS
<1>8. line \in StreamLines
  <2>1. RawBytes \in Seq(Bytes)
    BY HostBridgeTcpAssumption DEF Bytes
  <2>2. line \in Seq(Bytes)
    BY <1>6, <1>7, <2>1, JoinFields
  <2> QED
    BY <2>2 DEF StreamLines
<1>9. PICK s : s = [s0 EXCEPT !.line = line, !.spoilt = TRUE]
  OBVIOUS
<1>10. s \in StreamFit /\ s.spoilt = TRUE
  BY ONLY <1>6, <1>8, <1>9, ZenonT(30) DEF StreamFit
<1>11. calls' = PutIn(calls, c, o, s)
  <2>1. calls' = [calls EXCEPT ![c][o].line = @ \o RawBytes, ![c][o].spoilt = TRUE]
    BY <1>3, <1>14 DEF SendBytes
  <2> QED
    BY <1>5, <1>7, <1>9, <2>1 DEF PutIn
<1>12. HostBridgeTcpTypeOK'
  <2>1. calls' \in Seq(CallFit) /\ Len(calls') = Len(calls)
    BY <1>0, <1>4, <1>10, <1>11, PutFields
  <2>2. sends' \in 0 .. MaxSends
    BY <1>0, <1>1, HostBridgeTcpAssumption
  <2>3. /\ listening' \in BOOLEAN /\ sock' \in [BridgeEnd -> 0..Len(calls')] /\ accepted' \in 0..Len(calls')
        /\ acc' \in [BridgeEnd -> StreamLines] /\ busy' \subseteq {f \in BridgeEnd : sock'[f] # 0}
        /\ negotiated' \subseteq BridgeEnd
    BY <1>0, <1>1, <2>1
  <2> QED
    BY ONLY <2>1, <2>2, <2>3, StreamIsFit DEF HostBridgeTcpTypeOK, CallFit, StreamLines, Bytes
<1>13. \A d \in DOMAIN calls, g \in BridgeEnd : d # c \/ g # o => Held(d, g)' = Held(d, g)
  BY <1>0, <1>2
<1> QED
  BY <1>4, <1>10, <1>11, <1>12, <1>13, OneStream

LEMMA DeadlinePasses ==
    ASSUME BridgeInv, NEW e \in BridgeEnd, RecvDeadline(e)
    PROVE  BridgeInv'
<1>0. /\ listening \in BOOLEAN
      /\ sock \in [BridgeEnd -> 0..Len(calls)]
      /\ accepted \in 0..Len(calls)
      /\ calls \in Seq(CallFit)
      /\ acc \in [BridgeEnd -> StreamLines]
      /\ busy \subseteq {f \in BridgeEnd : sock[f] # 0}
      /\ negotiated \subseteq BridgeEnd
      /\ sends \in 0..MaxSends
      /\ Len(calls) \in Nat
  BY BridgeTypes DEF BridgeInv
<1>1. /\ e \in busy /\ busy' = busy \ {e} /\ acc' = [acc EXCEPT ![e] = <<>>]
      /\ UNCHANGED <<listening, sock, accepted, negotiated, sends>>
  BY DEF RecvDeadline
<1>2. PICK c : c = sock[e]
  OBVIOUS
<1>3. c \in DOMAIN calls /\ c \in Nat
  BY <1>0, <1>1, <1>2
<1>4. PICK s0 : s0 = calls[c][e]
  OBVIOUS
<1>5. s0 \in StreamFit /\ s0.spoilt \in BOOLEAN
  <2>1. s0 \in StreamFit
    BY <1>0, <1>3, <1>4 DEF CallFit
  <2> QED
    BY <2>1 DEF StreamFit
<1>6. PICK b \in BOOLEAN : b = (s0.spoilt \/ acc[e] # <<>>)
  OBVIOUS
<1>7. PICK s : s = [s0 EXCEPT !.spoilt = b]
  OBVIOUS
<1>8. s \in StreamFit /\ s.spoilt = b /\ s.line = s0.line /\ s.got = s0.got /\ s.sent = s0.sent
  BY ONLY <1>5, <1>7, b \in BOOLEAN, ZenonT(30) DEF StreamFit
<1>9. calls' = PutIn(calls, c, e, s)
  <2>1. calls' = [calls EXCEPT ![c][e].spoilt = @ \/ acc[e] # <<>>]
    BY <1>2 DEF RecvDeadline
  <2> QED
    BY <1>4, <1>6, <1>7, <2>1 DEF PutIn
<1>10. <<>> \in StreamLines /\ Held(c, e) = acc[e]
  BY <1>1, <1>2 DEF StreamLines, Held
<1>11. /\ acc' \in [BridgeEnd -> StreamLines]
       /\ \A f \in BridgeEnd : f # e => acc'[f] = acc[f]
  BY <1>0, <1>1, <1>10
<1>12. HostBridgeTcpTypeOK'
  <2>1. calls' \in Seq(CallFit) /\ Len(calls') = Len(calls)
    BY <1>0, <1>3, <1>8, <1>9, PutFields
  <2>2. /\ listening' \in BOOLEAN /\ sock' \in [BridgeEnd -> 0..Len(calls')] /\ accepted' \in 0..Len(calls')
        /\ busy' \subseteq {f \in BridgeEnd : sock'[f] # 0}
        /\ negotiated' \subseteq BridgeEnd /\ sends' \in 0 .. MaxSends
    BY <1>0, <1>1, <2>1
  <2> QED
    BY ONLY <1>11, <2>1, <2>2, StreamIsFit DEF HostBridgeTcpTypeOK, CallFit, StreamLines, Bytes
<1>13. ASSUME NEW d \in DOMAIN calls, NEW f \in BridgeEnd, d # c \/ f # e PROVE Held(d, f)' = Held(d, f)
  <2>1. CASE f = e
    BY <1>1, <1>2, <1>13, <2>1 DEF Held
  <2>2. CASE f # e
    BY <1>1, <1>11, <2>2 DEF Held
  <2> QED
    BY <2>1, <2>2
<1>14. s.spoilt \/ StreamRight(s, Held(c, e)')
  <2> SUFFICES ASSUME ~b PROVE StreamRight(s, Held(c, e)')
    BY <1>8
  <2>1. Held(c, e)' = <<>> /\ Held(c, e) = <<>>
    BY <1>1, <1>6, <1>10 DEF Held
  <2>2. StreamRight(s0, <<>>)
    BY <1>3, <1>4, <1>6, <2>1 DEF BridgeInv
  <2> QED
    BY <1>8, <2>1, <2>2 DEF StreamRight, Awaited
<1> QED
  BY <1>3, <1>8, <1>9, <1>12, <1>13, <1>14, OneStream

\* The octets of a frame's body.
LEMMA FrameBodyType ==
    ASSUME NEW b \in Seq(Bytes), FrameWhole(b)
    PROVE  FrameBody(b) \in Seq(Bytes) /\ PrefixLength(b) \in Nat
<1>1. Len(b) \in Nat /\ Len(b) >= 4 /\ Len(b) >= 4 + PrefixLength(b)
  BY DEF FrameWhole
<1>2. b[1] \in Nat /\ b[2] \in Nat /\ b[3] \in Nat /\ b[4] \in Nat
  <2>1. \A x \in 1 .. Len(b) : b[x] \in Bytes
    OBVIOUS
  <2>2. 1 \in 1 .. Len(b) /\ 2 \in 1 .. Len(b) /\ 3 \in 1 .. Len(b) /\ 4 \in 1 .. Len(b)
    BY <1>1
  <2>3. b[1] \in Bytes /\ b[2] \in Bytes /\ b[3] \in Bytes /\ b[4] \in Bytes
    BY ONLY <2>1, <2>2
  <2>4. \A x \in Bytes : x \in Nat
    BY DEF Bytes
  <2> QED
    BY ONLY <2>3, <2>4, Zenon
<1>3. PICK n \in Nat : n = PrefixLength(b)
  <2>1. PICK b1, b2, b3, b4 \in Nat : b1 = b[1] /\ b2 = b[2] /\ b3 = b[3] /\ b4 = b[4]
    BY ONLY <1>2, Zenon
  <2>2. \A x, y \in Nat : 256 * x + y \in Nat
    OBVIOUS
  <2>3. 256 * (256 * (256 * b1 + b2) + b3) + b4 \in Nat
    BY ONLY <2>2, b1 \in Nat, b2 \in Nat, b3 \in Nat, b4 \in Nat
  <2> QED
    BY <2>1, <2>3, Zenon DEF PrefixLength
<1>4. PICK u : u = SubSeq(b, 4 + 1, 4 + n)
  OBVIOUS
<1>5. u \in Seq(Bytes)
  <2>1. 4 \in Nat /\ 4 + n \in Nat /\ 4 <= 4 + n /\ 4 + n <= Len(b)
    BY <1>1, <1>3
  <2> QED
    BY ONLY <1>4, <2>1, b \in Seq(Bytes), PartFields
<1> QED
  BY <1>3, <1>4, <1>5 DEF FrameBody

LEMMA Reads ==
    ASSUME BridgeInv, NEW e \in BridgeEnd, e \in busy, NEW n \in 1 .. Len(calls[sock[e]][e].line), RecvChunk(e, n)
    PROVE  BridgeInv'
<1>0. /\ listening \in BOOLEAN
      /\ sock \in [BridgeEnd -> 0..Len(calls)]
      /\ accepted \in 0..Len(calls)
      /\ calls \in Seq(CallFit)
      /\ acc \in [BridgeEnd -> StreamLines]
      /\ busy \subseteq {f \in BridgeEnd : sock[f] # 0}
      /\ negotiated \subseteq BridgeEnd
      /\ sends \in 0..MaxSends
      /\ Len(calls) \in Nat
  BY BridgeTypes DEF BridgeInv
<1>1. PICK c : c = sock[e]
  OBVIOUS
<1>2. c \in DOMAIN calls /\ c \in Nat
  BY <1>0, <1>1
<1>3. PICK s0 : s0 = calls[c][e]
  OBVIOUS
<1>4. /\ s0 \in StreamFit /\ s0.line \in Seq(Bytes) /\ s0.sent \in Seq(Messages) /\ s0.got \in Seq(Seq(Bytes))
      /\ s0.spoilt \in BOOLEAN
  <2>1. s0 \in StreamFit
    BY <1>0, <1>2, <1>3 DEF CallFit
  <2> QED
    BY <2>1 DEF StreamFit, StreamLines, StreamSent, StreamGot
<1>5. PICK h : h = acc[e]
  OBVIOUS
<1>6. h \in Seq(Bytes) /\ Held(c, e) = h
  BY <1>0, <1>1, <1>5 DEF Held, StreamLines
<1>7. PICK piece, rest : piece = SubSeq(s0.line, 1, n) /\ rest = SubSeq(s0.line, n + 1, Len(s0.line))
  OBVIOUS
<1>8. piece \in Seq(Bytes) /\ rest \in Seq(Bytes) /\ piece \o rest = s0.line
  <2>1. PICK N \in Nat : N = Len(s0.line)
    BY <1>4
  <2>2. n \in Nat /\ n <= N
    BY <1>1, <1>3, <2>1
  <2> QED
    BY <1>4, <1>7, <2>1, <2>2, TwoPieces
<1>9. PICK now : now = h \o piece
  OBVIOUS
<1>10. now \in Seq(Bytes) /\ now \o rest = h \o s0.line
  <2>1. now \in Seq(Bytes)
    BY <1>6, <1>8, <1>9, JoinFields
  <2>2. (h \o piece) \o rest = h \o (piece \o rest)
    <3>1. h \in Seq(Bytes) /\ piece \in Seq(Bytes) /\ rest \in Seq(Bytes)
      BY <1>6, <1>8
    <3> QED
      BY ONLY <3>1, ConcatAssociative
  <2> QED
    BY <1>8, <1>9, <2>1, <2>2
<1>11. rest \in StreamLines /\ now \in StreamLines /\ <<>> \in StreamLines
  BY <1>8, <1>10 DEF StreamLines
<1>12. /\ UNCHANGED <<listening, sock, accepted, negotiated, sends>>
       /\ FrameWhole(now) =>
             /\ busy' = busy \ {e}
             /\ acc' = [acc EXCEPT ![e] = <<>>]
             /\ calls' = [calls EXCEPT ![c][e].line = rest, ![c][e].got = Append(@, FrameBody(now)),
                                       ![c][e].spoilt = @ \/ Len(now) > 4 + PrefixLength(now)]
       /\ ~FrameWhole(now) =>
             /\ acc' = [acc EXCEPT ![e] = now]
             /\ calls' = [calls EXCEPT ![c][e].line = rest]
             /\ busy' = busy
  BY <1>1, <1>3, <1>5, <1>7, <1>9 DEF RecvChunk
<1>13. ASSUME calls' \in Seq(CallFit), Len(calls') = Len(calls), acc' \in [BridgeEnd -> StreamLines],
              busy' \subseteq busy
       PROVE  HostBridgeTcpTypeOK'
  <2>1. /\ listening' \in BOOLEAN /\ sock' \in [BridgeEnd -> 0..Len(calls')] /\ accepted' \in 0..Len(calls')
        /\ busy' \subseteq {f \in BridgeEnd : sock'[f] # 0}
        /\ negotiated' \subseteq BridgeEnd /\ sends' \in 0 .. MaxSends
    BY <1>0, <1>12, <1>13
  <2> QED
    BY ONLY <1>13, <2>1, StreamIsFit DEF HostBridgeTcpTypeOK, CallFit, StreamLines, Bytes
<1>14. ASSUME NEW x \in StreamLines, acc' = [acc EXCEPT ![e] = x], busy' = busy \/ busy' = busy \ {e}
       PROVE  /\ acc' \in [BridgeEnd -> StreamLines] /\ acc'[e] = x
              /\ \A d \in DOMAIN calls, f \in BridgeEnd : d # c \/ f # e => Held(d, f)' = Held(d, f)
  <2>1. /\ acc' \in [BridgeEnd -> StreamLines] /\ acc'[e] = x
        /\ \A f \in BridgeEnd : f # e => acc'[f] = acc[f]
    BY <1>0, <1>14
  <2>2. ASSUME NEW d \in DOMAIN calls, NEW f \in BridgeEnd, d # c \/ f # e PROVE Held(d, f)' = Held(d, f)
    <3>1. CASE f = e
      BY <1>1, <1>12, <2>2, <3>1 DEF Held
    <3>2. CASE f # e
      BY <1>12, <1>14, <2>1, <3>2 DEF Held
    <3> QED
      BY <3>1, <3>2
  <2> QED
    BY <2>1, <2>2
<1>15. CASE ~FrameWhole(now)
  <2>1. PICK s : s = [s0 EXCEPT !.line = rest]
    OBVIOUS
  <2>2. s \in StreamFit /\ s.line = rest /\ s.got = s0.got /\ s.sent = s0.sent /\ s.spoilt = s0.spoilt
    BY ONLY <1>4, <1>11, <2>1, ZenonT(30) DEF StreamFit
  <2>3. calls' = PutIn(calls, c, e, s)
    BY <1>3, <1>12, <1>15, <2>1 DEF PutIn
  <2>4. /\ acc' \in [BridgeEnd -> StreamLines] /\ acc'[e] = now /\ busy' = busy
        /\ \A d \in DOMAIN calls, f \in BridgeEnd : d # c \/ f # e => Held(d, f)' = Held(d, f)
    BY <1>11, <1>12, <1>14, <1>15
  <2>5. HostBridgeTcpTypeOK'
    BY <1>0, <1>2, <1>13, <2>2, <2>3, <2>4, PutFields
  <2>6. ASSUME ~s.spoilt PROVE StreamRight(s, Held(c, e)')
    <3>1. Held(c, e)' = now
      BY <1>1, <1>12, <2>4 DEF Held
    <3>2. StreamRight(s0, h)
      BY <1>2, <1>3, <1>6, <2>2, <2>6 DEF BridgeInv
    <3> QED
      BY <1>10, <2>2, <3>1, <3>2 DEF StreamRight, Awaited
  <2>7. s.spoilt \/ StreamRight(s, Held(c, e)')
    BY <2>6
  <2> QED
    BY <1>2, <2>2, <2>3, <2>4, <2>5, <2>7, OneStream
<1>16. CASE FrameWhole(now)
  <2>1. PICK body : body = FrameBody(now)
    OBVIOUS
  <2>2. body \in Seq(Bytes)
    BY <1>10, <1>16, <2>1, FrameBodyType
  <2>3. PICK got : got = Append(s0.got, body)
    OBVIOUS
  <2>4. got \in StreamGot
    BY <1>4, <2>2, <2>3 DEF StreamGot
  <2>5. PICK b \in BOOLEAN : b = (s0.spoilt \/ Len(now) > 4 + PrefixLength(now))
    OBVIOUS
  <2>6. PICK s : s = [s0 EXCEPT !.line = rest, !.got = got, !.spoilt = b]
    OBVIOUS
  <2>7. s \in StreamFit /\ s.line = rest /\ s.got = got /\ s.sent = s0.sent /\ s.spoilt = b
    BY ONLY <1>4, <1>11, <2>4, <2>6, b \in BOOLEAN, ZenonT(30) DEF StreamFit
  <2>8. calls' = PutIn(calls, c, e, s)
    <3>1. calls' = [calls EXCEPT ![c][e].line = rest, ![c][e].got = Append(@, body),
                                 ![c][e].spoilt = @ \/ Len(now) > 4 + PrefixLength(now)]
      BY <1>12, <1>16, <2>1
    <3>2. s = [[[s0 EXCEPT !.line = rest] EXCEPT !.got = got] EXCEPT !.spoilt = b]
      BY <2>6
    <3> QED
      BY ONLY <1>3, <2>3, <2>5, <3>1, <3>2 DEF PutIn
  <2>9. /\ acc' \in [BridgeEnd -> StreamLines] /\ busy' = busy \ {e}
        /\ \A d \in DOMAIN calls, f \in BridgeEnd : d # c \/ f # e => Held(d, f)' = Held(d, f)
    BY <1>11, <1>12, <1>14, <1>16
  <2>10. HostBridgeTcpTypeOK'
    BY <1>0, <1>2, <1>13, <2>7, <2>8, <2>9, PutFields
  <2>11. ASSUME ~b PROVE StreamRight(s, Held(c, e)')
    <3>1. Held(c, e)' = <<>>
      BY <2>9 DEF Held
    <3>2. StreamRight(s0, h)
      BY <1>2, <1>3, <1>6, <2>5, <2>11 DEF BridgeInv
    <3>3. PICK i \in Nat, k \in Nat : i = Len(s0.got) /\ k = Len(s0.sent)
      BY <1>4
    <3>4. i <= k /\ s0.got = SubSeq(s0.sent, 1, i) /\ MadeOf(now \o rest, SubSeq(s0.sent, i + 1, k))
      BY <1>10, <3>2, <3>3 DEF StreamRight, Awaited
    <3>5. PICK ms : ms = SubSeq(s0.sent, i + 1, k)
      OBVIOUS
    <3>14. PICK q : q = s0.sent
      OBVIOUS
    <3>15. q \in Seq(Messages) /\ k = Len(q) /\ ms = SubSeq(q, i + 1, k)
      BY <1>4, <3>3, <3>5, <3>14
    <3>16. i <= k
      BY <3>4
    <3>6. ms \in Seq(Messages) /\ Len(ms) = k - i
      <4>1. k <= Len(q)
        BY <3>15
      <4> QED
        BY ONLY <3>15, <3>16, <4>1, i \in Nat, k \in Nat, PartFields
    <3>7. ms \in Seq(Body)
      BY ONLY <3>6, MessagesBodies, SeqMonotonic
    <3>8. ms # <<>> /\ body = ms[1] /\ MadeOf(rest, SubSeq(ms, 2, Len(ms)))
      <4>1. Len(now) <= 4 + PrefixLength(now)
        <5>1. ~(Len(now) > 4 + PrefixLength(now))
          BY <2>5, <2>11
        <5>2. Len(now) \in Nat /\ PrefixLength(now) \in Nat
          BY <1>10, <1>16, FrameBodyType
        <5> QED
          BY <5>1, <5>2
      <4>2. MadeOf(now \o rest, ms)
        BY <3>4, <3>5
      <4> QED
        BY <1>8, <1>10, <1>16, <2>1, <3>7, <4>1, <4>2, FirstRead
    <3>9. i < k
      BY <3>4, <3>6, <3>8
    <3>10. /\ Len(got) = i + 1 /\ got = SubSeq(s0.sent, 1, i + 1)
           /\ SubSeq(ms, 2, Len(ms)) = SubSeq(s0.sent, (i + 1) + 1, k)
      <4>1. i < Len(q)
        BY <3>9, <3>15
      <4>2. /\ Len(SubSeq(q, 1, i + 1)) = i + 1
            /\ Append(SubSeq(q, 1, i), SubSeq(q, i + 1, Len(q))[1]) = SubSeq(q, 1, i + 1)
            /\ SubSeq(SubSeq(q, i + 1, Len(q)), 2, Len(SubSeq(q, i + 1, Len(q)))) = SubSeq(q, (i + 1) + 1, Len(q))
        BY ONLY <3>15, <4>1, i \in Nat, TakenNext, Zenon
      <4>3. got = Append(SubSeq(q, 1, i), ms[1])
        BY <2>3, <3>4, <3>8, <3>14
      <4> QED
        BY ONLY <3>14, <3>15, <4>2, <4>3, Zenon
    <3>11. Awaited(s) = SubSeq(s0.sent, (i + 1) + 1, k)
      BY <2>7, <3>3, <3>10 DEF Awaited
    <3>12. <<>> \o rest = rest
      BY ONLY <1>8, ConcatEmptySeq
    <3>13. Len(s.got) <= Len(s.sent) /\ s.got = SubSeq(s.sent, 1, Len(s.got))
      BY <2>7, <3>3, <3>9, <3>10
    <3> QED
      BY <2>7, <3>1, <3>8, <3>10, <3>11, <3>12, <3>13 DEF StreamRight
  <2>12. s.spoilt \/ StreamRight(s, Held(c, e)')
    BY <2>7, <2>11
  <2> QED
    BY <1>2, <2>7, <2>8, <2>9, <2>10, <2>12, OneStream
<1> QED
  BY <1>15, <1>16

LEMMA BridgeStepInv == BridgeInv /\ [HostBridgeTcpNext]_bridgeVars => BridgeInv'
<1> SUFFICES ASSUME BridgeInv, [HostBridgeTcpNext]_bridgeVars PROVE BridgeInv'
  OBVIOUS
<1>1. CASE UNCHANGED bridgeVars
  BY <1>1, StreamIsFit DEF bridgeVars, BridgeInv, HostBridgeTcpTypeOK, Held
<1>2. CASE HostBridgeTcpNext
  BY <1>2, SocketsMove, Connects, Sends, SendsRaw, Reads, DeadlinePasses DEF HostBridgeTcpNext
<1> QED
  BY <1>1, <1>2

LEMMA BridgeInvImplies == BridgeInv => HostBridgeTcpTypeOK /\ FramesTakenWhole
  BY DEF BridgeInv, FramesTakenWhole, StreamRight

\* The frames a reader takes are the frames sent to it, in order and whole, however the stream
\* is cut, until a read leaves octets behind; and the types of the bridge.
THEOREM BridgeCorrect == HostBridgeTcpSpec => [](HostBridgeTcpTypeOK /\ FramesTakenWhole)
  BY BridgeInvImplies, BridgeInitInv, BridgeStepInv, PTL DEF HostBridgeTcpSpec

-------------------------------------------------------------------------------
(* The octets the board takes from the CP.  Added to the property: either   *)
(* parser is outside a frame, at its length, or inside a download, where    *)
(* the mark of the header stands.                                          *)

Skips == 0 .. MaxLength
LastOctets == 0 .. NoOctet
FrameStates == [need : BOOLEAN, skip : Skips, hdr : BOOLEAN]
FrameFit(f) == /\ f \in FrameStates
               /\ f = Outside \/ (f.hdr /\ InFrame(f))
CsioFields == [octet : LastOctets, where : {"none", "catalog", "header", "inside", "fill"},
               taken : BOOLEAN, agreed : BOOLEAN, before : LastOctets]
CsioJudges == [last : LastOctets, frame : FrameStates, receiving : BOOLEAN]
CsioInv == /\ judge \in CsioJudges /\ sent \in CsioFields
           /\ FrameFit(judge.frame) /\ FrameFit(cpFrame)
           /\ OctetsJudged

LEMMA OutsideFit == FrameFit(Outside) /\ ~InFrame(Outside)
  BY CsioAssumption DEF FrameFit, FrameStates, Skips, Outside, InFrame

LEMMA ParsedFit ==
    ASSUME NEW f, FrameFit(f), NEW o \in 0 .. 255
    PROVE  /\ FrameFit(Parsed(f, o))
           /\ ~InFrame(f) /\ o # DownloadHeader => Parsed(f, o) = Outside
<1>1. f \in FrameStates /\ f.skip \in 0 .. MaxLength /\ f.skip \in Skips /\ f.need \in BOOLEAN /\ f.hdr \in BOOLEAN
  BY DEF FrameFit, FrameStates, Skips
<1>2. CASE f.skip > 1
  <2>1. f.hdr /\ InFrame(f)
    BY <1>2 DEF FrameFit, Outside
  <2> DEFINE g == [f EXCEPT !.skip = f.skip - 1]
  <2>2. g \in FrameStates /\ g.hdr /\ g.skip > 0
    BY CsioAssumption, <1>1, <1>2, <2>1 DEF FrameStates, Skips
  <2>3. Parsed(f, o) = g
    BY <1>1, <1>2 DEF Parsed
  <2> HIDE DEF g
  <2> QED
    BY <1>1, <1>2, <2>1, <2>2, <2>3 DEF FrameFit, InFrame
<1>3. CASE f.skip = 1
  BY <1>3, OutsideFit DEF Parsed, InFrame
<1>4. CASE f.skip = 0 /\ f.need /\ o \in 3 .. MaxLength
  <2>1. f.hdr
    BY <1>4 DEF FrameFit, Outside
  <2> DEFINE g == [f EXCEPT !.need = FALSE, !.skip = o - 2]
  <2>2. g \in FrameStates /\ g.hdr /\ g.skip > 0
    <3>1. o - 2 \in Skips /\ o - 2 > 0
      BY CsioAssumption, <1>4 DEF Skips
    <3>2. f.hdr = TRUE
      BY <1>1, <2>1
    <3>3. g \in FrameStates /\ g.hdr = f.hdr /\ g.skip = o - 2
      BY ONLY <1>1, <3>1, ZenonT(30) DEF FrameStates
    <3> QED
      BY <3>1, <3>2, <3>3
  <2>3. Parsed(f, o) = g
    BY <1>1, <1>4 DEF Parsed
  <2> HIDE DEF g
  <2> QED
    BY <1>1, <1>4, <2>1, <2>2, <2>3 DEF FrameFit, InFrame
<1>5. CASE f.skip = 0 /\ f.need /\ o \notin 3 .. MaxLength
  BY <1>5, OutsideFit DEF Parsed, InFrame
<1>6. CASE f.skip = 0 /\ ~f.need
  <2> DEFINE g == [Outside EXCEPT !.need = TRUE, !.hdr = TRUE]
  <2>1. FrameFit(g)
    <3>1. Outside \in FrameStates
      BY OutsideFit DEF FrameFit
    <3>2. g \in FrameStates /\ g.hdr = TRUE /\ g.need = TRUE
      BY ONLY <3>1, ZenonT(30) DEF FrameStates
    <3> HIDE DEF g
    <3> QED
      BY <3>2 DEF FrameFit, InFrame
  <2> QED
    BY <1>6, <2>1, OutsideFit DEF Parsed, InFrame
<1> QED
  BY CsioAssumption, <1>1, <1>2, <1>3, <1>4, <1>5, <1>6

LEMMA CsioInitInv == CsioInit => CsioInv
  BY OutsideFit, CsioAssumption DEF CsioInit, CsioInv, CsioJudges, CsioFields, LastOctets, NoOctet, OctetsJudged, Outside, FrameFit

\* What the end of an octet leaves, whoever sent it.
LEMMA OctetEndsFit ==
    ASSUME CsioInv, NEW o \in 0 .. 255, NEW where \in {"catalog", "header", "inside", "fill"},
           OctetEnds(o, where)
    PROVE  \E edges \in EdgesPerOctet :
              /\ judge' \in CsioJudges /\ FrameFit(judge'.frame) /\ sent' \in CsioFields
              /\ sent'.octet = o /\ sent'.where = where /\ sent'.before = judge.last
              /\ sent'.taken = Accepted(o, edges)
              /\ sent'.agreed = (judge.frame = cpFrame)
              /\ sent'.taken => judge'.frame = Parsed(judge.frame, o)
<1>0. /\ judge \in CsioJudges /\ judge.frame \in FrameStates /\ FrameFit(judge.frame)
      /\ judge.last \in LastOctets /\ judge.receiving \in BOOLEAN
  BY DEF CsioInv, CsioJudges
<1>1. PICK edges \in EdgesPerOctet :
         /\ judge' = IF Accepted(o, edges)
                     THEN [judge EXCEPT !.last = o, !.frame = Parsed(judge.frame, o)] ELSE judge
         /\ sent' = [octet |-> o, where |-> where, taken |-> Accepted(o, edges),
                     agreed |-> judge.frame = cpFrame, before |-> judge.last]
  BY DEF OctetEnds
<1>2. PICK ok : ok = Accepted(o, edges)
  OBVIOUS
<1>3. ok \in BOOLEAN
  BY <1>2 DEF Accepted
<1>4. PICK f : f = Parsed(judge.frame, o)
  OBVIOUS
<1>5. FrameFit(f) /\ f \in FrameStates
  BY <1>0, <1>4, ParsedFit DEF FrameFit
<1>6. judge' = IF ok THEN [judge EXCEPT !.last = o, !.frame = f] ELSE judge
  BY <1>1, <1>2, <1>4
<1>7. judge' \in CsioJudges /\ FrameFit(judge'.frame) /\ (ok => judge'.frame = f)
  <2>1. o \in LastOctets
    BY DEF LastOctets, NoOctet
  <2>2. CASE ~ok
    BY <1>0, <1>6, <2>2
  <2>3. CASE ok
    <3>1. judge' = [judge EXCEPT !.last = o, !.frame = f]
      BY <1>6, <2>3
    <3>2. judge' \in CsioJudges /\ judge'.frame = f
      BY ONLY <1>0, <1>5, <2>1, <3>1, ZenonT(30) DEF CsioJudges
    <3> QED
      BY <1>5, <3>2
  <2> QED
    BY <1>3, <2>2, <2>3
<1>8. PICK a \in BOOLEAN : a = (judge.frame = cpFrame)
  OBVIOUS
<1>9. sent' = [octet |-> o, where |-> where, taken |-> ok, agreed |-> a, before |-> judge.last]
  BY <1>1, <1>2, <1>8
<1>10. /\ sent' \in CsioFields /\ sent'.octet = o /\ sent'.where = where /\ sent'.before = judge.last
       /\ sent'.taken = ok /\ sent'.agreed = a
  BY <1>0, <1>3, <1>8, <1>9 DEF CsioFields, LastOctets, NoOctet
<1> QED
  BY <1>2, <1>4, <1>7, <1>8, <1>10

LEMMA CsioStepInv == CsioInv /\ [CsioNext]_csioVars => CsioInv'
<1> SUFFICES ASSUME CsioInv, [CsioNext]_csioVars PROVE CsioInv'
  OBVIOUS
<1>0. /\ judge \in CsioJudges /\ judge.frame \in FrameStates /\ FrameFit(judge.frame)
      /\ judge.last \in 0 .. NoOctet /\ judge.receiving \in BOOLEAN
      /\ FrameFit(cpFrame) /\ cpFrame \in FrameStates
  BY DEF CsioInv, CsioJudges, FrameFit, LastOctets
<1>1. CASE CpQuery
  <2>1. PICK o \in CatalogOctets : OctetEnds(o, "catalog")
    BY <1>1 DEF CpQuery
  <2>2. o \in 0 .. 255 /\ Known(o) /\ o # DownloadHeader /\ ~InFrame(cpFrame) /\ cpFrame' = cpFrame
    BY <1>1, CsioAssumption DEF CpQuery, Known
  <2>3. PICK edges \in EdgesPerOctet :
              /\ judge' \in CsioJudges /\ FrameFit(judge'.frame) /\ sent' \in CsioFields
              /\ sent'.octet = o /\ sent'.where = "catalog" /\ sent'.before = judge.last
              /\ sent'.taken = Accepted(o, edges)
              /\ sent'.agreed = (judge.frame = cpFrame)
              /\ sent'.taken => judge'.frame = Parsed(judge.frame, o)
    BY <2>1, <2>2, OctetEndsFit
  <2>4. sent'.taken
    BY <1>0, <2>2, <2>3 DEF Accepted, FrameFit, InFrame, Outside
  <2>5. sent'.agreed => judge'.frame = cpFrame'
    BY <1>0, <2>2, <2>3, <2>4, ParsedFit DEF FrameFit
  <2> QED
    BY <1>0, <2>2, <2>3, <2>4, <2>5 DEF CsioInv, OctetsJudged
<1>2. CASE CpHeader
  <2>1. PICK o \in OtherHeaders \cup {DownloadHeader} : cpFrame' = Parsed(Outside, o) /\ OctetEnds(o, "header")
    BY <1>2 DEF CpHeader
  <2>2. o \in 0 .. 255 /\ Header(o) /\ ~Known(o) /\ ~InFrame(cpFrame)
    BY <1>2, <2>1, CsioAssumption DEF CpHeader, Known, Header
  <2>3. PICK edges \in EdgesPerOctet :
              /\ judge' \in CsioJudges /\ FrameFit(judge'.frame) /\ sent' \in CsioFields
              /\ sent'.octet = o /\ sent'.where = "header" /\ sent'.before = judge.last
              /\ sent'.taken = Accepted(o, edges)
              /\ sent'.agreed = (judge.frame = cpFrame)
              /\ sent'.taken => judge'.frame = Parsed(judge.frame, o)
    BY <2>1, <2>2, OctetEndsFit
  <2>4. FrameFit(cpFrame')
    BY <2>1, <2>2, OutsideFit, ParsedFit
  <2>5. cpFrame = Outside
    BY <1>0, <2>2 DEF FrameFit
  <2>6. sent'.agreed /\ sent'.taken => judge'.frame = cpFrame'
    BY <2>1, <2>3, <2>5
  <2>7. sent'.agreed /\ ~sent'.taken => sent'.before = sent'.octet \/ edges < 8
    <3> SUFFICES ASSUME sent'.agreed, ~sent'.taken, sent'.before # sent'.octet PROVE edges < 8
      OBVIOUS
    <3>1. ~InFrame(judge.frame) /\ judge.last # o /\ ~Accepted(o, edges)
      BY <2>2, <2>3
    <3> QED
      BY <2>2, <3>1, CsioAssumption DEF Accepted
  <2> QED
    BY <2>3, <2>4, <2>6, <2>7 DEF CsioInv, OctetsJudged
<1>3. CASE CpInside
  <2>1. PICK o \in FrameOctets : cpFrame' = Parsed(cpFrame, o) /\ OctetEnds(o, "inside")
    BY <1>3 DEF CpInside
  <2>2. o \in 0 .. 255 /\ InFrame(cpFrame)
    BY <1>3, CsioAssumption DEF CpInside
  <2>3. PICK edges \in EdgesPerOctet :
              /\ judge' \in CsioJudges /\ FrameFit(judge'.frame) /\ sent' \in CsioFields
              /\ sent'.octet = o /\ sent'.where = "inside" /\ sent'.before = judge.last
              /\ sent'.taken = Accepted(o, edges)
              /\ sent'.agreed = (judge.frame = cpFrame)
              /\ sent'.taken => judge'.frame = Parsed(judge.frame, o)
    BY <2>1, <2>2, OctetEndsFit
  <2>4. FrameFit(cpFrame')
    BY <1>0, <2>1, <2>2, ParsedFit
  <2>5. sent'.agreed => sent'.taken
    <3> SUFFICES ASSUME judge.frame = cpFrame PROVE Accepted(o, edges)
      BY <2>3
    <3> QED
      BY <1>0, <2>2, OutsideFit DEF Accepted, FrameFit
  <2>6. sent'.agreed /\ sent'.taken => judge'.frame = cpFrame'
    BY <2>1, <2>3
  <2> QED
    BY <2>3, <2>4, <2>5, <2>6 DEF CsioInv, OctetsJudged
<1>4. CASE CpFill
  <2>1. PICK o \in FillOctets : OctetEnds(o, "fill")
    BY <1>4 DEF CpFill
  <2>2. o \in 0 .. 255 /\ ~Known(o) /\ ~Header(o) /\ ~InFrame(cpFrame) /\ cpFrame' = cpFrame
    BY <1>4, CsioAssumption DEF CpFill, Known, Header
  <2>3. PICK edges \in EdgesPerOctet :
              /\ judge' \in CsioJudges /\ FrameFit(judge'.frame) /\ sent' \in CsioFields
              /\ sent'.octet = o /\ sent'.where = "fill" /\ sent'.before = judge.last
              /\ sent'.taken = Accepted(o, edges)
              /\ sent'.agreed = (judge.frame = cpFrame)
              /\ sent'.taken => judge'.frame = Parsed(judge.frame, o)
    BY <2>1, <2>2, OctetEndsFit
  <2>4. sent'.agreed => ~sent'.taken
    BY <2>2, <2>3 DEF Accepted
  <2> QED
    BY <1>0, <2>2, <2>3, <2>4 DEF CsioInv, OctetsJudged
<1>5. CASE ReceiveMoves
  <2>1. judge' \in CsioJudges /\ judge'.frame = judge.frame
    BY <1>0, <1>5 DEF ReceiveMoves, CsioJudges
  <2>2. cpFrame' = cpFrame /\ sent' = sent
    BY <1>5 DEF ReceiveMoves
  <2>3. OctetsJudged'
    BY <2>1, <2>2 DEF CsioInv, OctetsJudged
  <2> QED
    BY <1>0, <2>1, <2>2, <2>3 DEF CsioInv
<1>6. CASE UNCHANGED csioVars
  BY <1>6 DEF csioVars, CsioInv, OctetsJudged
<1> QED
  BY <1>1, <1>2, <1>3, <1>4, <1>5, <1>6 DEF CsioNext

LEMMA CsioInvImplies == CsioInv => CsioTypeOK /\ OctetsJudged
  BY DEF CsioInv, CsioTypeOK, CsioJudges, CsioFields, FrameFit, FrameStates, Skips, LastOctets

\* Queries are always taken; an octet of a frame the board knows of is taken and fill is not, and
\* board and CP part only over a refused header: OctetsJudged, for every set of octets and of
\* edge counts.  With the types of CsioTypeOK.
THEOREM CsioCorrect == CsioSpec => [](CsioTypeOK /\ OctetsJudged)
  BY CsioInvImplies, CsioInitInv, CsioStepInv, PTL DEF CsioSpec
===============================================================================
