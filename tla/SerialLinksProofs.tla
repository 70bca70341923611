--------------------------- MODULE SerialLinksProofs ---------------------------
(***************************************************************************)
(* Proofs about the two serial links, for every width, data set, set of    *)
(* commands, queue bound and size of the NVRAM.  The byte link: its type,  *)
(* the RTS invariant, and that it implements TwoClassFifo step by step.    *)
(* The EEPROM: the registers keep their type, the chip stays in step with  *)
(* its host, the mirror agrees, and the whole implements the store of      *)
(* words.  Behind one clock: what is proved of each on its own holds of    *)
(* the behaviours that exercise either.                                    *)
(***************************************************************************)
EXTENDS SerialLinks, TLAPS

-------------------------------------------------------------------------------
(* The byte link.  *)

\* A byte sits in the queue of its own class: ipcomm_queue_rx_byte and the priming of the register
\* never move it to the other.
Classed(l) == /\ \A i \in 1 .. Len(l.prio) : l.prio[i].class = "prio"
              /\ \A i \in 1 .. Len(l.norm) : l.norm[i].class = "norm"
ClassInv == Classed(link)

\* The fields of a link have their types.
LEMMA LinkFields ==
    \A l \in Link : /\ l.prio \in Seq(Byte)
                    /\ l.norm \in Seq(Byte)
                    /\ l.shift \in Byte \cup {NoByte}
                    /\ l.bit \in 0 .. OctetBits - 1
                    /\ l.rts \in BOOLEAN
  BY DEF Link

\* Priming the register (prime_ipcomm_rx_shift_from_queues) yields a link.
LEMMA PrimeType == \A l \in Link : Prime(l) \in Link
<1> SUFFICES ASSUME NEW l \in Link PROVE Prime(l) \in Link
  OBVIOUS
<1> USE LinkFields
<1>0. 0 \in 0 .. OctetBits - 1
  BY OctetBitsAssumption
<1>1. CASE l.shift # NoByte
  BY <1>1 DEF Prime
<1>2. CASE l.shift = NoByte /\ l.prio # <<>>
  <2>1. Head(l.prio) \in Byte /\ Tail(l.prio) \in Seq(Byte)
    BY <1>2
  <2>2. Prime(l) = [l EXCEPT !.shift = Head(l.prio), !.bit = 0, !.rts = TRUE, !.prio = Tail(l.prio)]
    BY <1>2 DEF Prime, Loaded, Link
  <2> QED
    BY <1>0, <2>1, <2>2 DEF Link
<1>3. CASE l.shift = NoByte /\ l.prio = <<>> /\ l.norm # <<>>
  <2>1. Head(l.norm) \in Byte /\ Tail(l.norm) \in Seq(Byte)
    BY <1>3
  <2>2. Prime(l) = [l EXCEPT !.shift = Head(l.norm), !.bit = 0, !.rts = TRUE, !.norm = Tail(l.norm)]
    BY <1>3 DEF Prime, Loaded, Link
  <2> QED
    BY <1>0, <2>1, <2>2 DEF Link
<1>4. CASE l.shift = NoByte /\ l.prio = <<>> /\ l.norm = <<>>
  BY <1>4 DEF Prime, Link
<1> QED
  BY <1>1, <1>2, <1>3, <1>4

\* So does queueing bytes in either class.
LEMMA QueueType ==
    \A l \in Link, bs \in Seq(Byte) : QueuePrio(l, bs) \in Link /\ QueueNorm(l, bs) \in Link
<1> SUFFICES ASSUME NEW l \in Link, NEW bs \in Seq(Byte)
             PROVE  QueuePrio(l, bs) \in Link /\ QueueNorm(l, bs) \in Link
  OBVIOUS
<1>1. l.prio \o bs \in Seq(Byte) /\ l.norm \o bs \in Seq(Byte)
  BY LinkFields
<1>2. [l EXCEPT !.prio = @ \o bs] \in Link
  BY <1>1 DEF Link
<1>3. [l EXCEPT !.norm = @ \o bs] \in Link
  BY <1>1 DEF Link
<1> QED
  BY <1>2, <1>3, PrimeType DEF QueuePrio, QueueNorm

\* So does completing an octet.
LEMMA ShiftedType == \A l \in Link : Shifted(l) \in Link
<1> SUFFICES ASSUME NEW l \in Link PROVE Shifted(l) \in Link
  OBVIOUS
<1>1. 0 \in 0 .. OctetBits - 1
  BY OctetBitsAssumption
<1>2. [l EXCEPT !.shift = NoByte, !.bit = 0] \in Link
  BY <1>1 DEF Link
<1> QED
  BY <1>2, PrimeType DEF Shifted

\* So does one clock edge.
LEMMA ClockedType == \A l \in Link : Clocked(l) \in Link
<1> SUFFICES ASSUME NEW l \in Link PROVE Clocked(l) \in Link
  OBVIOUS
<1>1. CASE (l.bit + 1) % OctetBits = 0
  BY <1>1, ShiftedType DEF Clocked
<1>2. CASE (l.bit + 1) % OctetBits # 0
  <2>1. l.bit \in 0 .. OctetBits - 1
    BY DEF Link
  <2>2. l.bit + 1 # OctetBits
    BY <1>2, <2>1, OctetBitsAssumption
  <2>3. l.bit + 1 \in 0 .. OctetBits - 1
    BY <2>1, <2>2, OctetBitsAssumption
  <2> QED
    BY <1>2, <2>3 DEF Clocked, Link
<1> QED
  BY <1>1, <1>2

LEMMA InitType == Init => TypeOK
  BY OctetBitsAssumption DEF Init, TypeOK, IdleLink, Link

LEMMA StepType == TypeOK /\ [Next]_vars => TypeOK'
<1> SUFFICES ASSUME TypeOK, [Next]_vars PROVE TypeOK'
  OBVIOUS
<1> USE DEF TypeOK
<1>1. ASSUME NEW b \in Byte, Queue(b) PROVE TypeOK'
  <2>1. <<b>> \in Seq(Byte)
    OBVIOUS
  <2> QED
    BY <1>1, <2>1, QueueType DEF Queue, Queued
<1>2. CASE SclkRise
  BY <1>2, ClockedType DEF SclkRise
<1>3. CASE Reset
  BY <1>3, OctetBitsAssumption DEF Reset, IdleLink, Link
<1>4. CASE UNCHANGED vars
  BY <1>4 DEF vars
<1> QED
  BY <1>1, <1>2, <1>3, <1>4 DEF Next

\* The type invariant holds in every reachable state.
THEOREM LinkTypeCorrect == Spec => []TypeOK
  BY InitType, StepType, PTL DEF Spec

-------------------------------------------------------------------------------

\* Priming leaves nothing stranded and RTS exact, whatever the link was, as long
\* as an occupied register had RTS up.
LEMMA PrimeLinkOK ==
    \A l \in Link : (l.shift # NoByte => l.rts) => LinkOK(Prime(l))
<1> SUFFICES ASSUME NEW l \in Link, l.shift # NoByte => l.rts PROVE LinkOK(Prime(l))
  OBVIOUS
<1> USE LinkFields DEF LinkOK, NothingStranded, RtsExact
<1>1. CASE l.shift # NoByte
  BY <1>1 DEF Prime
<1>2. CASE l.shift = NoByte /\ l.prio # <<>>
  <2>1. Head(l.prio) # NoByte
    BY <1>2, NoByteAssumption
  <2>2. Prime(l).shift = Head(l.prio) /\ Prime(l).rts = TRUE
    BY <1>2 DEF Prime, Loaded, Link
  <2> QED
    BY <2>1, <2>2
<1>3. CASE l.shift = NoByte /\ l.prio = <<>> /\ l.norm # <<>>
  <2>1. Head(l.norm) # NoByte
    BY <1>3, NoByteAssumption
  <2>2. Prime(l).shift = Head(l.norm) /\ Prime(l).rts = TRUE
    BY <1>3 DEF Prime, Loaded, Link
  <2> QED
    BY <2>1, <2>2
<1>4. CASE l.shift = NoByte /\ l.prio = <<>> /\ l.norm = <<>>
  BY <1>4 DEF Prime, Link
<1> QED
  BY <1>1, <1>2, <1>3, <1>4

\* Queueing keeps LinkOK.
LEMMA QueueLinkOK ==
    \A l \in Link, bs \in Seq(Byte) :
        LinkOK(l) => LinkOK(QueuePrio(l, bs)) /\ LinkOK(QueueNorm(l, bs))
<1> SUFFICES ASSUME NEW l \in Link, NEW bs \in Seq(Byte), LinkOK(l)
             PROVE  LinkOK(QueuePrio(l, bs)) /\ LinkOK(QueueNorm(l, bs))
  OBVIOUS
<1> DEFINE p == [l EXCEPT !.prio = @ \o bs]
           n == [l EXCEPT !.norm = @ \o bs]
<1>1. l.prio \o bs \in Seq(Byte) /\ l.norm \o bs \in Seq(Byte)
  BY LinkFields
<1>2. p \in Link /\ n \in Link
  BY <1>1 DEF Link
<1>3. /\ p.shift = l.shift /\ p.rts = l.rts
      /\ n.shift = l.shift /\ n.rts = l.rts
  BY DEF Link
<1> QED
  BY <1>2, <1>3, PrimeLinkOK DEF QueuePrio, QueueNorm, LinkOK, RtsExact

\* Completing an octet leaves LinkOK, from any link.
LEMMA ShiftedLinkOK == \A l \in Link : LinkOK(Shifted(l))
<1> SUFFICES ASSUME NEW l \in Link PROVE LinkOK(Shifted(l))
  OBVIOUS
<1> DEFINE m == [l EXCEPT !.shift = NoByte, !.bit = 0]
<1>1. 0 \in 0 .. OctetBits - 1
  BY OctetBitsAssumption
<1>2. m \in Link /\ m.shift = NoByte
  BY <1>1 DEF Link
<1> QED
  BY <1>2, PrimeLinkOK DEF Shifted

LEMMA InitRts == Init => LinkInv
  BY DEF Init, LinkInv, IdleLink, LinkOK, NothingStranded, RtsExact

LEMMA StepRts == TypeOK /\ LinkInv /\ [Next]_vars => LinkInv'
<1> SUFFICES ASSUME TypeOK, LinkInv, [Next]_vars PROVE LinkInv'
  OBVIOUS
<1> USE DEF TypeOK, LinkInv
<1>1. ASSUME NEW b \in Byte, Queue(b) PROVE LinkInv'
  <2>1. <<b>> \in Seq(Byte)
    OBVIOUS
  <2> QED
    BY <1>1, <2>1, QueueLinkOK DEF Queue, Queued
<1>2. CASE SclkRise
  <2>1. CASE (link.bit + 1) % OctetBits = 0
    BY <1>2, <2>1, ShiftedLinkOK DEF SclkRise, Clocked
  <2>2. CASE (link.bit + 1) % OctetBits # 0
    <3>1. link' = [link EXCEPT !.bit = @ + 1]
      BY <1>2, <2>2 DEF SclkRise, Clocked
    <3> QED
      BY <3>1 DEF LinkOK, NothingStranded, RtsExact, Link
  <2> QED
    BY <2>1, <2>2
<1>3. CASE Reset
  BY <1>3 DEF Reset, IdleLink, LinkOK, NothingStranded, RtsExact
<1>4. CASE UNCHANGED vars
  BY <1>4 DEF vars
<1> QED
  BY <1>1, <1>2, <1>3, <1>4 DEF Next

\* RTS is up exactly while a byte waits and no byte is stranded, in every
\* reachable state.
THEOREM RtsCorrect == Spec => []LinkInv
  BY InitType, StepType, InitRts, StepRts, PTL DEF Spec

-------------------------------------------------------------------------------

\* Priming moves a byte from the head of its own class's queue to the register:
\* what is in flight in either class is the same before and after.
LEMMA PrimeKeepsTraffic ==
    \A l \in Link : Classed(l) =>
        /\ Classed(Prime(l))
        /\ \A c \in Class : OfClass(Prime(l), c) = OfClass(l, c)
<1> SUFFICES ASSUME NEW l \in Link, Classed(l)
             PROVE  /\ Classed(Prime(l))
                    /\ \A c \in Class : OfClass(Prime(l), c) = OfClass(l, c)
  OBVIOUS
<1> USE LinkFields
<1>1. CASE l.shift # NoByte
  BY <1>1 DEF Prime
<1>2. CASE l.shift = NoByte /\ l.prio # <<>>
  <2>1. /\ Prime(l).shift = Head(l.prio) /\ Prime(l).prio = Tail(l.prio)
        /\ Prime(l).norm = l.norm
    BY <1>2 DEF Prime, Loaded, Link
  <2>2. Head(l.prio) \in Byte /\ Head(l.prio) = l.prio[1] /\ 1 \in 1 .. Len(l.prio)
    BY <1>2
  <2>3. Head(l.prio).class = "prio" /\ Head(l.prio) # NoByte
    BY <2>2, NoByteAssumption DEF Classed
  <2>4. \A i \in 1 .. Len(Tail(l.prio)) : Tail(l.prio)[i] = l.prio[i + 1] /\ i + 1 \in 1 .. Len(l.prio)
    BY <1>2
  <2>5. Classed(Prime(l))
    BY <2>1, <2>4 DEF Classed
  <2>6. <<Head(l.prio)>> \o Tail(l.prio) = l.prio
    BY <1>2
  <2>7. OfClass(Prime(l), "prio") = OfClass(l, "prio")
    <3>1. OfClass(Prime(l), "prio") = <<Head(l.prio)>> \o Tail(l.prio)
      BY <2>1, <2>3 DEF OfClass
    <3>2. OfClass(l, "prio") = <<>> \o l.prio
      BY <1>2 DEF OfClass
    <3> QED
      BY <3>1, <3>2, <2>6
  <2>8. OfClass(Prime(l), "norm") = OfClass(l, "norm")
    BY <1>2, <2>1, <2>3 DEF OfClass
  <2> QED
    BY <2>5, <2>7, <2>8 DEF Class
<1>3. CASE l.shift = NoByte /\ l.prio = <<>> /\ l.norm # <<>>
  <2>1. /\ Prime(l).shift = Head(l.norm) /\ Prime(l).norm = Tail(l.norm)
        /\ Prime(l).prio = l.prio
    BY <1>3 DEF Prime, Loaded, Link
  <2>2. Head(l.norm) \in Byte /\ Head(l.norm) = l.norm[1] /\ 1 \in 1 .. Len(l.norm)
    BY <1>3
  <2>3. Head(l.norm).class = "norm" /\ Head(l.norm) # NoByte
    BY <2>2, NoByteAssumption DEF Classed
  <2>4. \A i \in 1 .. Len(Tail(l.norm)) : Tail(l.norm)[i] = l.norm[i + 1] /\ i + 1 \in 1 .. Len(l.norm)
    BY <1>3
  <2>5. Classed(Prime(l))
    BY <2>1, <2>4 DEF Classed
  <2>6. <<Head(l.norm)>> \o Tail(l.norm) = l.norm
    BY <1>3
  <2>7. OfClass(Prime(l), "norm") = OfClass(l, "norm")
    <3>1. OfClass(Prime(l), "norm") = <<Head(l.norm)>> \o Tail(l.norm)
      BY <2>1, <2>3 DEF OfClass
    <3>2. OfClass(l, "norm") = <<>> \o l.norm
      BY <1>3 DEF OfClass
    <3> QED
      BY <3>1, <3>2, <2>6
  <2>8. OfClass(Prime(l), "prio") = OfClass(l, "prio")
    BY <1>3, <2>1, <2>3 DEF OfClass
  <2> QED
    BY <2>5, <2>7, <2>8 DEF Class
<1>4. CASE l.shift = NoByte /\ l.prio = <<>> /\ l.norm = <<>>
  <2>1. Prime(l).shift = l.shift /\ Prime(l).prio = l.prio /\ Prime(l).norm = l.norm
    BY <1>4 DEF Prime, Link
  <2> QED
    BY <2>1 DEF OfClass, Classed
<1> QED
  BY <1>1, <1>2, <1>3, <1>4

\* What is in flight in a class is a sequence of bytes.
LEMMA OfClassType == \A l \in Link, c \in Class : OfClass(l, c) \in Seq(Byte)
<1> SUFFICES ASSUME NEW l \in Link, NEW c \in Class PROVE OfClass(l, c) \in Seq(Byte)
  OBVIOUS
<1> USE LinkFields
<1>1. (IF c = "prio" THEN l.prio ELSE l.norm) \in Seq(Byte)
  OBVIOUS
<1>2. (IF l.shift # NoByte /\ l.shift.class = c THEN <<l.shift>> ELSE <<>>) \in Seq(Byte)
  OBVIOUS
<1> QED
  BY <1>1, <1>2 DEF OfClass

\* Appending after the concatenation is concatenating with the appended.
LEMMA AppendAssoc ==
    \A s, t \in Seq(Byte), b \in Byte : s \o (t \o <<b>>) = Append(s \o t, b)
  OBVIOUS

\* Queueing one byte appends it to its own class and leaves the other alone.
LEMMA QueueAppends ==
    \A l \in Link, b \in Byte : Classed(l) =>
        /\ Classed(Queued(l, b))
        /\ OfClass(Queued(l, b), b.class) = Append(OfClass(l, b.class), b)
        /\ \A k \in Class \ {b.class} : OfClass(Queued(l, b), k) = OfClass(l, k)
<1> SUFFICES ASSUME NEW l \in Link, NEW b \in Byte, Classed(l)
             PROVE  /\ Classed(Queued(l, b))
                    /\ OfClass(Queued(l, b), b.class) = Append(OfClass(l, b.class), b)
                    /\ \A k \in Class \ {b.class} : OfClass(Queued(l, b), k) = OfClass(l, k)
  OBVIOUS
<1> USE LinkFields
<1> DEFINE reg(c) == IF l.shift # NoByte /\ l.shift.class = c THEN <<l.shift>> ELSE <<>>
<1>0. b.class \in Class
  BY DEF Byte
<1>1. \A c \in Class : reg(c) \in Seq(Byte)
  OBVIOUS
<1>2. CASE b.class = "prio"
  <2> DEFINE n == [l EXCEPT !.prio = @ \o <<b>>]
  <2>1. l.prio \o <<b>> \in Seq(Byte)
    OBVIOUS
  <2>2. n \in Link /\ n.shift = l.shift /\ n.prio = l.prio \o <<b>> /\ n.norm = l.norm
    BY <2>1 DEF Link
  <2>3. Classed(n)
    BY <1>2, <2>2 DEF Classed
  <2> HIDE DEF n
  <2>4. OfClass(n, "norm") = OfClass(l, "norm")
    BY <2>2 DEF OfClass
  <2>5. OfClass(n, "prio") = Append(OfClass(l, "prio"), b)
    <3>1. OfClass(n, "prio") = reg("prio") \o (l.prio \o <<b>>)
      BY <2>2 DEF OfClass
    <3>2. OfClass(l, "prio") = reg("prio") \o l.prio
      BY DEF OfClass
    <3>3. reg("prio") \in Seq(Byte) /\ l.prio \in Seq(Byte)
      BY <1>1 DEF Class
    <3> HIDE DEF reg
    <3>4. reg("prio") \o (l.prio \o <<b>>) = Append(reg("prio") \o l.prio, b)
      BY ONLY <3>3, AppendAssoc, b \in Byte
    <3> QED
      BY <3>1, <3>2, <3>4
  <2>6. Queued(l, b) = Prime(n)
    BY <1>2 DEF Queued, QueuePrio, n
  <2>7. Classed(Queued(l, b)) /\ \A k \in Class : OfClass(Queued(l, b), k) = OfClass(n, k)
    BY <2>2, <2>3, <2>6, PrimeKeepsTraffic
  <2> QED
    BY <1>2, <2>4, <2>5, <2>7 DEF Class
<1>3. CASE b.class = "norm"
  <2> DEFINE n == [l EXCEPT !.norm = @ \o <<b>>]
  <2>1. l.norm \o <<b>> \in Seq(Byte)
    OBVIOUS
  <2>2. n \in Link /\ n.shift = l.shift /\ n.norm = l.norm \o <<b>> /\ n.prio = l.prio
    BY <2>1 DEF Link
  <2>3. Classed(n)
    BY <1>3, <2>2 DEF Classed
  <2> HIDE DEF n
  <2>4. OfClass(n, "prio") = OfClass(l, "prio")
    BY <2>2 DEF OfClass
  <2>5. OfClass(n, "norm") = Append(OfClass(l, "norm"), b)
    <3>1. OfClass(n, "norm") = reg("norm") \o (l.norm \o <<b>>)
      BY <2>2 DEF OfClass
    <3>2. OfClass(l, "norm") = reg("norm") \o l.norm
      BY DEF OfClass
    <3>3. reg("norm") \in Seq(Byte) /\ l.norm \in Seq(Byte)
      BY <1>1 DEF Class
    <3> HIDE DEF reg
    <3>4. reg("norm") \o (l.norm \o <<b>>) = Append(reg("norm") \o l.norm, b)
      BY ONLY <3>3, AppendAssoc, b \in Byte
    <3> QED
      BY <3>1, <3>2, <3>4
  <2>6. Queued(l, b) = Prime(n)
    BY <1>3 DEF Queued, QueueNorm, n
  <2>7. Classed(Queued(l, b)) /\ \A k \in Class : OfClass(Queued(l, b), k) = OfClass(n, k)
    BY <2>2, <2>3, <2>6, PrimeKeepsTraffic
  <2> QED
    BY <1>3, <2>4, <2>5, <2>7 DEF Class
<1> QED
  BY <1>0, <1>2, <1>3 DEF Class

\* Completing an octet takes the head of the class the register served and
\* leaves the other class alone.
LEMMA ShiftedTakes ==
    \A l \in Link : Classed(l) /\ l.shift # NoByte =>
        /\ Classed(Shifted(l))
        /\ OfClass(l, l.shift.class) # <<>>
        /\ OfClass(Shifted(l), l.shift.class) = Tail(OfClass(l, l.shift.class))
        /\ \A k \in Class \ {l.shift.class} : OfClass(Shifted(l), k) = OfClass(l, k)
<1> SUFFICES ASSUME NEW l \in Link, Classed(l), l.shift # NoByte
             PROVE  /\ Classed(Shifted(l))
                    /\ OfClass(l, l.shift.class) # <<>>
                    /\ OfClass(Shifted(l), l.shift.class) = Tail(OfClass(l, l.shift.class))
                    /\ \A k \in Class \ {l.shift.class} : OfClass(Shifted(l), k) = OfClass(l, k)
  OBVIOUS
<1> USE LinkFields
<1> DEFINE m == [l EXCEPT !.shift = NoByte, !.bit = 0]
           q(c) == IF c = "prio" THEN l.prio ELSE l.norm
<1>0. 0 \in 0 .. OctetBits - 1
  BY OctetBitsAssumption
<1>1. l.shift \in Byte /\ l.shift.class \in Class
  BY DEF Byte
<1>2. m \in Link /\ m.shift = NoByte /\ m.prio = l.prio /\ m.norm = l.norm
  BY <1>0 DEF Link
<1> HIDE DEF m
<1>3. Classed(m)
  BY <1>2 DEF Classed
<1>4. \A k \in Class : q(k) \in Seq(Byte) /\ OfClass(m, k) = q(k)
  BY <1>2 DEF OfClass
<1>5. OfClass(l, l.shift.class) = <<l.shift>> \o q(l.shift.class)
  BY DEF OfClass
<1>6. OfClass(l, l.shift.class) # <<>> /\ Tail(OfClass(l, l.shift.class)) = q(l.shift.class)
  BY <1>1, <1>4, <1>5
<1>7. \A k \in Class \ {l.shift.class} : OfClass(l, k) = q(k)
  <2> SUFFICES ASSUME NEW k \in Class, k # l.shift.class PROVE OfClass(l, k) = q(k)
    OBVIOUS
  <2>1. OfClass(l, k) = <<>> \o q(k)
    BY DEF OfClass
  <2>2. q(k) \in Seq(Byte)
    BY <1>4
  <2> HIDE DEF q
  <2> QED
    BY <2>1, <2>2
<1>8. Shifted(l) = Prime(m)
  BY DEF Shifted, m
<1>9. Classed(Shifted(l)) /\ \A k \in Class : OfClass(Shifted(l), k) = OfClass(m, k)
  BY <1>2, <1>3, <1>8, PrimeKeepsTraffic
<1> QED
  BY <1>1, <1>4, <1>6, <1>7, <1>9

\* Under LinkInv the line tells whether either class still has traffic.
LEMMA RtsIsWaiting ==
    \A l \in Link : LinkOK(l) => (l.rts <=> \E c \in Class : OfClass(l, c) # <<>>)
<1> SUFFICES ASSUME NEW l \in Link, LinkOK(l)
             PROVE  l.rts <=> \E c \in Class : OfClass(l, c) # <<>>
  OBVIOUS
<1> USE LinkFields
<1>1. CASE l.shift # NoByte
  <2>1. l.shift.class \in Class
    BY <1>1 DEF Byte
  <2>2. (IF l.shift.class = "prio" THEN l.prio ELSE l.norm) \in Seq(Byte)
    OBVIOUS
  <2>3. OfClass(l, l.shift.class) # <<>>
    BY <1>1, <2>2 DEF OfClass
  <2> QED
    BY <1>1, <2>1, <2>3 DEF LinkOK, RtsExact
<1>2. CASE l.shift = NoByte
  <2>1. l.prio = <<>> /\ l.norm = <<>>
    BY <1>2 DEF LinkOK, NothingStranded
  <2>2. \A c \in Class : OfClass(l, c) = <<>>
    BY <1>2, <2>1 DEF OfClass
  <2> QED
    BY <1>2, <2>2 DEF LinkOK, RtsExact
<1> QED
  BY <1>1, <1>2

LEMMA InitClass == Init => ClassInv
  BY DEF Init, IdleLink, ClassInv, Classed

LEMMA StepClass == TypeOK /\ ClassInv /\ [Next]_vars => ClassInv'
<1> SUFFICES ASSUME TypeOK, ClassInv, [Next]_vars PROVE ClassInv'
  OBVIOUS
<1> USE DEF TypeOK, ClassInv
<1>1. ASSUME NEW b \in Byte, Queue(b) PROVE ClassInv'
  BY <1>1, QueueAppends DEF Queue
<1>2. CASE SclkRise
  <2>1. CASE (link.bit + 1) % OctetBits = 0
    BY <1>2, <2>1, ShiftedTakes DEF SclkRise, Clocked
  <2>2. CASE (link.bit + 1) % OctetBits # 0
    <3>1. link'.prio = link.prio /\ link'.norm = link.norm
      BY <1>2, <2>2 DEF SclkRise, Clocked, Link
    <3> QED
      BY <3>1 DEF Classed
  <2> QED
    BY <2>1, <2>2
<1>3. CASE Reset
  BY <1>3 DEF Reset, IdleLink, Classed
<1>4. CASE UNCHANGED vars
  BY <1>4 DEF vars
<1> QED
  BY <1>1, <1>2, <1>3, <1>4 DEF Next

LinkStrong == TypeOK /\ LinkInv /\ ClassInv

LEMMA LinkStrongHolds == Spec => []LinkStrong
  BY InitType, StepType, InitRts, StepRts, InitClass, StepClass, PTL DEF Spec, LinkStrong

LEMMA InitFifo == Init => Fifo!Init
  BY DEF Init, IdleLink, Fifo!Init, OfClass, Class

LEMMA StepFifo == LinkStrong /\ LinkStrong' /\ [Next]_vars => [Fifo!Next]_(Fifo!vars)
<1> SUFFICES ASSUME LinkStrong, LinkStrong', [Next]_vars PROVE [Fifo!Next]_(Fifo!vars)
  OBVIOUS
<1> USE DEF LinkStrong, TypeOK, LinkInv, ClassInv
<1> DEFINE f == [c \in Class |-> OfClass(link, c)]
           g == [c \in Class |-> OfClass(link', c)]
<1>1. ASSUME NEW b \in Byte, Queue(b) PROVE Fifo!Next
  <2>1. /\ OfClass(link', b.class) = Append(OfClass(link, b.class), b)
        /\ \A k \in Class \ {b.class} : OfClass(link', k) = OfClass(link, k)
    BY <1>1, QueueAppends DEF Queue
  <2>2. b.class \in Class
    BY DEF Byte
  <2>3. g = [f EXCEPT ![b.class] = Append(@, b)]
    BY <2>1, <2>2
  <2>4. OfClass(link', b.class) # <<>>
    BY <2>1, <2>2, OfClassType
  <2>5. link'.rts = TRUE
    BY <2>2, <2>4, RtsIsWaiting DEF Link
  <2>6. Fifo!Put(b.class, b)
    BY <2>3, <2>5 DEF Fifo!Put
  <2> QED
    BY <2>2, <2>6 DEF Fifo!Next
<1>2. CASE SclkRise /\ (link.bit + 1) % OctetBits = 0
  <2> DEFINE c == link.shift.class
  <2>1. link' = Shifted(link) /\ link.shift # NoByte
    BY <1>2 DEF SclkRise, Clocked
  <2>2. c \in Class
    BY <2>1, LinkFields DEF Byte
  <2>3. /\ OfClass(link, c) # <<>>
        /\ OfClass(link', c) = Tail(OfClass(link, c))
        /\ \A k \in Class \ {c} : OfClass(link', k) = OfClass(link, k)
    BY <2>1, ShiftedTakes
  <2>4. g = [f EXCEPT ![c] = Tail(@)]
    BY <2>2, <2>3
  <2>5. link'.rts = (\E k \in Class : g[k] # <<>>)
    BY RtsIsWaiting DEF Link
  <2>6. Fifo!Get(c)
    BY <2>2, <2>3, <2>4, <2>5 DEF Fifo!Get, Fifo!Waiting
  <2> QED
    BY <2>2, <2>6 DEF Fifo!Next
<1>3. CASE SclkRise /\ (link.bit + 1) % OctetBits # 0
  <2>1. /\ link'.prio = link.prio /\ link'.norm = link.norm
        /\ link'.shift = link.shift /\ link'.rts = link.rts
    BY <1>3 DEF SclkRise, Clocked, Link
  <2>2. g = f
    BY <2>1 DEF OfClass
  <2> QED
    BY <2>1, <2>2 DEF Fifo!vars
<1>4. CASE Reset
  <2>1. g = [c \in Class |-> <<>>] /\ link'.rts = FALSE
    BY <1>4 DEF Reset, IdleLink, OfClass
  <2>2. Fifo!Clear
    BY <2>1 DEF Fifo!Clear
  <2> QED
    BY <2>2 DEF Fifo!Next
<1>5. CASE UNCHANGED vars
  BY <1>5 DEF vars, Fifo!vars
<1> QED
  BY <1>1, <1>2, <1>3, <1>4, <1>5 DEF Next

\* The queue discipline of the code, step by step, is that of two loss-free
\* FIFOs with an exact request line (the safety part of FifoSpec; delivery under
\* fairness is model-checked).
THEOREM ImplementsFifo == Spec => Fifo!Init /\ [][Fifo!Next]_(Fifo!vars)
  BY InitFifo, StepFifo, LinkStrongHolds, PTL DEF Spec

-------------------------------------------------------------------------------

\* Priming takes a normal byte only from a link without priority bytes.
LEMMA PrimePriority ==
    \A l \in Link : Classed(l) /\ Prime(l).shift # l.shift /\ Prime(l).shift # NoByte
                       /\ Prime(l).shift.class = "norm" => Prime(l).prio = <<>>
<1> SUFFICES ASSUME NEW l \in Link, Classed(l), Prime(l).shift # l.shift,
                    Prime(l).shift.class = "norm"
             PROVE  Prime(l).prio = <<>>
  OBVIOUS
<1>1. CASE l.prio # <<>>
  <2>1. Head(l.prio) = l.prio[1] /\ 1 \in 1 .. Len(l.prio)
    BY <1>1, LinkFields
  <2>2. Prime(l).shift = Head(l.prio)
    BY <1>1 DEF Prime, Loaded, Link
  <2> QED
    BY <2>1, <2>2 DEF Classed
<1>2. CASE l.prio = <<>>
  BY <1>2 DEF Prime, Loaded, Link
<1> QED
  BY <1>1, <1>2

LEMMA StepPriority ==
    ASSUME LinkStrong, [Next]_vars
    PROVE  link'.shift # link.shift /\ link'.shift # NoByte /\ link'.shift.class = "norm"
              => link'.prio = <<>>
<1> USE LinkFields DEF LinkStrong, TypeOK, ClassInv
<1>1. ASSUME NEW b \in Byte, Queue(b), b.class = "prio"
      PROVE  link'.shift # link.shift /\ link'.shift # NoByte /\ link'.shift.class = "norm"
                => link'.prio = <<>>
  <2> DEFINE m == [link EXCEPT !.prio = @ \o <<b>>]
  <2>1. link.prio \o <<b>> \in Seq(Byte)
    OBVIOUS
  <2>3. m \in Link /\ m.shift = link.shift /\ m.prio = link.prio \o <<b>> /\ m.norm = link.norm
    BY <2>1 DEF Link
  <2>4. Classed(m)
    BY <2>3, <1>1 DEF Classed
  <2>2. link' = Prime(m)
    BY <1>1 DEF Queue, Queued, QueuePrio
  <2> HIDE DEF m
  <2> QED
    BY <2>2, <2>3, <2>4, PrimePriority
<1>2. ASSUME NEW b \in Byte, Queue(b), b.class # "prio"
      PROVE  link'.shift # link.shift /\ link'.shift # NoByte /\ link'.shift.class = "norm"
                => link'.prio = <<>>
  <2> DEFINE m == [link EXCEPT !.norm = @ \o <<b>>]
  <2>0. b.class = "norm"
    BY <1>2 DEF Byte, Class
  <2>1. link.norm \o <<b>> \in Seq(Byte)
    OBVIOUS
  <2>3. m \in Link /\ m.shift = link.shift /\ m.norm = link.norm \o <<b>> /\ m.prio = link.prio
    BY <2>1 DEF Link
  <2>4. Classed(m)
    BY <2>3, <2>0 DEF Classed
  <2>2. link' = Prime(m)
    BY <1>2 DEF Queue, Queued, QueueNorm
  <2> HIDE DEF m
  <2> QED
    BY <2>2, <2>3, <2>4, PrimePriority
<1>3. CASE SclkRise
  <2> DEFINE m == [link EXCEPT !.shift = NoByte, !.bit = 0]
  <2>3. 0 \in 0 .. OctetBits - 1
    BY OctetBitsAssumption
  <2>4. m \in Link /\ m.shift = NoByte /\ m.prio = link.prio /\ m.norm = link.norm
    BY <2>3 DEF Link
  <2>5. Classed(m)
    BY <2>4 DEF Classed
  <2>2. link' = Prime(m) \/ link'.shift = link.shift
    BY <1>3 DEF SclkRise, Clocked, Shifted, Link
  <2> HIDE DEF m
  <2> QED
    BY <2>2, <2>4, <2>5, PrimePriority
<1>4. CASE Reset
  BY <1>4 DEF Reset, IdleLink
<1>5. CASE UNCHANGED vars
  BY <1>5 DEF vars
<1> QED
  BY <1>1, <1>2, <1>3, <1>4, <1>5 DEF Next

\* A normal byte enters the register only when no priority byte waits, whatever moment the
\* bytes are queued at: prime_ipcomm_rx_shift_from_queues looks at the priority queue first.
THEOREM PriorityCorrect == Spec => PriorityFirst
<1>1. LinkStrong /\ [Next]_vars
        => [link'.shift # link.shift /\ link'.shift # NoByte /\ link'.shift.class = "norm"
              => link'.prio = <<>>]_vars
  BY StepPriority
<1> QED
  BY <1>1, LinkStrongHolds, PTL DEF Spec, PriorityFirst

-------------------------------------------------------------------------------
(* The EEPROM.  *)

\* The chip and its host at rest, before or between commands.
Waiting == chip.phase = "wait_start" /\ (~Busy \/ host.edges = 0)

\* The register holds what the host has clocked since START.
InCommand ==
    /\ chip.phase = "command_stream"
    /\ host.edges \in 1..BodyBits
    /\ Len(chip.sr) = host.edges - 1
    /\ \A i \in 1..Len(chip.sr) : chip.sr[i] = FrameBit(host.cmd, i + 1)
    /\ host.got = <<>>

\* DO shows the bit the host samples next, and it has sampled those before.
Reading ==
    /\ chip.phase = "read_word_out"
    /\ host.cmd.op = "read"
    /\ chip.addr = host.cmd.addr
    /\ chip.readIdx \in 0..DataBits
    /\ host.edges = BodyBits + 1 + chip.readIdx
    /\ Len(host.got) = chip.readIdx
    /\ chip.readIdx > 0 => chip.do = mem[host.cmd.addr][chip.readIdx]
    /\ \A i \in 2..chip.readIdx : host.got[i] = mem[host.cmd.addr][i - 1]

\* The accumulator holds what the host has clocked of the data.
Writing ==
    /\ chip.phase = "write_word_in"
    /\ host.cmd.op = "write"
    /\ chip.addr = host.cmd.addr
    /\ host.edges = BodyBits + 1 + Len(chip.accum)
    /\ \A i \in 1..Len(chip.accum) : chip.accum[i] = host.cmd.data[i]
    /\ chip.commit = enabled
    /\ host.got = <<>>

\* The decoder's phase is the host's position in its command.
Framed ==
    /\ ~cs => chip.phase = "idle" /\ ~Busy
    /\ cs => Waiting \/ InCommand \/ Reading \/ Writing

\* Only a read leaves samples, and it leaves none before its data.
Samples ==
    /\ host.cmd.op # "read" => host.got = <<>>
    /\ host.edges = 0 => host.got = <<>>

IInv == EepromTypeOK /\ Framed /\ Samples /\ MirrorAgrees

-------------------------------------------------------------------------------
\* Frames.

LEMMA Types ==
    /\ AddrBits \in Nat \ {0}
    /\ DataBits \in Nat \ {0}
    /\ BodyBits \in Nat /\ BodyBits = AddrBits + 3
    /\ Commands \subseteq Command
    /\ Ones \in Word /\ Zeros \in Word
  BY EepromAssumption DEF BodyBits, Ones, Zeros, Word, Bit

LEMMA Lengths ==
    ASSUME NEW c \in Command
    PROVE  /\ FrameLength(c) \in Nat
           /\ FrameLength(c) > BodyBits
           /\ c.op \notin {"read", "write"} => FrameLength(c) = 1 + BodyBits
           /\ c.op = "read" => FrameLength(c) = 2 + BodyBits + DataBits
           /\ c.op = "write" => FrameLength(c) = 1 + BodyBits + DataBits
  BY Types DEF FrameLength, Command

LEMMA Fields ==
    ASSUME NEW c \in Command
    PROVE  /\ c.addr \in Addr
           /\ c.data \in Word
           /\ c.op \in {"read", "write", "erase", "enable", "other"}
           /\ c.op = "enable" => c.addr \in EwenAddrs
           /\ c.op = "other" => c.addr \notin EwenAddrs
  BY DEF Command

\* What the host clocks: START, the opcode, the address, one bit more, and the data.
LEMMA FrameBits ==
    ASSUME NEW c \in Command
    PROVE  /\ FrameBit(c, 1) = 1
           /\ FrameBit(c, 2) = OpcodeBits(c.op)[1]
           /\ FrameBit(c, 3) = OpcodeBits(c.op)[2]
           /\ \A i \in 1..AddrBits : FrameBit(c, i + 3) = c.addr[i]
           /\ c.op = "write" =>
                \A i \in 1..DataBits : FrameBit(c, BodyBits + 1 + i) = c.data[i]
           /\ \A i \in 1..FrameLength(c) : FrameBit(c, i) \in Bit
  <1>1. FrameBit(c, 1) = 1
    BY Types DEF FrameBit
  <1>2. FrameBit(c, 2) = OpcodeBits(c.op)[1] /\ FrameBit(c, 3) = OpcodeBits(c.op)[2]
    BY Types DEF FrameBit
  <1>3. ASSUME NEW i \in 1..AddrBits
        PROVE  FrameBit(c, i + 3) = c.addr[i]
    BY Types DEF FrameBit
  <1>4. ASSUME c.op = "write", NEW i \in 1..DataBits
        PROVE  FrameBit(c, BodyBits + 1 + i) = c.data[i]
    BY <1>4, Types DEF FrameBit
  <1>5. ASSUME NEW i \in 1..FrameLength(c)
        PROVE  FrameBit(c, i) \in Bit
    <2>1. CASE i \in 1..3
      BY <2>1, <1>1, <1>2, Types, Fields DEF OpcodeBits, Bit
    <2>2. CASE i \in 4..(AddrBits + 3)
      <3>1. i - 3 \in 1..AddrBits /\ FrameBit(c, i) = c.addr[i - 3]
        BY <2>2, Types DEF FrameBit
      <3> QED BY <3>1, Fields DEF Addr
    <2>3. CASE i > AddrBits + 3 /\ c.op = "write" /\ i > BodyBits + 1
      <3>1. i - BodyBits - 1 \in 1..DataBits /\ FrameBit(c, i) = c.data[i - BodyBits - 1]
        BY <2>3, Types, Lengths DEF FrameBit
      <3> QED BY <3>1, Fields DEF Word
    <2>4. CASE i > AddrBits + 3 /\ ~(c.op = "write" /\ i > BodyBits + 1)
      <3>1. FrameBit(c, i) = 0
        BY <2>4, Types DEF FrameBit
      <3> QED BY <3>1 DEF Bit
    <2> QED BY <2>1, <2>2, <2>3, <2>4, Types, Lengths
  <1> QED BY <1>1, <1>2, <1>3, <1>4, <1>5

\* A complete register decodes to the command the host has sent.
LEMMA Decoding ==
    ASSUME EepromTypeOK, InCommand, Busy, Len(ShiftedIn) = BodyBits
    PROVE  /\ host.edges = BodyBits
           /\ AddrField = host.cmd.addr
           /\ Opcode = 6 <=> host.cmd.op = "read"
           /\ Opcode = 5 <=> host.cmd.op = "write"
           /\ Opcode = 7 <=> host.cmd.op = "erase"
           /\ Opcode = 4 <=> host.cmd.op \in {"enable", "other"}
           /\ IsEwen <=> host.cmd.op = "enable"
  <1>1. /\ host.cmd \in Command
        /\ chip.sr \in Seq(Bit)
        /\ DI \in Bit
        /\ Len(chip.sr) = host.edges - 1
        /\ host.edges \in 1..BodyBits
    BY Types, Lengths, FrameBits DEF EepromTypeOK, Chip, InCommand, Busy, DI
  <1>2. Len(chip.sr) = BodyBits - 1 /\ host.edges = BodyBits
    BY <1>1, Types DEF ShiftedIn
  <1>3. \A i \in 1..BodyBits : ShiftedIn[i] = FrameBit(host.cmd, i + 1)
    BY <1>1, <1>2, Types DEF ShiftedIn, InCommand, DI
  <1>4. ShiftedIn[1] = OpcodeBits(host.cmd.op)[1] /\ ShiftedIn[2] = OpcodeBits(host.cmd.op)[2]
    BY <1>1, <1>3, FrameBits, Types
  <1>5. AddrField = host.cmd.addr
    <2>1. \A i \in 1..AddrBits : ShiftedIn[i + 2] = host.cmd.addr[i]
      <3> TAKE i \in 1..AddrBits
      <3>1. i + 2 \in 1..BodyBits
        BY Types
      <3>2. ShiftedIn[i + 2] = FrameBit(host.cmd, i + 3)
        BY <3>1, <1>3, Types
      <3> QED BY <3>2, <1>1, FrameBits
    <2> QED BY <2>1, <1>1, Fields DEF AddrField, Addr
  <1>6. /\ Opcode = 6 <=> host.cmd.op = "read"
        /\ Opcode = 5 <=> host.cmd.op = "write"
        /\ Opcode = 7 <=> host.cmd.op = "erase"
        /\ Opcode = 4 <=> host.cmd.op \in {"enable", "other"}
    BY <1>1, <1>4, Fields DEF Opcode, OpcodeBits
  <1>7. IsEwen <=> host.cmd.op = "enable"
    BY <1>1, <1>5, <1>6, Fields DEF IsEwen
  <1> QED BY <1>2, <1>5, <1>6, <1>7

-------------------------------------------------------------------------------
\* The image.

LEMMA Images ==
    /\ Defaults \in Image
    /\ \A image \in Image : Trusted(image) \in Image /\ Contents(image) \in [Addr -> Word]
    /\ \A image \in Image : \A a \in Backed : Contents(image)[a] = image[a]
  <1>1. Defaults \in Image
    BY EepromAssumption, Types DEF Defaults, Image
  <1> QED BY <1>1, EepromAssumption, Types DEF Trusted, Contents, Image

LEMMA IdleChips ==
    /\ \A a \in Addr : IdleChip(a) \in Chip /\ [IdleChip(a) EXCEPT !.phase = "wait_start"] \in Chip
    /\ ResetChip \in Chip
    /\ ResetChip.phase = "idle" /\ Len(ResetChip.sr) = 0 /\ ResetChip.readIdx = 0
    /\ Len(ResetChip.accum) = 0
  <1>1. <<>> \in Seq(Bit) /\ Len(<<>>) = 0
    OBVIOUS
  <1>2. [i \in 1..AddrBits |-> 0] \in Addr
    BY DEF Addr, Bit
  <1>3. ASSUME NEW b \in Addr
        PROVE  IdleChip(b) \in Chip /\ [IdleChip(b) EXCEPT !.phase = "wait_start"] \in Chip
    BY <1>1 DEF IdleChip, Chip, Bit
  <1> QED BY <1>1, <1>2, <1>3 DEF ResetChip, IdleChip

Host == [cmd : Command, edges : Nat, got : Seq(Bit)]

\* What every proof about a step knows of the host.
LEMMA HostFacts ==
    ASSUME EepromTypeOK
    PROVE  /\ host \in Host
           /\ host.cmd \in Command /\ host.edges \in Nat /\ host.got \in Seq(Bit)
           /\ host = [cmd |-> host.cmd, edges |-> host.edges, got |-> host.got]
           /\ FrameLength(host.cmd) \in Nat
           /\ FrameLength(host.cmd) > BodyBits
           /\ host.cmd.op = "read" => FrameLength(host.cmd) = 2 + BodyBits + DataBits
           /\ host.cmd.op = "write" => FrameLength(host.cmd) = 1 + BodyBits + DataBits
           /\ host.cmd.op \notin {"read", "write"} => FrameLength(host.cmd) = 1 + BodyBits
           /\ BodyBits \in Nat \ {0} /\ DataBits \in Nat \ {0}
  <1>1. host \in Host
    BY DEF EepromTypeOK, Host
  <1>2. host.cmd \in Command /\ host.edges \in Nat /\ host.got \in Seq(Bit)
    BY <1>1 DEF Host
  <1> QED BY <1>1, <1>2, Lengths, Types DEF Host

\* A selected chip whose host is between commands waits for START.
LEMMA AtRest ==
    ASSUME EepromTypeOK, Framed, cs, ~Busy
    PROVE  chip.phase = "wait_start"
  <1>1. ~InCommand
    BY HostFacts DEF InCommand, Busy
  <1>2. ~Reading
    BY HostFacts DEF Reading, Busy
  <1>3. ~Writing
    <2>1. Len(chip.accum) \in Nat /\ Len(chip.accum) < DataBits
      BY DEF EepromTypeOK, Chip
    <2> QED BY <2>1, HostFacts DEF Writing, Busy
  <1> QED BY <1>1, <1>2, <1>3 DEF Framed, Waiting

\* The command of the host cut short.
LEMMA Cut ==
    ASSUME EepromTypeOK
    PROVE  /\ HostDone \in Host
           /\ HostDone.cmd = host.cmd /\ HostDone.got = <<>>
           /\ HostDone.edges = FrameLength(host.cmd)
  <1>1. <<>> \in Seq(Bit)
    OBVIOUS
  <1> QED BY <1>1, HostFacts DEF HostDone, Host

LEMMA InitInv == EepromInit => IInv
  <1> SUFFICES ASSUME EepromInit PROVE IInv
    OBVIOUS
  <1>1. PICK c \in Commands : host = [cmd |-> c, edges |-> FrameLength(c), got |-> <<>>]
    BY DEF EepromInit
  <1>2. c \in Command /\ FrameLength(c) \in Nat /\ FrameLength(c) > 0 /\ <<>> \in Seq(Bit)
    BY Types, Lengths
  <1>3. EepromTypeOK
    <2>1. host \in Host /\ host.edges <= FrameLength(host.cmd)
      BY <1>1, <1>2 DEF Host
    <2>2. /\ chip \in Chip
          /\ Len(chip.sr) <= BodyBits /\ chip.readIdx <= DataBits + 1 /\ Len(chip.accum) < DataBits
      BY Types, IdleChips DEF EepromInit
    <2>3. mem \in [Addr -> Word] /\ nvram \in Image /\ saved \in Image
      BY Images DEF EepromInit
    <2> QED BY <2>1, <2>2, <2>3 DEF EepromInit, EepromTypeOK, Host
  <1>4. Framed /\ Samples
    BY <1>1, <1>2, IdleChips DEF EepromInit, Framed, Samples, Busy
  <1>5. MirrorAgrees
    BY Images DEF EepromInit, MirrorAgrees
  <1> QED BY <1>3, <1>4, <1>5 DEF IInv

-------------------------------------------------------------------------------
\* The host, chip select, resets and sessions.

LEMMA BeginInv == IInv /\ Begin => IInv'
  <1> SUFFICES ASSUME IInv, Begin PROVE IInv'
    OBVIOUS
  <1>1. PICK c \in Commands : host' = [cmd |-> c, edges |-> 0, got |-> <<>>]
    BY DEF Begin
  <1>2. c \in Command /\ FrameLength(c) \in Nat /\ FrameLength(c) > 0 /\ <<>> \in Seq(Bit)
    BY Types, Lengths
  <1>3. EepromTypeOK'
    BY <1>1, <1>2 DEF IInv, EepromTypeOK, Begin
  <1>4. Framed'
    <2>1. chip.phase = "wait_start"
      BY AtRest DEF IInv, Begin
    <2> QED BY <1>1, <2>1 DEF Begin, Framed, Waiting
  <1>5. Samples'
    BY <1>1 DEF Samples
  <1>6. MirrorAgrees'
    BY DEF IInv, MirrorAgrees, Begin
  <1> QED BY <1>3, <1>4, <1>5, <1>6 DEF IInv

LEMMA SelectRiseInv == IInv /\ SelectRise => IInv'
  <1> SUFFICES ASSUME IInv, SelectRise PROVE IInv'
    OBVIOUS
  <1>1. /\ chip' \in Chip /\ chip'.phase = "wait_start"
        /\ Len(chip'.sr) = 0 /\ chip'.readIdx = 0 /\ Len(chip'.accum) = 0
    <2>1. chip.addr \in Addr
      BY DEF IInv, EepromTypeOK, Chip
    <2> QED BY <2>1, IdleChips DEF SelectRise, IdleChip
  <1>2. EepromTypeOK'
    BY <1>1, Types DEF IInv, EepromTypeOK, SelectRise
  <1>3. Framed'
    BY <1>1 DEF IInv, SelectRise, Framed, Waiting, Busy
  <1>4. Samples' /\ MirrorAgrees'
    BY DEF IInv, SelectRise, Samples, MirrorAgrees
  <1> QED BY <1>2, <1>3, <1>4 DEF IInv

\* The sample a host takes before an edge keeps the samples typed.
LEMMA SampledType ==
    ASSUME EepromTypeOK
    PROVE  /\ Sampled \in Seq(Bit)
           /\ Sampled # host.got => host.cmd.op = "read" /\ host.edges > BodyBits
  BY HostFacts DEF EepromTypeOK, Chip, Sampled, Sampling

LEMMA SelectFallInv == IInv /\ SelectFall => IInv'
  <1> SUFFICES ASSUME IInv, SelectFall PROVE IInv'
    OBVIOUS
  <1>1. /\ host' \in Host
        /\ host'.cmd = host.cmd
        /\ host'.edges = FrameLength(host.cmd)
        /\ host.cmd.op # "read" => host'.got = <<>>
    <2>1. CASE ~Busy
      <3>1. host' = host /\ host.edges = FrameLength(host.cmd)
        BY <2>1, HostFacts DEF SelectFall, Busy, IInv, EepromTypeOK
      <3> QED BY <3>1, HostFacts DEF IInv, Samples
    <2>2. CASE Busy /\ Sampling /\ host.edges + 1 = FrameLength(host.cmd)
      <3>1. host' = [HostDone EXCEPT !.got = Sampled]
        BY <2>2 DEF SelectFall
      <3> QED BY <3>1, <2>2, Cut, SampledType DEF IInv, Host, Sampling
    <2>3. CASE Busy /\ ~(Sampling /\ host.edges + 1 = FrameLength(host.cmd))
      <3>1. host' = HostDone
        BY <2>3 DEF SelectFall
      <3> QED BY <3>1, Cut DEF IInv
    <2> QED BY <2>1, <2>2, <2>3
  <1>2. /\ chip' \in Chip /\ chip'.phase = "idle"
        /\ Len(chip'.sr) = 0 /\ chip'.readIdx = 0 /\ Len(chip'.accum) = 0
    <2>1. chip.addr \in Addr
      BY DEF IInv, EepromTypeOK, Chip
    <2> QED BY <2>1, IdleChips DEF SelectFall, IdleChip
  <1>3. EepromTypeOK'
    <2>1. FrameLength(host.cmd) \in Nat /\ BodyBits \in Nat /\ DataBits \in Nat \ {0}
      BY HostFacts DEF IInv
    <2>2. host'.edges <= FrameLength(host'.cmd)
      BY <1>1, <2>1
    <2>3. Len(chip'.sr) <= BodyBits /\ chip'.readIdx <= DataBits + 1 /\ Len(chip'.accum) < DataBits
      BY <1>2, <2>1
    <2>4. UNCHANGED <<enabled, mem, nvram, saved>> /\ cs' = FALSE
      BY DEF SelectFall
    <2> QED BY <1>1, <1>2, <2>2, <2>3, <2>4 DEF IInv, EepromTypeOK, Host
  <1>4. Framed'
    BY <1>1, <1>2, HostFacts DEF IInv, SelectFall, Framed, Busy
  <1>5. Samples' /\ MirrorAgrees'
    BY <1>1, HostFacts DEF IInv, SelectFall, Samples, MirrorAgrees
  <1> QED BY <1>3, <1>4, <1>5 DEF IInv

LEMMA SyncedInv ==
    ASSUME IInv, NEW image \in Image, Synced(image), nvram' = image, saved' \in Image
    PROVE  IInv'
  <1>1. /\ host' \in Host /\ host'.got = <<>>
        /\ host'.edges = FrameLength(host'.cmd) /\ FrameLength(host'.cmd) \in Nat \ {0}
    BY Cut, HostFacts DEF IInv, Synced
  <1>2. EepromTypeOK'
    <2>1. host'.edges <= FrameLength(host'.cmd)
      BY <1>1
    <2>2. /\ chip' \in Chip
          /\ Len(chip'.sr) <= BodyBits /\ chip'.readIdx <= DataBits + 1 /\ Len(chip'.accum) < DataBits
      BY Types, IdleChips DEF Synced
    <2>3. mem' \in [Addr -> Word]
      BY Images DEF Synced
    <2> QED BY <1>1, <2>1, <2>2, <2>3 DEF EepromTypeOK, Synced, Host
  <1>3. Framed' /\ Samples'
    BY <1>1, IdleChips DEF Synced, Framed, Samples, Busy
  <1>4. MirrorAgrees'
    BY Images DEF Synced, MirrorAgrees
  <1> QED BY <1>2, <1>3, <1>4 DEF IInv

LEMMA MachineResetInv == IInv /\ MachineReset => IInv'
  BY SyncedInv DEF MachineReset, IInv, EepromTypeOK

LEMMA NewSessionInv == IInv /\ NewSession => IInv'
  BY SyncedInv, Images DEF NewSession, IInv, EepromTypeOK

-------------------------------------------------------------------------------
\* The edges.

\* What an edge does to the host, whatever the decoder makes of it.
LEMMA EdgeHost ==
    ASSUME IInv, Edge
    PROVE  /\ host' \in Host
           /\ host'.cmd = host.cmd
           /\ host'.edges = host.edges + 1
           /\ host'.got = Sampled
           /\ host.edges < FrameLength(host.cmd)
           /\ host'.edges <= FrameLength(host'.cmd)
           /\ DI \in Bit
           /\ DI = FrameBit(host.cmd, host.edges + 1)
           /\ cs /\ cs' /\ Busy /\ saved' = saved
           /\ Samples'
  <1>1. /\ host' \in Host
        /\ host'.cmd = host.cmd
        /\ host'.edges = host.edges + 1
        /\ host'.got = Sampled
    <2>1. host' = [host EXCEPT !.edges = host.edges + 1, !.got = Sampled]
      BY DEF Edge
    <2>2. host \in Host /\ host.edges + 1 \in Nat /\ Sampled \in Seq(Bit)
      BY HostFacts, SampledType DEF IInv
    <2> QED BY <2>1, <2>2 DEF Host
  <1>2. host.edges < FrameLength(host.cmd) /\ cs /\ cs' /\ Busy /\ saved' = saved
    BY DEF Edge, Busy, IInv, EepromTypeOK
  <1>3. host'.edges <= FrameLength(host'.cmd)
    BY <1>1, <1>2, HostFacts DEF IInv
  <1>4. DI \in Bit
    <2>1. host.edges + 1 \in 1..FrameLength(host.cmd) /\ host.cmd \in Command
      BY <1>2, HostFacts DEF IInv
    <2> QED BY <2>1, FrameBits DEF DI
  <1>5. Samples'
    BY <1>1, SampledType, HostFacts DEF IInv, Samples
  <1> QED BY <1>1, <1>2, <1>3, <1>4, <1>5 DEF DI

\* The phase tells which part of Framed holds.
LEMMA Phases ==
    ASSUME IInv, Edge
    PROVE  /\ chip.phase \in {"idle", "wait_start"} => host.edges = 0
           /\ chip.phase = "command_stream" => InCommand
           /\ chip.phase = "read_word_out" => Reading
           /\ chip.phase = "write_word_in" => Writing
  BY DEF IInv, Edge, Framed, Waiting, InCommand, Reading, Writing

\* A step that leaves the contents alone.
LEMMA EdgeType ==
    ASSUME IInv, Edge, Keeps, chip' \in Chip,
           Len(chip'.sr) <= BodyBits, chip'.readIdx <= DataBits + 1, Len(chip'.accum) < DataBits
    PROVE  EepromTypeOK' /\ MirrorAgrees'
  BY EdgeHost DEF IInv, EepromTypeOK, MirrorAgrees, Keeps, Host

LEMMA ChipFacts ==
    ASSUME EepromTypeOK
    PROVE  /\ chip.sr \in Seq(Bit) /\ Len(chip.sr) \in Nat /\ Len(chip.sr) <= BodyBits
           /\ chip.readIdx \in Nat /\ chip.readIdx <= DataBits + 1
           /\ chip.accum \in Seq(Bit) /\ Len(chip.accum) \in Nat /\ Len(chip.accum) < DataBits
           /\ chip.addr \in Addr /\ chip.do \in Bit /\ chip.commit \in BOOLEAN
  BY DEF EepromTypeOK, Chip

LEMMA StartBitInv == IInv /\ StartBit => IInv'
  <1> SUFFICES ASSUME IInv, StartBit PROVE IInv'
    OBVIOUS
  <1>1. Edge /\ Keeps
    BY DEF StartBit
  <1>2. host.edges = 0 /\ DI = 1 /\ host.cmd \in Command
    <2>1. host.edges = 0 /\ host.cmd \in Command
      BY <1>1, Phases, HostFacts DEF StartBit, IInv
    <2> QED BY <2>1, FrameBits DEF DI
  <1>3. chip' = [chip EXCEPT !.phase = "command_stream", !.sr = <<>>]
    BY <1>2 DEF StartBit
  <1>4. /\ chip' \in Chip /\ chip'.phase = "command_stream"
        /\ Len(chip'.sr) = 0 /\ chip'.readIdx = chip.readIdx /\ chip'.accum = chip.accum
    <2>1. <<>> \in Seq(Bit) /\ Len(<<>>) = 0 /\ chip \in Chip
      BY DEF IInv, EepromTypeOK
    <2> QED BY <1>3, <2>1 DEF Chip
  <1>5. EepromTypeOK' /\ MirrorAgrees'
    BY <1>1, <1>4, EdgeType, ChipFacts, Types DEF IInv
  <1>6. InCommand'
    <2>1. host'.edges = 1 /\ host'.got = <<>>
      BY <1>1, <1>2, EdgeHost, SampledType, Types DEF IInv, Samples
    <2> QED BY <1>4, <2>1, Types DEF InCommand
  <1> QED BY <1>1, <1>5, <1>6, EdgeHost DEF IInv, Framed

LEMMA CommandBitInv == IInv /\ CommandBit => IInv'
  <1> SUFFICES ASSUME IInv, CommandBit PROVE IInv'
    OBVIOUS
  <1>1. Edge /\ Keeps /\ InCommand
    BY Phases DEF CommandBit
  <1>2. /\ ShiftedIn \in Seq(Bit) /\ Len(ShiftedIn) = Len(chip.sr) + 1
        /\ \A i \in 1..Len(ShiftedIn) : ShiftedIn[i] = IF i <= Len(chip.sr) THEN chip.sr[i] ELSE DI
    BY <1>1, EdgeHost, ChipFacts DEF IInv, ShiftedIn
  <1>3. /\ chip' \in Chip /\ chip'.phase = "command_stream"
        /\ chip'.sr = ShiftedIn /\ chip'.readIdx = chip.readIdx /\ chip'.accum = chip.accum
    BY <1>1, <1>2 DEF CommandBit, IInv, EepromTypeOK, Chip, InCommand
  <1>4. Len(ShiftedIn) < BodyBits
    BY DEF CommandBit
  <1>5. EepromTypeOK' /\ MirrorAgrees'
    BY <1>1, <1>2, <1>3, <1>4, EdgeType, ChipFacts, Types DEF IInv
  <1>6. InCommand'
    <2>1. /\ host'.cmd = host.cmd /\ host'.edges = host.edges + 1
          /\ host.edges \in 1..BodyBits /\ Len(chip.sr) = host.edges - 1
      BY <1>1, EdgeHost DEF InCommand
    <2>2. host'.got = <<>>
      BY <1>1, <2>1, EdgeHost, SampledType, Types DEF InCommand, IInv
    <2>3. \A i \in 1..Len(ShiftedIn) : ShiftedIn[i] = FrameBit(host.cmd, i + 1)
      BY <1>1, <1>2, <2>1, EdgeHost, ChipFacts DEF InCommand, IInv
    <2>4. host'.edges \in 1..BodyBits /\ Len(ShiftedIn) = host'.edges - 1
      BY <1>2, <1>4, <2>1, Types
    <2> QED BY <1>3, <2>1, <2>2, <2>3, <2>4 DEF InCommand
  <1> QED BY <1>1, <1>5, <1>6, EdgeHost DEF IInv, Framed

\* What the last edge of the opcode and address leaves of the decoder and the host.
LEMMA Complete ==
    ASSUME IInv, CommandComplete
    PROVE  /\ Edge /\ InCommand
           /\ AddrField = host.cmd.addr /\ AddrField \in Addr
           /\ Opcode = 6 <=> host.cmd.op = "read"
           /\ Opcode = 5 <=> host.cmd.op = "write"
           /\ Opcode = 7 <=> host.cmd.op = "erase"
           /\ Opcode = 4 <=> host.cmd.op \in {"enable", "other"}
           /\ IsEwen <=> host.cmd.op = "enable"
           /\ host'.edges = BodyBits + 1
           /\ host'.got = <<>>
           /\ ShiftedIn \in Seq(Bit) /\ Len(ShiftedIn) = BodyBits
           /\ Decoded \in Chip
           /\ Decoded.sr = ShiftedIn /\ Decoded.addr = AddrField
           /\ Decoded.readIdx = chip.readIdx /\ Decoded.accum = chip.accum
  <1>1. Edge /\ InCommand /\ Busy /\ Len(ShiftedIn) = BodyBits
    BY Phases, EdgeHost DEF CommandComplete
  <1>2. /\ host.edges = BodyBits
        /\ AddrField = host.cmd.addr
        /\ Opcode = 6 <=> host.cmd.op = "read"
        /\ Opcode = 5 <=> host.cmd.op = "write"
        /\ Opcode = 7 <=> host.cmd.op = "erase"
        /\ Opcode = 4 <=> host.cmd.op \in {"enable", "other"}
        /\ IsEwen <=> host.cmd.op = "enable"
    BY <1>1, Decoding DEF IInv
  <1>3. host'.edges = BodyBits + 1
    BY <1>1, <1>2, EdgeHost
  <1>4. host'.got = <<>>
    BY <1>1, <1>2, EdgeHost, SampledType, Types DEF InCommand, IInv
  <1>5. ShiftedIn \in Seq(Bit) /\ AddrField \in Addr
    BY <1>1, <1>2, EdgeHost, ChipFacts, HostFacts, Fields DEF IInv, ShiftedIn
  <1>6. /\ Decoded \in Chip
        /\ Decoded.sr = ShiftedIn /\ Decoded.addr = AddrField
        /\ Decoded.readIdx = chip.readIdx /\ Decoded.accum = chip.accum
    BY <1>5 DEF Decoded, IInv, EepromTypeOK, Chip
  <1> QED BY <1>1, <1>2, <1>3, <1>4, <1>5, <1>6

\* A command without data is over with the last edge of its address field.
LEMMA CommandOver ==
    ASSUME IInv, CommandComplete, host.cmd.op \notin {"read", "write"}
    PROVE  ~Busy'
  <1>1. /\ host'.edges = BodyBits + 1 /\ host'.cmd = host.cmd
        /\ FrameLength(host.cmd) = 1 + BodyBits /\ BodyBits \in Nat
    BY Complete, EdgeHost, HostFacts DEF IInv
  <1> QED BY <1>1 DEF Busy

LEMMA EwenInv == IInv /\ Ewen => IInv'
  <1> SUFFICES ASSUME IInv, Ewen PROVE IInv'
    OBVIOUS
  <1>1. CommandComplete /\ host.cmd.op = "enable"
    BY Complete DEF Ewen
  <1>2. chip' \in Chip /\ chip'.phase = "wait_start" /\ chip'.sr = ShiftedIn
        /\ chip'.readIdx = chip.readIdx /\ chip'.accum = chip.accum
    BY <1>1, Complete DEF Ewen, Chip, Bit
  <1>3. EepromTypeOK'
    <2>1. /\ Len(chip'.sr) <= BodyBits /\ chip'.readIdx <= DataBits + 1
          /\ Len(chip'.accum) < DataBits
      BY <1>1, <1>2, Complete, ChipFacts, Types DEF IInv
    <2>2. enabled' \in BOOLEAN /\ mem' = mem /\ nvram' = nvram
      BY DEF Ewen
    <2> QED BY <1>1, <1>2, <2>1, <2>2, Complete, EdgeHost DEF IInv, EepromTypeOK, Host
  <1>4. Framed'
    <2>1. ~Busy' /\ cs'
      BY <1>1, Complete, CommandOver, EdgeHost
    <2> QED BY <1>2, <2>1 DEF Framed, Waiting
  <1>5. MirrorAgrees' /\ Samples'
    BY <1>1, Complete, EdgeHost DEF Ewen, IInv, MirrorAgrees
  <1> QED BY <1>3, <1>4, <1>5 DEF IInv

LEMMA BeginReadInv == IInv /\ BeginRead => IInv'
  <1> SUFFICES ASSUME IInv, BeginRead PROVE IInv'
    OBVIOUS
  <1>1. CommandComplete /\ Keeps /\ host.cmd.op = "read"
    BY Complete DEF BeginRead
  <1>2. /\ chip' \in Chip /\ chip'.phase = "read_word_out" /\ chip'.sr = ShiftedIn
        /\ chip'.addr = AddrField /\ chip'.readIdx = 0 /\ chip'.accum = chip.accum
    BY <1>1, Complete DEF BeginRead, Chip, Bit
  <1>3. EepromTypeOK' /\ MirrorAgrees'
    <2>1. /\ Len(chip'.sr) <= BodyBits /\ chip'.readIdx <= DataBits + 1
          /\ Len(chip'.accum) < DataBits
      BY <1>1, <1>2, Complete, ChipFacts, Types DEF IInv
    <2> QED BY <1>1, <1>2, <2>1, Complete, EdgeType
  <1>4. Reading'
    <2>1. host'.cmd = host.cmd /\ host'.edges = BodyBits + 1 /\ host'.got = <<>>
          /\ AddrField = host.cmd.addr
      BY <1>1, Complete, EdgeHost
    <2> QED BY <1>1, <1>2, <2>1, Types DEF Reading
  <1> QED BY <1>1, <1>3, <1>4, Complete, EdgeHost DEF IInv, Framed

LEMMA BeginWriteInv == IInv /\ BeginWrite => IInv'
  <1> SUFFICES ASSUME IInv, BeginWrite PROVE IInv'
    OBVIOUS
  <1>1. CommandComplete /\ Keeps /\ host.cmd.op = "write"
    BY Complete DEF BeginWrite
  <1>2. /\ chip' \in Chip /\ chip'.phase = "write_word_in" /\ chip'.sr = ShiftedIn
        /\ chip'.addr = AddrField /\ chip'.readIdx = chip.readIdx /\ chip'.accum = <<>>
        /\ chip'.commit = enabled
    <2>1. <<>> \in Seq(Bit) /\ enabled \in BOOLEAN
      BY DEF IInv, EepromTypeOK
    <2> QED BY <1>1, <2>1, Complete DEF BeginWrite, WriteOpcode, Chip
  <1>3. EepromTypeOK' /\ MirrorAgrees'
    <2>1. /\ Len(chip'.sr) <= BodyBits /\ chip'.readIdx <= DataBits + 1
          /\ Len(chip'.accum) < DataBits
      BY <1>1, <1>2, Complete, ChipFacts, Types DEF IInv
    <2> QED BY <1>1, <1>2, <2>1, Complete, EdgeType
  <1>4. Writing'
    <2>1. host'.cmd = host.cmd /\ host'.edges = BodyBits + 1 /\ host'.got = <<>>
          /\ AddrField = host.cmd.addr /\ enabled' = enabled
      BY <1>1, Complete, EdgeHost DEF Keeps
    <2> QED BY <1>1, <1>2, <2>1, Types DEF Writing
  <1> QED BY <1>1, <1>3, <1>4, Complete, EdgeHost DEF IInv, Framed

\* A word and its mirror written together.
LEMMA Stored ==
    ASSUME IInv, NEW a \in Addr, NEW w \in Word,
           mem' = [mem EXCEPT ![a] = w], nvram' = Mirrored(a, w)
    PROVE  mem' \in [Addr -> Word] /\ nvram' \in Image /\ MirrorAgrees'
  <1>1. mem' \in [Addr -> Word] /\ nvram' \in Image
    BY DEF IInv, EepromTypeOK, Mirrored, Image
  <1>2. MirrorAgrees'
    BY EepromAssumption DEF IInv, EepromTypeOK, MirrorAgrees, Mirrored, Image
  <1> QED BY <1>1, <1>2

LEMMA EraseWordInv == IInv /\ EraseWord => IInv'
  <1> SUFFICES ASSUME IInv, EraseWord PROVE IInv'
    OBVIOUS
  <1>1. CommandComplete /\ host.cmd.op = "erase"
    BY Complete DEF EraseWord
  <1>2. chip' \in Chip /\ chip'.phase = "wait_start" /\ chip'.sr = ShiftedIn
        /\ chip'.readIdx = chip.readIdx /\ chip'.accum = chip.accum
    BY <1>1, Complete DEF EraseWord, Chip
  <1>3. mem' \in [Addr -> Word] /\ nvram' \in Image /\ MirrorAgrees'
    BY <1>1, Complete, Stored, Types DEF EraseWord
  <1>4. EepromTypeOK'
    <2>1. /\ Len(chip'.sr) <= BodyBits /\ chip'.readIdx <= DataBits + 1
          /\ Len(chip'.accum) < DataBits
      BY <1>1, <1>2, Complete, ChipFacts, Types DEF IInv
    <2>2. enabled' = enabled
      BY DEF EraseWord
    <2> QED BY <1>1, <1>2, <1>3, <2>1, <2>2, Complete, EdgeHost DEF IInv, EepromTypeOK, Host
  <1>5. Framed'
    <2>1. ~Busy' /\ cs'
      BY <1>1, Complete, CommandOver, EdgeHost
    <2> QED BY <1>2, <2>1 DEF Framed, Waiting
  <1> QED BY <1>1, <1>3, <1>4, <1>5, Complete, EdgeHost DEF IInv

LEMMA IgnoredInv == IInv /\ Ignored => IInv'
  <1> SUFFICES ASSUME IInv, Ignored PROVE IInv'
    OBVIOUS
  <1>1. CommandComplete /\ Keeps /\ host.cmd.op \notin {"read", "write"}
    BY Complete DEF Ignored
  <1>2. chip' \in Chip /\ chip'.phase = "wait_start" /\ chip'.sr = ShiftedIn
        /\ chip'.readIdx = chip.readIdx /\ chip'.accum = chip.accum
    BY <1>1, Complete DEF Ignored, Chip, Bit
  <1>3. EepromTypeOK' /\ MirrorAgrees'
    <2>1. /\ Len(chip'.sr) <= BodyBits /\ chip'.readIdx <= DataBits + 1
          /\ Len(chip'.accum) < DataBits
      BY <1>1, <1>2, Complete, ChipFacts, Types DEF IInv
    <2> QED BY <1>1, <1>2, <2>1, Complete, EdgeType
  <1>4. Framed'
    <2>1. ~Busy' /\ cs'
      BY <1>1, Complete, CommandOver, EdgeHost
    <2> QED BY <1>2, <2>1 DEF Framed, Waiting
  <1> QED BY <1>1, <1>3, <1>4, Complete, EdgeHost DEF IInv

\* The position of the host one data edge on.
LEMMA NextPosition ==
    ASSUME NEW b \in Nat, NEW r \in Nat, NEW n \in Nat
    PROVE  /\ (b + 1 + r) + 1 = b + 1 + (r + 1)
           /\ r <= n => r + 1 \in 1..(n + 1)
           /\ r < n => r + 1 \in 1..n
           /\ (r + 1) - 1 = r
  OBVIOUS

LEMMA ReadEdgeInv == IInv /\ ReadEdge => IInv'
  <1> SUFFICES ASSUME IInv, ReadEdge PROVE IInv'
    OBVIOUS
  <1> DEFINE k == chip.readIdx + 1
  <1>1. Edge /\ Keeps /\ Reading
    BY Phases DEF ReadEdge
  <1>2. /\ host'.cmd = host.cmd /\ host.cmd.op = "read"
        /\ host'.edges = BodyBits + 1 + k
        /\ host.got \in Seq(Bit) /\ Len(host.got) = k - 1
        /\ k \in 1..(DataBits + 1)
        /\ host'.got = Append(host.got, chip.do)
        /\ FrameLength(host.cmd) = 2 + BodyBits + DataBits
        /\ BodyBits \in Nat /\ DataBits \in Nat
    <2>1. host.edges = BodyBits + 1 + chip.readIdx /\ chip.readIdx \in 0..DataBits
          /\ host.cmd.op = "read" /\ Len(host.got) = chip.readIdx
      BY <1>1 DEF Reading
    <2>2. BodyBits \in Nat /\ DataBits \in Nat /\ host.got \in Seq(Bit)
          /\ FrameLength(host.cmd) = 2 + BodyBits + DataBits
      BY <2>1, HostFacts DEF IInv
    <2>3. Sampled = Append(host.got, chip.do)
      BY <2>1, <2>2 DEF Sampled, Sampling
    <2>4. host'.cmd = host.cmd /\ host'.edges = host.edges + 1 /\ host'.got = Sampled
      BY <1>1, EdgeHost
    <2>5. chip.readIdx \in Nat /\ host.edges \in Nat
      BY ChipFacts, HostFacts DEF IInv
    <2>6. host'.edges = BodyBits + 1 + k
      BY <2>1, <2>2, <2>4, <2>5, NextPosition
    <2>7. Len(host.got) = k - 1 /\ k \in 1..(DataBits + 1)
      BY <2>1, <2>2, <2>5, NextPosition, SMTT(60)
    <2> QED BY <2>1, <2>2, <2>3, <2>4, <2>6, <2>7
  <1>count. k = chip.readIdx + 1
    OBVIOUS
  <1> HIDE DEF k
  <1>3. mem[chip.addr] \in Word /\ chip.addr = host.cmd.addr
    BY <1>1, ChipFacts DEF IInv, EepromTypeOK, Reading
  <1>4. CASE k = DataBits + 1
    <2>1. chip' = [chip EXCEPT !.readIdx = k, !.phase = "wait_start", !.do = 1]
      BY <1>4, <1>count DEF ReadEdge
    <2>2. chip' \in Chip /\ chip'.phase = "wait_start" /\ chip'.sr = chip.sr
          /\ chip'.readIdx = k /\ chip'.accum = chip.accum
      <3>1. chip \in Chip /\ k \in Nat /\ 1 \in Bit
        BY <1>2 DEF IInv, EepromTypeOK, Bit
      <3> QED BY <2>1, <3>1 DEF Chip
    <2>3. EepromTypeOK' /\ MirrorAgrees'
      BY <1>1, <1>2, <2>2, EdgeType, ChipFacts DEF IInv
    <2>4. ~Busy'
      BY <1>2, <1>4 DEF Busy
    <2> QED BY <1>1, <2>2, <2>3, <2>4, EdgeHost DEF IInv, Framed, Waiting
  <1>5. CASE k <= DataBits
    <2>1. chip' = [chip EXCEPT !.readIdx = k, !.do = mem[chip.addr][k]]
      BY <1>2, <1>5, <1>count DEF ReadEdge
    <2>2. mem[chip.addr][k] \in Bit
      BY <1>2, <1>3, <1>5 DEF Word
    <2>3. chip' \in Chip /\ chip'.phase = "read_word_out" /\ chip'.sr = chip.sr
          /\ chip'.addr = chip.addr /\ chip'.do = mem[chip.addr][k]
          /\ chip'.readIdx = k /\ chip'.accum = chip.accum
      <3>1. chip \in Chip /\ k \in Nat /\ chip.phase = "read_word_out"
        BY <1>1, <1>2 DEF IInv, EepromTypeOK, Reading
      <3> QED BY <2>1, <2>2, <3>1 DEF Chip
    <2>4. EepromTypeOK' /\ MirrorAgrees'
      BY <1>1, <1>2, <2>3, EdgeType, ChipFacts DEF IInv
    <2>5. Len(host'.got) = k
      BY <1>2, ChipFacts, SMTT(40) DEF IInv
    <2>6. \A i \in 2..k : host'.got[i] = mem[host.cmd.addr][i - 1]
      <3> TAKE i \in 2..k
      <3>1. CASE i < k
        <4>1. host'.got[i] = host.got[i]
          BY <1>2, <1>count, <3>1, ChipFacts, SMTT(40) DEF IInv
        <4> QED BY <1>1, <1>2, <1>count, <3>1, <4>1 DEF Reading
      <3>2. CASE i = k
        <4>1. host'.got[i] = chip.do
          BY <1>2, <3>2, ChipFacts DEF IInv
        <4>2. chip.do = mem[host.cmd.addr][chip.readIdx] /\ chip.readIdx = i - 1
          BY <1>1, <1>2, <1>count, <3>2 DEF Reading
        <4> QED BY <4>1, <4>2
      <3> QED BY <1>2, <3>1, <3>2
    <2>7. mem' = mem
      BY <1>1 DEF Keeps
    <2>8. Reading'
      <3>1. chip'.readIdx \in 0..DataBits
        BY <1>2, <1>5, <2>3
      <3> QED BY <1>2, <1>3, <2>3, <2>5, <2>6, <2>7, <3>1 DEF Reading
    <2> QED BY <1>1, <2>4, <2>8, EdgeHost DEF IInv, Framed
  <1> QED BY <1>2, <1>4, <1>5

\* The data of a write so far, with the bit on DI.
LEMMA Accumulated ==
    ASSUME IInv, Edge, chip.phase = "write_word_in", NEW s, s = Append(chip.accum, DI)
    PROVE  /\ Writing
           /\ host'.cmd = host.cmd /\ host.cmd.op = "write" /\ host'.got = <<>>
           /\ s \in Seq(Bit) /\ Len(s) = Len(chip.accum) + 1
           /\ host'.edges = BodyBits + 1 + Len(s)
           /\ Len(s) <= DataBits
           /\ \A i \in 1..Len(s) : s[i] = host.cmd.data[i]
  <1>1. Writing
    BY Phases
  <1>2. /\ host.edges = BodyBits + 1 + Len(chip.accum)
        /\ host.cmd.op = "write" /\ host.got = <<>>
    BY <1>1 DEF Writing
  <1>bits. /\ \A i \in 1..Len(chip.accum) : chip.accum[i] = host.cmd.data[i]
    BY <1>1 DEF Writing
  <1>3. /\ chip.accum \in Seq(Bit) /\ Len(chip.accum) \in Nat /\ Len(chip.accum) < DataBits
        /\ BodyBits \in Nat /\ DataBits \in Nat /\ host.cmd \in Command
    BY ChipFacts, HostFacts DEF IInv
  <1>4. s \in Seq(Bit) /\ Len(s) = Len(chip.accum) + 1
    BY <1>3, EdgeHost
  <1>5. DI = host.cmd.data[Len(s)]
    <2>1. host.edges + 1 = BodyBits + 1 + Len(s) /\ Len(s) \in 1..DataBits
      <3>1. Len(chip.accum) \in Nat /\ BodyBits \in Nat /\ DataBits \in Nat
        BY <1>3
      <3>2. /\ (BodyBits + 1 + Len(chip.accum)) + 1 = BodyBits + 1 + (Len(chip.accum) + 1)
            /\ Len(chip.accum) + 1 \in 1..DataBits
        BY <1>3, <3>1, NextPosition
      <3>3. host.edges + 1 = BodyBits + 1 + (Len(chip.accum) + 1)
        BY <1>2, <3>2
      <3> QED BY <1>4, <3>2, <3>3
    <2>2. DI = FrameBit(host.cmd, BodyBits + 1 + Len(s))
      BY <2>1, EdgeHost
    <2> QED BY <1>2, <1>3, <2>1, <2>2, FrameBits
  <1>6. \A i \in 1..Len(s) : s[i] = host.cmd.data[i]
    BY <1>bits, <1>3, <1>4, <1>5
  <1>7. host'.edges = BodyBits + 1 + Len(s) /\ host'.got = <<>> /\ host'.cmd = host.cmd
    <2>1. host'.edges = host.edges + 1 /\ host'.got = Sampled /\ host'.cmd = host.cmd
      BY EdgeHost
    <2>2. Sampled = host.got
      BY <1>2 DEF Sampled, Sampling
    <2>3. host'.edges = BodyBits + 1 + Len(s)
      BY <1>2, <1>3, <1>4, <2>1, NextPosition
    <2> QED BY <1>2, <2>1, <2>2, <2>3
  <1> QED BY <1>1, <1>2, <1>3, <1>4, <1>6, <1>7

LEMMA WriteBitInv == IInv /\ WriteBit => IInv'
  <1> SUFFICES ASSUME IInv, WriteBit PROVE IInv'
    OBVIOUS
  <1> DEFINE s == Append(chip.accum, DI)
  <1>1. /\ Edge /\ Keeps /\ chip.phase = "write_word_in"
        /\ Len(chip.accum) + 1 < DataBits /\ chip' = [chip EXCEPT !.accum = s]
    BY DEF WriteBit
  <1>2. /\ Writing
        /\ host'.cmd = host.cmd /\ host.cmd.op = "write" /\ host'.got = <<>>
        /\ s \in Seq(Bit) /\ Len(s) = Len(chip.accum) + 1
        /\ host'.edges = BodyBits + 1 + Len(s)
        /\ \A i \in 1..Len(s) : s[i] = host.cmd.data[i]
    BY <1>1, Accumulated
  <1> HIDE DEF s
  <1>3. chip' \in Chip /\ chip'.phase = "write_word_in" /\ chip'.sr = chip.sr
        /\ chip'.addr = chip.addr /\ chip'.commit = chip.commit
        /\ chip'.readIdx = chip.readIdx /\ chip'.accum = s
    BY <1>1, <1>2 DEF IInv, EepromTypeOK, Chip
  <1>4. EepromTypeOK' /\ MirrorAgrees'
    BY <1>1, <1>2, <1>3, EdgeType, ChipFacts DEF IInv
  <1>5. Writing'
    <2>1. enabled' = enabled /\ chip.addr = host.cmd.addr /\ chip.commit = enabled
      BY <1>1, <1>2 DEF Keeps, Writing
    <2> QED BY <1>2, <1>3, <2>1 DEF Writing
  <1> QED BY <1>1, <1>4, <1>5, EdgeHost DEF IInv, Framed

LEMMA WriteWordInv == IInv /\ WriteWord => IInv'
  <1> SUFFICES ASSUME IInv, WriteWord PROVE IInv'
    OBVIOUS
  <1> DEFINE s == Append(chip.accum, DI)
  <1>1. /\ Edge /\ chip.phase = "write_word_in" /\ Len(chip.accum) + 1 = DataBits
        /\ chip' = AfterWrite /\ enabled' = enabled
        /\ IF chip.commit
           THEN mem' = [mem EXCEPT ![chip.addr] = s] /\ nvram' = Mirrored(chip.addr, s)
           ELSE mem' = mem /\ nvram' = nvram
    BY DEF WriteWord
  <1>2. /\ host'.cmd = host.cmd /\ host.cmd.op = "write"
        /\ s \in Seq(Bit) /\ Len(s) = DataBits
        /\ host'.edges = BodyBits + 1 + DataBits
    BY <1>1, Accumulated
  <1> HIDE DEF s
  <1>3. s \in Word
    BY <1>2, Types DEF Word
  <1>4. mem' \in [Addr -> Word] /\ nvram' \in Image /\ MirrorAgrees'
    <2>1. CASE chip.commit
      BY <1>1, <1>3, <2>1, Stored, ChipFacts DEF IInv
    <2>2. CASE ~chip.commit
      BY <1>1, <2>2 DEF IInv, EepromTypeOK, MirrorAgrees
    <2> QED BY <2>1, <2>2
  <1>5. chip' \in Chip /\ chip'.phase = "wait_start" /\ chip'.sr = chip.sr
        /\ chip'.readIdx = chip.readIdx /\ Len(chip'.accum) = 0
    <2>1. <<>> \in Seq(Bit) /\ Len(<<>>) = 0
      OBVIOUS
    <2> QED BY <1>1, <2>1 DEF AfterWrite, IInv, EepromTypeOK, Chip
  <1>6. EepromTypeOK'
    <2>1. /\ Len(chip'.sr) <= BodyBits /\ chip'.readIdx <= DataBits + 1
          /\ Len(chip'.accum) < DataBits
      BY <1>5, ChipFacts, Types DEF IInv
    <2> QED BY <1>1, <1>4, <1>5, <2>1, EdgeHost DEF IInv, EepromTypeOK, Host
  <1>7. Framed'
    <2>1. ~Busy' /\ cs'
      BY <1>1, <1>2, HostFacts, EdgeHost DEF Busy, IInv
    <2> QED BY <1>5, <2>1 DEF Framed, Waiting
  <1> QED BY <1>1, <1>4, <1>6, <1>7, EdgeHost DEF IInv

LEMMA StutterInv == IInv /\ UNCHANGED eepromVars => IInv'
  BY DEF IInv, eepromVars, EepromTypeOK, Framed, Samples, MirrorAgrees, Waiting, InCommand, Reading, Writing, Busy

LEMMA NextInv == IInv /\ [EepromNext]_eepromVars => IInv'
  BY BeginInv, StartBitInv, CommandBitInv, EwenInv, BeginReadInv, BeginWriteInv, EraseWordInv,
     IgnoredInv, ReadEdgeInv, WriteBitInv, WriteWordInv, SelectRiseInv, SelectFallInv,
     MachineResetInv, NewSessionInv, StutterInv
     DEF EepromNext, Clock

\* The chip and the host agree where a command ends.
LEMMA InStepInv == IInv => InStep
  <1> SUFFICES ASSUME IInv, cs PROVE chip.phase = "wait_start" <=> ~Busy \/ host.edges = 0
    BY DEF InStep
  <1>1. ~Busy => chip.phase = "wait_start"
    BY AtRest DEF IInv
  <1>2. host.edges = 0 => Waiting
    <2>1. BodyBits \in Nat /\ Len(chip.accum) \in Nat
      BY ChipFacts, HostFacts DEF IInv
    <2>2. ASSUME NEW n \in Nat PROVE BodyBits + 1 + n # 0
      BY <2>1
    <2>3. InCommand => host.edges # 0
      BY DEF InCommand
    <2>4. Reading => host.edges # 0
      BY <2>2, ChipFacts DEF Reading, IInv
    <2>5. Writing => host.edges # 0
      BY <2>1, <2>2 DEF Writing
    <2> QED BY <2>3, <2>4, <2>5 DEF IInv, Framed
  <1>3. chip.phase = "wait_start" => Waiting
    BY DEF IInv, Framed, InCommand, Reading, Writing
  <1> QED BY <1>1, <1>2, <1>3 DEF Waiting

-------------------------------------------------------------------------------
\* The store of words.

LEMMA RestoredContents == \A image : Contents(image) = Store!Restored(image)
  BY DEF Contents, Store!Restored

LEMMA LoadedTrusted ==
    \A image : Trusted(image) = IF Store!Trusted(image) THEN image ELSE Defaults
  BY DEF Trusted, Store!Trusted

\* The mirror is what the store keeps.
LEMMA MirrorKept ==
    ASSUME IInv
    PROVE  /\ nvram = [a \in Backed |-> mem[a]]
           /\ Contents(nvram) = Store!Restored(mem)
  <1>1. nvram = [a \in Backed |-> mem[a]]
    BY DEF IInv, EepromTypeOK, MirrorAgrees, Image
  <1>2. Contents(nvram) = Store!Restored(mem)
    BY <1>1 DEF Contents, Store!Restored
  <1> QED BY <1>1, <1>2

LEMMA StoreInit == EepromInit => Store!Init
  <1> SUFFICES ASSUME EepromInit PROVE Store!Init
    OBVIOUS
  <1>1. PICK c \in Commands : host = [cmd |-> c, edges |-> FrameLength(c), got |-> <<>>]
    BY DEF EepromInit
  <1>2. FrameLength(c) \in Nat
    BY Types, Lengths
  <1>3. Busy = FALSE /\ host.cmd \in Commands
    BY <1>1, <1>2 DEF Busy
  <1>4. Answer = <<>>
    <2>1. host.got = <<>> /\ DataBits + 1 # 0
      BY <1>1, Types
    <2> QED BY <2>1 DEF Answer
  <1>5. mem = Store!Restored(Defaults) /\ enabled = FALSE /\ saved = Defaults
    BY RestoredContents DEF EepromInit
  <1> QED BY <1>3, <1>4, <1>5 DEF Store!Init

LEMMA SequenceOfBits ==
    ASSUME NEW n \in Nat, NEW s \in Seq(Bit), Len(s) = n
    PROVE  s \in [1..n -> Bit]
  OBVIOUS

\* The samples of a completed read, without the dummy bit, are the word.
LEMMA Samplings ==
    ASSUME NEW g \in Seq(Bit), NEW w \in Word, Len(g) = DataBits + 1,
           \A i \in 2..(DataBits + 1) : g[i] = w[i - 1]
    PROVE  Tail(g) = w
  <1>1. DataBits \in Nat
    BY Types
  <1>2. Tail(g) \in Seq(Bit) /\ Len(Tail(g)) = DataBits
    BY <1>1
  <1>3. \A i \in 1..DataBits : Tail(g)[i] = w[i]
    BY <1>1, <1>2
  <1>4. Tail(g) \in [1..DataBits -> Bit]
    BY <1>1, <1>2, SequenceOfBits
  <1> QED BY <1>3, <1>4 DEF Word

LEMMA OneBitMore ==
    ASSUME NEW g \in Seq(Bit), NEW b \in Bit, NEW n \in Nat, Len(g) = n
    PROVE  Append(g, b) \in Seq(Bit) /\ Len(Append(g, b)) = n + 1
  OBVIOUS

\* After the last edge but one of a read, one more sample makes the word complete.
LEMMA LastSample ==
    ASSUME IInv, Reading, chip.readIdx = DataBits
    PROVE  Len(Sampled) = DataBits + 1 /\ Tail(Sampled) = mem[host.cmd.addr]
  <1>1. /\ host.got \in Seq(Bit) /\ Len(host.got) = DataBits /\ chip.do \in Bit
        /\ DataBits \in Nat \ {0} /\ BodyBits \in Nat /\ mem[host.cmd.addr] \in Word
    BY HostFacts, ChipFacts, Fields DEF IInv, EepromTypeOK, Reading
  <1>2. Sampled = Append(host.got, chip.do)
    BY <1>1 DEF Reading, Sampled, Sampling
  <1>3. Sampled \in Seq(Bit) /\ Len(Sampled) = DataBits + 1
    BY <1>1, <1>2, OneBitMore
  <1>4. \A i \in 2..(DataBits + 1) : Sampled[i] = mem[host.cmd.addr][i - 1]
    BY <1>1, <1>2 DEF Reading
  <1> QED BY <1>1, <1>3, <1>4, Samplings

\* No samples, or a command under way: no answer.
LEMMA NoAnswers == (Busy \/ host.got = <<>>) => Answer = <<>>
  BY Types DEF Answer

LEMMA BeginStore == IInv /\ Begin => Store!Next
  <1> SUFFICES ASSUME IInv, Begin PROVE Store!Next
    OBVIOUS
  <1>1. PICK c \in Commands : host' = [cmd |-> c, edges |-> 0, got |-> <<>>]
    BY DEF Begin
  <1>2. FrameLength(c) \in Nat /\ FrameLength(c) > 0
    BY Types, Lengths
  <1>3. host'.cmd = c /\ Busy' = TRUE /\ Answer' = <<>>
    BY <1>1, <1>2, Types DEF Busy, Answer
  <1>4. Store!Begin(c)
    BY <1>3 DEF Begin, Store!Begin
  <1> QED BY <1>4 DEF Store!Next

LEMMA SelectRiseStore == SelectRise => UNCHANGED Store!vars
  BY DEF SelectRise, Store!vars, Busy, Answer

LEMMA SelectFallStore == IInv /\ SelectFall => Store!Next \/ UNCHANGED Store!vars
  <1> SUFFICES ASSUME IInv, SelectFall PROVE Store!Next \/ UNCHANGED Store!vars
    OBVIOUS
  <1>1. UNCHANGED <<enabled, mem, saved>>
    BY DEF SelectFall
  <1>2. CASE ~Busy
    <2>1. host' = host
      BY <1>2 DEF SelectFall
    <2> QED BY <1>1, <2>1 DEF Store!vars, Busy, Answer
  <1>3. CASE Busy /\ Sampling /\ host.edges + 1 = FrameLength(host.cmd)
    <2>1. host' = [HostDone EXCEPT !.got = Sampled]
      BY <1>3 DEF SelectFall
    <2>2. host'.cmd = host.cmd /\ host'.edges = FrameLength(host.cmd) /\ host'.got = Sampled
      BY <2>1, Cut DEF IInv, Host
    <2>3. host.cmd.op = "read" /\ host.edges > BodyBits
      BY <1>3 DEF Sampling
    <2>4. Reading
      <3>1. ~Waiting /\ ~InCommand /\ ~Writing
        BY <1>3, <2>3, HostFacts DEF IInv, Waiting, InCommand, Writing
      <3> QED BY <3>1 DEF IInv, Framed, SelectFall
    <2>5. chip.readIdx = DataBits
      BY <1>3, <2>3, <2>4, HostFacts, ChipFacts DEF IInv, Reading
    <2>6. Tail(host'.got) = mem[host.cmd.addr] /\ Len(host'.got) = DataBits + 1
      BY <2>2, <2>4, <2>5, LastSample
    <2>7. Busy' = FALSE
      BY <2>2, HostFacts DEF IInv, Busy
    <2>8. Answer' = mem[host.cmd.addr]
      BY <2>6, <2>7 DEF Answer
    <2>9. Store!Execute
      <3>1. enabled \in BOOLEAN
        BY DEF IInv, EepromTypeOK
      <3> QED BY <1>1, <1>3, <2>2, <2>3, <2>7, <2>8, <3>1 DEF Store!Execute
    <2> QED BY <2>9 DEF Store!Next
  <1>4. CASE Busy /\ ~(Sampling /\ host.edges + 1 = FrameLength(host.cmd))
    <2>1. host' = HostDone
      BY <1>4 DEF SelectFall
    <2>2. host'.cmd = host.cmd /\ Busy' = FALSE /\ Answer' = <<>> /\ Answer = <<>>
      BY <1>4, <2>1, Cut, HostFacts, NoAnswers, Types DEF IInv, Busy, Answer
    <2>3. Store!Abort
      BY <1>1, <1>4, <2>2 DEF Store!Abort
    <2> QED BY <2>3 DEF Store!Next
  <1> QED BY <1>2, <1>3, <1>4

\* A reset or a new session interrupts whatever was under way.
LEMMA SyncedStore ==
    ASSUME IInv, NEW image, Synced(image)
    PROVE  Store!Interrupted
  <1>1. host'.cmd = host.cmd /\ host'.got = <<>> /\ Busy' = FALSE
    BY Cut, HostFacts DEF IInv, Synced, Busy
  <1>2. Answer' = <<>>
    BY <1>1, Types DEF Answer
  <1> QED BY <1>1, <1>2 DEF Synced, Store!Interrupted

LEMMA MachineResetStore == IInv /\ MachineReset => Store!Next
  <1> SUFFICES ASSUME IInv, MachineReset PROVE Store!Next
    OBVIOUS
  <1>1. Store!Reset
    BY SyncedStore, MirrorKept DEF MachineReset, Synced, Store!Reset
  <1> QED BY <1>1 DEF Store!Next

LEMMA NewSessionStore == IInv /\ NewSession => Store!Next
  <1> SUFFICES ASSUME IInv, NewSession PROVE Store!Next
    OBVIOUS
  <1>1. Store!Interrupted
    BY SyncedStore DEF NewSession
  <1>2. saved' \in {saved, [a \in Backed |-> mem[a]]}
    BY MirrorKept DEF NewSession
  <1>3. mem' = Store!Restored(IF Store!Trusted(saved') THEN saved' ELSE Defaults)
    BY LoadedTrusted, RestoredContents DEF NewSession, Synced
  <1>4. Store!NewSession
    BY <1>1, <1>2, <1>3 DEF Store!NewSession
  <1> QED BY <1>4 DEF Store!Next

\* An edge that does not end the host's command is a stutter of the store.
LEMMA EdgeStutters ==
    ASSUME IInv, Edge, Keeps, Busy'
    PROVE  UNCHANGED Store!vars
  <1>1. Busy = TRUE /\ Busy' = TRUE
    BY EdgeHost DEF Busy
  <1>2. Answer = <<>> /\ Answer' = <<>>
    BY <1>1 DEF Answer
  <1> QED BY <1>1, <1>2, EdgeHost DEF Keeps, Store!vars

\* An edge that ends a command other than a read executes it if the contents follow.
LEMMA EdgeExecutes ==
    ASSUME IInv, Edge, ~Busy', host.cmd.op # "read",
           mem' = CASE host.cmd.op = "write" /\ enabled -> [mem EXCEPT ![host.cmd.addr] = host.cmd.data]
                    [] host.cmd.op = "erase" /\ enabled -> [mem EXCEPT ![host.cmd.addr] = Ones]
                    [] OTHER -> mem,
           enabled' = (enabled \/ host.cmd.op = "enable")
    PROVE  Store!Next
  <1>1. /\ host'.cmd = host.cmd /\ saved' = saved /\ Busy /\ Busy' = FALSE
        /\ host'.got = <<>>
    BY EdgeHost DEF Busy, Samples
  <1>2. Answer' = <<>>
    BY <1>1, Types DEF Answer
  <1>3. Store!Execute
    BY <1>1, <1>2 DEF Store!Execute
  <1> QED BY <1>3 DEF Store!Next

LEMMA ShortEdgesStore ==
    ASSUME IInv, StartBit \/ CommandBit \/ WriteBit
    PROVE  UNCHANGED Store!vars
  <1>1. Edge /\ Keeps
    BY DEF StartBit, CommandBit, WriteBit
  <1>2. /\ host'.cmd = host.cmd /\ host'.edges = host.edges + 1
        /\ BodyBits \in Nat \ {0} /\ FrameLength(host.cmd) \in Nat
        /\ FrameLength(host.cmd) > BodyBits
    BY <1>1, EdgeHost, HostFacts DEF IInv
  <1>3. host'.edges < FrameLength(host.cmd)
    <2>1. CASE StartBit
      <3>1. host.edges = 0 /\ FrameLength(host.cmd) > 1
        BY <1>1, <2>1, Phases, HostFacts, Types DEF StartBit, IInv
      <3> QED BY <1>2, <3>1
    <2>2. CASE CommandBit
      <3>1. InCommand /\ Len(ShiftedIn) < BodyBits
        BY <1>1, <2>2, Phases DEF CommandBit
      <3>2. Len(ShiftedIn) = Len(chip.sr) + 1
        BY <1>1, EdgeHost, ChipFacts DEF ShiftedIn, IInv
      <3>3. host.edges < BodyBits
        BY <1>2, <3>1, <3>2 DEF InCommand
      <3> QED BY <1>2, <3>3, HostFacts DEF IInv
    <2>3. CASE WriteBit
      <3>1. /\ host'.edges = BodyBits + 1 + (Len(chip.accum) + 1)
            /\ host.cmd.op = "write"
            /\ Len(chip.accum) + 1 < DataBits
        BY <1>1, <2>3, Accumulated DEF WriteBit
      <3>2. FrameLength(host.cmd) = 1 + BodyBits + DataBits /\ DataBits \in Nat
            /\ Len(chip.accum) \in Nat
        BY <3>1, HostFacts, ChipFacts DEF IInv
      <3> DEFINE n == Len(chip.accum)
      <3>3. BodyBits + 1 + (n + 1) < 1 + BodyBits + DataBits
        <4> HIDE DEF n
        <4>1. \A b, d, m \in Nat : m + 1 < d => b + 1 + (m + 1) < 1 + b + d
          OBVIOUS
        <4>2. n \in Nat /\ n + 1 < DataBits
          BY <3>1, <3>2 DEF n
        <4> QED BY <1>2, <3>2, <4>1, <4>2
      <3> QED BY <3>1, <3>2, <3>3
    <2> QED BY <2>1, <2>2, <2>3
  <1> QED BY <1>1, <1>2, <1>3, EdgeStutters DEF Busy

LEMMA CompleteStore ==
    ASSUME IInv, Ewen \/ BeginRead \/ BeginWrite \/ EraseWord \/ Ignored
    PROVE  Store!Next \/ UNCHANGED Store!vars
  <1>1. CommandComplete /\ Edge /\ enabled \in BOOLEAN /\ AddrField = host.cmd.addr
    BY Complete DEF Ewen, BeginRead, BeginWrite, EraseWord, Ignored, IInv, EepromTypeOK
  <1>2. CASE Ewen
    <2>1. host.cmd.op = "enable" /\ enabled' = TRUE /\ mem' = mem
      BY <1>1, <1>2, Complete DEF Ewen
    <2> QED BY <1>1, <2>1, CommandOver, EdgeExecutes
  <1>3. CASE EraseWord
    <2>1. /\ host.cmd.op = "erase" /\ enabled /\ enabled' = enabled
          /\ mem' = [mem EXCEPT ![host.cmd.addr] = Ones]
      BY <1>1, <1>3, Complete DEF EraseWord
    <2> QED BY <1>1, <2>1, CommandOver, EdgeExecutes
  <1>4. CASE Ignored
    <2>1. /\ host.cmd.op = "other" \/ (host.cmd.op = "erase" /\ ~enabled)
          /\ enabled' = enabled /\ mem' = mem
      BY <1>1, <1>4, Complete DEF Ignored, Keeps
    <2> QED BY <1>1, <2>1, CommandOver, EdgeExecutes
  <1>5. CASE BeginRead \/ BeginWrite
    <2>1. Keeps /\ host.cmd.op \in {"read", "write"}
      BY <1>1, <1>5, Complete DEF BeginRead, BeginWrite
    <2>2. host'.cmd = host.cmd /\ host'.edges = BodyBits + 1
      BY <1>1, Complete, EdgeHost
    <2>3. BodyBits + 1 < FrameLength(host.cmd)
      BY <2>1, HostFacts DEF IInv
    <2> QED BY <1>1, <2>1, <2>2, <2>3, EdgeStutters DEF Busy
  <1> QED BY <1>2, <1>3, <1>4, <1>5

LEMMA ReadEdgeStore == IInv /\ ReadEdge => Store!Next \/ UNCHANGED Store!vars
  <1> SUFFICES ASSUME IInv, ReadEdge PROVE Store!Next \/ UNCHANGED Store!vars
    OBVIOUS
  <1>1. Edge /\ Keeps /\ Reading
    BY Phases DEF ReadEdge
  <1>2. CASE Busy'
    BY <1>1, <1>2, EdgeStutters
  <1>3. CASE ~Busy'
    <2>1. /\ host'.cmd = host.cmd /\ host'.edges = host.edges + 1 /\ host'.got = Sampled
          /\ host.edges < FrameLength(host.cmd) /\ saved' = saved /\ Busy
          /\ host.cmd.op = "read" /\ host.edges = BodyBits + 1 + chip.readIdx
      BY <1>1, EdgeHost DEF Reading
    <2>2. /\ FrameLength(host.cmd) = 2 + BodyBits + DataBits
          /\ BodyBits \in Nat \ {0} /\ DataBits \in Nat \ {0} /\ chip.readIdx \in Nat
      BY <2>1, HostFacts, ChipFacts DEF IInv
    <2>3. chip.readIdx = DataBits
      BY <1>3, <2>1, <2>2 DEF Busy
    <2>4. Tail(host'.got) = mem[host.cmd.addr] /\ Len(host'.got) = DataBits + 1
      BY <1>1, <2>1, <2>3, LastSample
    <2>6. Busy' = FALSE /\ Answer' = mem[host.cmd.addr]
      BY <1>3, <2>4 DEF Answer, Busy
    <2>7. Store!Execute
      <3>1. enabled \in BOOLEAN /\ enabled' = enabled /\ mem' = mem
        BY <1>1 DEF IInv, EepromTypeOK, Keeps
      <3> QED BY <2>1, <2>6, <3>1 DEF Store!Execute
    <2> QED BY <2>7 DEF Store!Next
  <1> QED BY <1>2, <1>3

LEMMA WriteWordStore == IInv /\ WriteWord => Store!Next
  <1> SUFFICES ASSUME IInv, WriteWord PROVE Store!Next
    OBVIOUS
  <1> DEFINE s == Append(chip.accum, DI)
  <1>1. /\ Edge /\ chip.phase = "write_word_in" /\ Len(chip.accum) + 1 = DataBits
        /\ enabled' = enabled
        /\ IF chip.commit THEN mem' = [mem EXCEPT ![chip.addr] = s] ELSE mem' = mem
    BY DEF WriteWord
  <1>2. /\ Writing
        /\ host'.cmd = host.cmd /\ host.cmd.op = "write"
        /\ s \in Seq(Bit) /\ Len(s) = DataBits
        /\ host'.edges = BodyBits + 1 + DataBits
        /\ \A i \in 1..DataBits : s[i] = host.cmd.data[i]
    BY <1>1, Accumulated
  <1> HIDE DEF s
  <1>3. s = host.cmd.data
    <2>1. s \in [1..DataBits -> Bit] /\ host.cmd.data \in [1..DataBits -> Bit]
      BY <1>2, Types, SequenceOfBits, HostFacts, Fields DEF IInv, Word
    <2> QED BY <1>2, <2>1
  <1>4. chip.addr = host.cmd.addr /\ chip.commit = enabled /\ enabled \in BOOLEAN
    BY <1>2 DEF Writing, IInv, EepromTypeOK
  <1>5. ~Busy'
    BY <1>2, HostFacts DEF Busy, IInv
  <1> QED BY <1>1, <1>2, <1>3, <1>4, <1>5, EdgeExecutes

LEMMA StoreStep == IInv /\ [EepromNext]_eepromVars => [Store!Next]_(Store!vars)
  <1>1. UNCHANGED eepromVars => UNCHANGED Store!vars
    BY DEF eepromVars, Store!vars, Busy, Answer
  <1> QED BY <1>1, BeginStore, ShortEdgesStore, CompleteStore, ReadEdgeStore, WriteWordStore,
             SelectRiseStore, SelectFallStore, MachineResetStore, NewSessionStore
             DEF EepromNext, Clock

-------------------------------------------------------------------------------
\* Theorems.

\* For every width, set of commands and NVRAM size the decoder's registers, the contents, the
\* image and the host keep their types: no index ever leaves its register.
THEOREM EepromTypeCorrect == EepromSpec => []EepromTypeOK
  <1>1. IInv => EepromTypeOK
    BY DEF IInv
  <1> QED BY InitInv, NextInv, <1>1, PTL DEF EepromSpec

\* For every width and set of commands the chip waits for START exactly while the host
\* is between commands, so that no clock of one command is taken for another's.
THEOREM StepCorrect == EepromSpec => []InStep
  BY InitInv, NextInv, InStepInv, PTL DEF EepromSpec

\* The NVRAM holds every word it has room for as the EEPROM holds it.
THEOREM MirrorCorrect == EepromSpec => []MirrorAgrees
  <1>1. IInv => MirrorAgrees
    BY DEF IInv
  <1> QED BY InitInv, NextInv, <1>1, PTL DEF EepromSpec

\* The bit-serial decoder with its mirror implements the store of words: commands are
\* atomic however they are cut short, only an enabled write changes a word, a
\* read returns the whole word, and contents outlive resets and clean exits.
THEOREM ImplementsStore == EepromSpec => StoreSpec
  BY StoreInit, StoreStep, InitInv, NextInv, PTL DEF EepromSpec, StoreSpec, Store!Spec

-------------------------------------------------------------------------------
(* The two links behind one clock.  *)

\* Both links' inductive invariants; the link that is not exercised stutters.
SerialInv == LinkStrong /\ IInv

LEMMA SerialInitInv == SerialInit => SerialInv
  BY InitType, InitRts, InitClass, InitInv DEF SerialInit, SerialInv, LinkStrong

LEMMA SerialSteps ==
    [SerialNext]_serialVars => [Next]_vars /\ [EepromNext]_eepromVars
  BY DEF SerialNext, serialVars

LEMMA SerialStepInv == SerialInv /\ [SerialNext]_serialVars => SerialInv'
  BY SerialSteps, StepType, StepRts, StepClass, NextInv DEF SerialInv, LinkStrong

LEMMA SerialInvHolds == SerialSpec => []SerialInv
  BY SerialInitInv, SerialStepInv, PTL DEF SerialSpec

\* Whichever link the CP clocks, the queues, the registers and the stored words of both keep
\* their types, for every width, command set and bound.
THEOREM SerialTypeCorrect == SerialSpec => []SerialTypeOK
<1>1. SerialInv => SerialTypeOK
  BY DEF SerialInv, SerialTypeOK, LinkStrong, IInv
<1> QED
  BY <1>1, SerialInvHolds, PTL

\* RTS is exact, the EEPROM's decoder and its host agree where commands end, and every word the
\* NVRAM has room for is the same in both.
THEOREM SerialSafe == SerialSpec => [](LinkInv /\ InStep /\ MirrorAgrees)
<1>1. SerialInv => LinkInv /\ InStep /\ MirrorAgrees
  BY InStepInv DEF SerialInv, LinkStrong, IInv
<1> QED
  BY <1>1, SerialInvHolds, PTL

\* No behaviour of the two links lets a normal byte into the register before a priority byte.
THEOREM SerialPriority == SerialSpec => PriorityFirst
<1>1. SerialInv /\ [SerialNext]_serialVars
        => [link'.shift # link.shift /\ link'.shift # NoByte /\ link'.shift.class = "norm"
              => link'.prio = <<>>]_vars
  BY SerialSteps, StepPriority DEF SerialInv
<1> QED
  BY <1>1, SerialInvHolds, PTL DEF SerialSpec, PriorityFirst

\* The byte link implements the two FIFOs (the safety part of FifoSpec) and the EEPROM the store
\* of words, in every behaviour that exercises one of them.
THEOREM SerialImplements ==
    SerialSpec => Fifo!Init /\ [][Fifo!Next]_(Fifo!vars) /\ StoreSpec
<1>1. SerialInit => Fifo!Init /\ Store!Init
  BY InitFifo, StoreInit DEF SerialInit
<1>2. SerialInv /\ SerialInv' /\ [SerialNext]_serialVars
        => [Fifo!Next]_(Fifo!vars) /\ [Store!Next]_(Store!vars)
  BY SerialSteps, StepFifo, StoreStep DEF SerialInv
<1> QED
  BY <1>1, <1>2, SerialInvHolds, PTL DEF SerialSpec, StoreSpec, Store!Spec
===============================================================================
