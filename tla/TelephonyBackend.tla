--------------------------- MODULE TelephonyBackend ---------------------------
(***************************************************************************)
(* The default telephony backend: the wrapper that runs the 8048 core and    *)
(* turns its port writes into octets and tones for the CP.                   *)
(*                                                                          *)
(* The program is any program: it may answer a CP octet on the bus while it  *)
(* is being served, write octets and tone registers while it runs freely, or *)
(* do neither.  A poll of the front panel serves every octet the CP has      *)
(* queued and then lets the core run; a CP octet only joins the queue, and   *)
(* collects what earlier services answered; each answer goes by its value to *)
(* one of the two queues of the link, of which one overtakes the other.      *)
(***************************************************************************)
EXTENDS Naturals, Sequences, FiniteSetsExt, SequencesExt

CONSTANTS
  Answers,      \* bound: octets the program writes to the bus
  MaxQueuedTp,  \* bound: CP octets queued between two polls
  MaxAnswers,   \* bound: answers written in one poll
  MaxGivenTp    \* bound: answers written since the reset

ASSUME BackendAssumption ==
  /\ Answers \subseteq 0..255
  /\ MaxQueuedTp \in Nat /\ MaxAnswers \in Nat /\ MaxGivenTp \in Nat

VARIABLES
  tp,           \* the wrapper
  tpWritten,    \* history: the answers the program wrote,
  tpGiven       \* and those each queue of the link was given
backendVars == <<tp, tpWritten, tpGiven>>

PowerAck == {112, 114}       \* 0x70, 0x72
StatusHeader == 192          \* 0xC0
ErrorHeader == 196           \* 0xC4

(* The queue of the link an answer joins: ipcomm_queue_rx_byte with priority *)
(* from 0xC0 on.  ForQueue is what a list of answers adds to a queue.        *)
LinkQueues == {"prio", "norm"}
\* A slip: from above 0xC0 on.
QueueOfAbove(octet) == IF octet > 192 THEN "prio" ELSE "norm"
QueueOf(octet) == IF octet >= 192 THEN "prio" ELSE "norm"
ForQueue(octets, queue) ==
  LET joined[i \in 0..Len(octets)] ==
        IF i = 0 THEN <<>>
        ELSE IF QueueOf(octets[i]) = queue THEN Append(joined[i - 1], octets[i])
        ELSE joined[i - 1]
  IN joined[Len(octets)]

Answered == SeqOf(Answers, MaxAnswers)
Tones == {"none", "nis", "dtmf", "dialtone"}

BackendTypeOK ==
  /\ tp \in [queued : 0..MaxQueuedTp, replies : Seq(0..255), seized : BOOLEAN,
             offHook : BOOLEAN, oos : BOOLEAN, voice : BOOLEAN, tone : Tones,
             output : Tones, polled : BOOLEAN, ack : BOOLEAN, error : BOOLEAN, status : BOOLEAN, contract : BOOLEAN]
  /\ tpWritten \in Seq(0..255) /\ tpGiven \in [LinkQueues -> Seq(0..255)]

BackendIdle ==
  [queued |-> 0, replies |-> <<>>, seized |-> FALSE, offHook |-> FALSE,
   oos |-> FALSE, voice |-> FALSE, tone |-> "none", output |-> "none",
   polled |-> FALSE, ack |-> FALSE, error |-> FALSE,
   status |-> FALSE, contract |-> FALSE]

NothingGiven == [queue \in LinkQueues |-> <<>>]

BackendInit == tp = BackendIdle /\ tpWritten = <<>> /\ tpGiven = NothingGiven

(* The tone of an input snapshot: a DTMF tone is not carried over from one   *)
(* snapshot to the next, whatever the tone registers hold.                   *)
SnapshotTone(t) ==
  IF t.offHook /\ ~t.voice /\ t.oos /\ ~t.seized THEN "nis" ELSE "none"

(* What the earpiece plays after a poll.  reported is the hook the program   *)
(* told the CP of, which decides for all but the tone of the snapshot; shown *)
(* is the out-of-service display of this moment, without the history that    *)
(* the snapshot adds to it.                                                  *)
Earpiece(t, reported, rxOpen, shown) ==
  IF t.tone = "nis" THEN "nis"
  ELSE IF t.tone = "dtmf"
       THEN IF reported /\ rxOpen THEN "dialtone" ELSE "none"
  ELSE IF reported /\ rxOpen /\ shown /\ ~t.voice /\ ~t.seized THEN "nis"
  ELSE "none"

(* What the sound outputs are set to after a poll, whatever the route.       *)
Outputs(t, oos) ==
  {Earpiece(t, reported, rxOpen, shown) : reported, rxOpen \in BOOLEAN, shown \in {oos, FALSE}}

(* A poll of the front panel: snapshot, services, free run, hook, earpiece.  *)
(* The octets of the free run are told only as the hook they report, if any. *)
PanelPoll ==
  \E offHook, oos, voice \in BOOLEAN,
     answers \in IF tp.queued = 0 THEN {<<>>} ELSE Answered :
       LET seen == [tp EXCEPT !.offHook = offHook, !.oos = oos, !.voice = voice]
       IN \E tone \in {SnapshotTone(seen), "dtmf", "none"} :
            LET ran == [seen EXCEPT !.queued = 0,
                                    !.replies = @ \o answers,
                                    !.tone = tone,
                                    !.polled = TRUE]
            IN /\ Len(answers) + Len(tpWritten) <= MaxGivenTp
               /\ \E output \in Outputs(ran, oos) : tp' = [ran EXCEPT !.output = output]
               /\ tpWritten' = tpWritten \o answers
               /\ UNCHANGED tpGiven

(* An octet from the CP collects the answers written so far. *)
Seen(octets, wanted) == \E i \in DOMAIN octets : octets[i] \in wanted
BackendOctet(seized, relay) ==
  LET ack    == tp.ack \/ Seen(tp.replies, PowerAck)
      error  == tp.error \/ Seen(tp.replies, {ErrorHeader})
      status == tp.status \/ Seen(tp.replies, {StatusHeader})
      t      == [tp EXCEPT !.seized = seized, !.queued = @ + 1]
  IN /\ tp.queued < MaxQueuedTp
     /\ tp' = [t EXCEPT !.replies = <<>>, !.polled = FALSE,
                        !.tone = IF relay THEN SnapshotTone(t) ELSE @,
                        !.ack = ack, !.error = error, !.status = status,
                        !.contract = @ \/ (ack /\ error /\ status)]
     /\ tpGiven' = [queue \in LinkQueues |-> tpGiven[queue] \o ForQueue(tp.replies, queue)]
     /\ UNCHANGED tpWritten

SeizeRelay   == BackendOctet(TRUE, TRUE)
ReleaseRelay == BackendOctet(FALSE, TRUE)
OtherOctet   == BackendOctet(tp.seized, FALSE)

BackendReset == tp' = BackendIdle /\ tpWritten' = <<>> /\ tpGiven' = NothingGiven

BackendNext == PanelPoll \/ SeizeRelay \/ ReleaseRelay \/ OtherOctet \/ BackendReset
BackendSpec == BackendInit /\ [][BackendNext]_backendVars

(***************************************************************************)
(* Every answer the program writes joins the queue of the link that its      *)
(* value selects, once and in the order of that queue's answers, although    *)
(* only a later CP octet takes it there (answers of different queues may     *)
(* overtake each other on the way to the CP); the boot contract rests on the *)
(* three octets it stands for, one in the normal queue and two in the other; *)
(* and no poll after the CP seized the hook relay leaves the out-of-service  *)
(* tone in the earpiece.                                                     *)
(***************************************************************************)
BackendSound ==
  /\ \A queue \in LinkQueues :
        tpGiven[queue] \o ForQueue(tp.replies, queue) = ForQueue(tpWritten, queue)
  /\ tp.contract => /\ Seen(tpGiven["norm"], PowerAck)
                    /\ Seen(tpGiven["prio"], {ErrorHeader})
                    /\ Seen(tpGiven["prio"], {StatusHeader})
  /\ tp.polled /\ tp.seized => tp.output # "nis"
=============================================================================
