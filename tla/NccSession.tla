------------------------------- MODULE NccSession -------------------------------
(***************************************************************************)
(* The NCC session (session_model in millennium_modem_ncc.cpp) in a        *)
(* stop-and-wait exchange with the host over a line that loses frames in   *)
(* both directions.  The model of the session is the code's; the terminal  *)
(* task that drives it, the line and the host are external.                *)
(***************************************************************************)
EXTENDS Naturals, Sequences, FiniteSets

CONSTANTS
    MaxRetries,     \* session_config::max_retries
    MaxTimeouts,    \* bound: retry_count, which a revived session takes past MaxRetries
    MaxFrames,      \* bound: data frames sent
    MaxOnLine       \* bound: frames under way in one direction

ASSUME NccSessionAssumption ==
    /\ MaxRetries \in Nat \ {0}
    /\ MaxTimeouts \in Nat
    /\ MaxFrames \in Nat
    /\ MaxOnLine \in Nat \ {0}

VARIABLES
    session,    \* session_model
    sender,     \* external: the data frames sent and the terminal's acknowledgements
    toHost,     \* external: the line, frames of the terminal
    toTerm,     \* external: the line, frames of the host
    arrived     \* external: the data frames the host has taken

sessionVars == <<session, sender, toHost, toTerm, arrived>>

PacketId == 0..3

\* Packet ids count modulo four; frame n keeps its id when it is sent again.
IdOf(n) == n % 4

\* ack, nack and clear are the control bits 0x08, 0x10, 0x20; number is the frame's for data.
SessionFrame == [kind : {"data", "ack", "nack", "clear"}, id : PacketId, number : Nat]

Session == [state : {"idle", "waiting_ack", "established", "failed"}, id : PacketId,
            retries : Nat, nacked : BOOLEAN]

\* crossed: the terminal has acknowledged a frame of the host since it last took a clear.
Sender == [frames : Nat, crossed : BOOLEAN]

NccSessionInit ==
    /\ session = [state |-> "idle", id |-> 0, retries |-> 0, nacked |-> FALSE]
    /\ sender = [frames |-> 0, crossed |-> FALSE]
    /\ toHost = <<>>
    /\ toTerm = <<>>
    /\ arrived = {}
-----------------------------------------------------------------------------
\* on_tx_frame: an acknowledgement of ours takes over the packet id awaited, and revives a
\* failed session.
OnTx(s, kind, id) ==
    [s EXCEPT !.nacked = FALSE, !.id = id,
              !.state = IF kind \in {"ack", "nack"} THEN "established"
                        ELSE IF s.state = "failed" THEN "failed" ELSE "waiting_ack"]

\* A slip: any acknowledgement answers the frame awaited.
OnRxAnyAck(s, f) ==
    IF f.kind = "nack" /\ f.id = s.id
    THEN [s EXCEPT !.nacked = TRUE, !.state = IF @ = "failed" THEN @ ELSE "waiting_ack"]
    ELSE IF f.kind = "ack"
    THEN [s EXCEPT !.nacked = FALSE, !.retries = 0, !.state = IF @ = "failed" THEN @ ELSE "established"]
    ELSE IF f.kind = "clear"
    THEN [s EXCEPT !.nacked = FALSE, !.retries = 0, !.state = "idle"]
    ELSE s

OnRx(s, f) ==
    IF f.kind = "nack" /\ f.id = s.id
    THEN [s EXCEPT !.nacked = TRUE, !.state = IF @ = "failed" THEN @ ELSE "waiting_ack"]
    ELSE IF f.kind = "ack" /\ f.id = s.id
    THEN [s EXCEPT !.nacked = FALSE, !.retries = 0, !.state = IF @ = "failed" THEN @ ELSE "established"]
    ELSE IF f.kind = "clear"
    THEN [s EXCEPT !.nacked = FALSE, !.retries = 0, !.state = "idle"]
    ELSE s

OnTimeout(s) ==
    IF s.state # "waiting_ack" THEN s
    ELSE [s EXCEPT !.retries = @ + 1, !.state = IF s.retries + 1 >= MaxRetries THEN "failed" ELSE @]
-----------------------------------------------------------------------------
Sent(line, f) == IF Len(line) < MaxOnLine THEN Append(line, f) ELSE line

Frame(kind, n) == [kind |-> kind, id |-> IdOf(n), number |-> n]

\* A new frame follows an answered one.
SendData ==
    LET n == sender.frames + 1
    IN /\ session.state \in {"idle", "established"}
       /\ n <= MaxFrames
       /\ session' = OnTx(session, "data", IdOf(n))
       /\ sender' = [sender EXCEPT !.frames = n]
       /\ toHost' = Sent(toHost, Frame("data", n))
       /\ UNCHANGED <<toTerm, arrived>>

\* The terminal sends its last frame again after a refusal or a timeout that left it retries.
Resend(s) ==
    /\ session' = OnTx(s, "data", IdOf(sender.frames))
    /\ toHost' = Sent(toHost, Frame("data", sender.frames))
    /\ UNCHANGED sender

AckTimeout ==
    /\ session.state = "waiting_ack"
    /\ session.retries < MaxTimeouts
    /\ IF OnTimeout(session).state = "waiting_ack" /\ sender.frames > 0
       THEN Resend(OnTimeout(session))
       ELSE session' = OnTimeout(session) /\ UNCHANGED <<sender, toHost>>
    /\ UNCHANGED <<toTerm, arrived>>

\* The timer may also run out when nothing is awaited.
IdleTimeout ==
    /\ session.state # "waiting_ack"
    /\ session' = OnTimeout(session)
    /\ UNCHANGED <<sender, toHost, toTerm, arrived>>

\* A frame of the host's own is acknowledged at once.
Receive ==
    /\ toTerm # <<>>
    /\ LET f == Head(toTerm)
           after == OnRx(session, f)
       IN /\ toTerm' = Tail(toTerm)
          /\ IF f.kind = "data"
             THEN /\ session' = OnTx(after, "ack", f.id)
                  /\ sender' = [sender EXCEPT !.crossed = TRUE]
                  /\ toHost' = Sent(toHost, [f EXCEPT !.kind = "ack"])
             ELSE IF f.kind = "nack" /\ after.nacked /\ after.state = "waiting_ack" /\ sender.frames > 0
             THEN Resend(after)
             ELSE /\ session' = after
                  /\ sender' = [sender EXCEPT !.crossed = @ /\ f.kind # "clear"]
                  /\ UNCHANGED toHost
          /\ UNCHANGED arrived

HostTakes ==
    /\ toHost # <<>>
    /\ LET f == Head(toHost)
       IN /\ toHost' = Tail(toHost)
          /\ IF f.kind = "data"
             THEN arrived' = arrived \cup {f.number} /\ toTerm' = Sent(toTerm, [f EXCEPT !.kind = "ack"])
             ELSE UNCHANGED <<arrived, toTerm>>
    /\ UNCHANGED <<session, sender>>

\* A damaged frame does not decode: the host refuses the frame it expects next.
HostRefuses ==
    /\ toHost # <<>>
    /\ toHost' = Tail(toHost)
    /\ toTerm' = Sent(toTerm, Frame("nack", Cardinality(arrived) + 1))
    /\ UNCHANGED <<session, sender, arrived>>

HostSends ==
    /\ toTerm' = Sent(toTerm, Frame("data", 1))
    /\ UNCHANGED <<session, sender, toHost, arrived>>

\* The host clears the call; what is on the line goes with it, the clear frame last.
HostClears ==
    /\ toHost' = <<>>
    /\ toTerm' = <<Frame("clear", 0)>>
    /\ UNCHANGED <<session, sender, arrived>>

LoseFrame ==
    /\ \/ toHost # <<>> /\ toHost' = Tail(toHost) /\ UNCHANGED toTerm
       \/ toTerm # <<>> /\ toTerm' = Tail(toTerm) /\ UNCHANGED toHost
    /\ UNCHANGED <<session, sender, arrived>>

NccSessionNext == \/ SendData \/ AckTimeout \/ IdleTimeout \/ Receive
                  \/ HostTakes \/ HostRefuses \/ HostSends \/ HostClears \/ LoseFrame

NccSessionSpec == NccSessionInit /\ [][NccSessionNext]_sessionVars
-----------------------------------------------------------------------------
\* The session, the line and the host have their types.
NccSessionTypeOK ==
    /\ session \in Session
    /\ sender \in Sender
    /\ toHost \in Seq(SessionFrame)
    /\ toTerm \in Seq(SessionFrame)
    /\ arrived \subseteq Nat

\* An established session means that the host has the terminal's last data frame, however often
\* the packet ids have come round, as long as the terminal has not acknowledged a frame of the
\* host since the last clear (names session_model's on_rx_frame and on_tx_frame).
EstablishedMeansArrived ==
    session.state = "established" /\ ~sender.crossed => sender.frames \in arrived
===============================================================================
