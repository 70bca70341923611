----------------------------- MODULE HostBridgeTcp -----------------------------
(***************************************************************************)
(* The host bridge over TCP (millennium_hostbridge_tcp.cpp): a listening   *)
(* end and a connecting end, each a single thread, and the side band of    *)
(* JSON frames behind a length of four octets.  A stream hands out its     *)
(* octets in pieces of any size.  The network is external.                 *)
(***************************************************************************)
EXTENDS Naturals, Sequences

CONSTANTS
    Messages,       \* bound: bodies of side-band frames, sequences of octets
    RawBytes,       \* bound: what send_bytes carries beside the side band
    LongestFrame,   \* 1024 * 1024
    MaxCalls,       \* bound: connections
    MaxSends        \* bound: sends, of both ends together

ASSUME HostBridgeTcpAssumption ==
    /\ Messages \subseteq Seq(0..255) /\ RawBytes \in Seq(0..255)
    /\ \A m \in Messages : ((Len(m) \div 256) \div 256) \div 256 < 256   \* four octets hold it
    /\ LongestFrame \in Nat /\ MaxCalls \in Nat /\ MaxSends \in Nat

VARIABLES
    listening,  \* m_listen of the server is valid
    sock,       \* m_sock of either end: the connection it speaks on, 0 for none
    accepted,   \* connections taken from the backlog, in the order they were made
    calls,      \* the connections, each with its two streams
    acc,        \* the accumulator of a try_recv_sideband_json under way
    busy,       \* the ends inside try_recv_sideband_json
    negotiated, \* the ends with m_negotiate_sent
    sends       \* history: the sends so far

bridgeVars == <<listening, sock, accepted, calls, acc, busy, negotiated, sends>>

BridgeEnd == {"server", "client"}
Peer(e) == IF e = "server" THEN "client" ELSE "server"

\* sent, got and spoilt are history: the frames sent to and taken by the stream's reader, and
\* whether a read left octets behind in its accumulator or octets outside a frame went by.
Stream == [line : Seq(0..255), sent : Seq(Messages), got : Seq(Seq(0..255)), spoilt : BOOLEAN]

NewCall == [e \in BridgeEnd |-> [line |-> <<>>, sent |-> <<>>, got |-> <<>>, spoilt |-> FALSE]]

HostBridgeTcpInit ==
    /\ listening = FALSE
    /\ sock = [e \in BridgeEnd |-> 0]
    /\ accepted = 0
    /\ calls = <<>>
    /\ acc = [e \in BridgeEnd |-> <<>>]
    /\ busy = {}
    /\ negotiated = {}
    /\ sends = 0
-----------------------------------------------------------------------------
\* The length in four octets, the highest first, and the body.
FrameJson(m) ==
    LET n1 == Len(m) \div 256
        n2 == n1 \div 256
        n3 == n2 \div 256
    IN <<n3, n2 % 256, n1 % 256, Len(m) % 256>> \o m

PrefixLength(b) == 256 * (256 * (256 * b[1] + b[2]) + b[3]) + b[4]

\* parse_length_prefix finds a whole frame at the front.
FrameWhole(b) == Len(b) >= 4 /\ PrefixLength(b) <= LongestFrame /\ Len(b) >= 4 + PrefixLength(b)

FrameBody(b) == SubSeq(b, 5, 4 + PrefixLength(b))
-----------------------------------------------------------------------------
\* Calls waiting in the backlog are refused when the listening socket goes; the new one may
\* not be had: socket, bind or listen fails.
ListenIpv4Local ==
    /\ "server" \notin busy
    /\ listening' \in BOOLEAN
    /\ sock' = [sock EXCEPT !["server"] = 0]
    /\ accepted' = Len(calls)
    /\ UNCHANGED <<calls, acc, busy, negotiated, sends>>

\* connect_ipv4 closes the old connection, and succeeds as soon as the backlog holds the new one.
ConnectIpv4 ==
    /\ "client" \notin busy
    /\ IF listening /\ Len(calls) < MaxCalls
       THEN sock' = [sock EXCEPT !["client"] = Len(calls) + 1] /\ calls' = Append(calls, NewCall)
       ELSE sock' = [sock EXCEPT !["client"] = 0] /\ UNCHANGED calls
    /\ UNCHANGED <<listening, accepted, acc, busy, negotiated, sends>>

\* accept_blocking takes the next call over the one in hand, without closing that.
AcceptBlocking ==
    /\ "server" \notin busy
    /\ listening
    /\ accepted < Len(calls)
    /\ accepted' = accepted + 1
    /\ sock' = [sock EXCEPT !["server"] = accepted + 1]
    /\ UNCHANGED <<listening, calls, acc, busy, negotiated, sends>>

CloseSocket(e) ==
    /\ e \notin busy
    /\ sock' = [sock EXCEPT ![e] = 0]
    /\ UNCHANGED <<listening, accepted, calls, acc, busy, negotiated, sends>>

\* m_negotiate_sent is set whether or not there is a connection to send on.
SendSidebandJson(e, m) ==
    LET c == sock[e]
    IN /\ e \notin busy
       /\ sends < MaxSends
       /\ sends' = sends + 1
       /\ negotiated' = negotiated \cup {e}
       /\ calls' = IF c = 0 THEN calls
                   ELSE [calls EXCEPT ![c][Peer(e)].line = @ \o FrameJson(m), ![c][Peer(e)].sent = Append(@, m)]
       /\ UNCHANGED <<listening, sock, accepted, acc, busy>>

SendBytes(e) ==
    LET c == sock[e]
    IN /\ e \notin busy
       /\ c # 0
       /\ sends < MaxSends
       /\ sends' = sends + 1
       /\ calls' = [calls EXCEPT ![c][Peer(e)].line = @ \o RawBytes, ![c][Peer(e)].spoilt = TRUE]
       /\ UNCHANGED <<listening, sock, accepted, acc, busy, negotiated>>

TryRecvSidebandJson(e) ==
    /\ e \notin busy
    /\ sock[e] # 0
    /\ busy' = busy \cup {e}
    /\ acc' = [acc EXCEPT ![e] = <<>>]
    /\ UNCHANGED <<listening, sock, accepted, calls, negotiated, sends>>

\* recv_append_available brings n octets; the call ends when they complete a frame, and what
\* came after the frame is dropped with the accumulator.
RecvChunk(e, n) ==
    LET c == sock[e]
        now == acc[e] \o SubSeq(calls[c][e].line, 1, n)
        rest == SubSeq(calls[c][e].line, n + 1, Len(calls[c][e].line))
    IN /\ e \in busy
       /\ IF FrameWhole(now)
          THEN /\ busy' = busy \ {e}
               /\ acc' = [acc EXCEPT ![e] = <<>>]
               /\ calls' = [calls EXCEPT ![c][e].line = rest, ![c][e].got = Append(@, FrameBody(now)),
                                         ![c][e].spoilt = @ \/ Len(now) > 4 + PrefixLength(now)]
          ELSE /\ acc' = [acc EXCEPT ![e] = now]
               /\ calls' = [calls EXCEPT ![c][e].line = rest]
               /\ UNCHANGED busy
       /\ UNCHANGED <<listening, sock, accepted, negotiated, sends>>

\* The deadline passes: the part of a frame read so far is lost.
RecvDeadline(e) ==
    /\ e \in busy
    /\ busy' = busy \ {e}
    /\ acc' = [acc EXCEPT ![e] = <<>>]
    /\ calls' = [calls EXCEPT ![sock[e]][e].spoilt = @ \/ acc[e] # <<>>]
    /\ UNCHANGED <<listening, sock, accepted, negotiated, sends>>

HostBridgeTcpNext ==
    \/ ListenIpv4Local \/ ConnectIpv4 \/ AcceptBlocking
    \/ \E e \in BridgeEnd :
         \/ CloseSocket(e) \/ SendBytes(e) \/ TryRecvSidebandJson(e) \/ RecvDeadline(e)
         \/ \E m \in Messages : SendSidebandJson(e, m)
         \/ e \in busy /\ \E n \in 1..Len(calls[sock[e]][e].line) : RecvChunk(e, n)

HostBridgeTcpSpec == HostBridgeTcpInit /\ [][HostBridgeTcpNext]_bridgeVars
-----------------------------------------------------------------------------
\* The ends, the connections and their streams have their types; a busy end has a connection.
HostBridgeTcpTypeOK ==
    /\ listening \in BOOLEAN
    /\ sock \in [BridgeEnd -> 0..Len(calls)]
    /\ accepted \in 0..Len(calls)
    /\ calls \in Seq([BridgeEnd -> Stream])
    /\ acc \in [BridgeEnd -> Seq(0..255)]
    /\ busy \subseteq {e \in BridgeEnd : sock[e] # 0}
    /\ negotiated \subseteq BridgeEnd
    /\ sends \in 0..MaxSends

\* Whatever the pieces a stream arrives in, the frames a reader takes are the frames sent to
\* it, in order and whole, until a read leaves octets behind.
FramesTakenWhole ==
    \A c \in DOMAIN calls, e \in BridgeEnd :
        LET s == calls[c][e]
        IN ~s.spoilt => Len(s.got) <= Len(s.sent) /\ s.got = SubSeq(s.sent, 1, Len(s.got))
===============================================================================
