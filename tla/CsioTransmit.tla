----------------------------- MODULE CsioTransmit -----------------------------
(***************************************************************************)
(* Which octets of the CP the TP takes.  The board looks at each edge of    *)
(* the clock whether the transmitter has just been switched off, and then   *)
(* judges the octet in the transmit register by what it is, by the edges it *)
(* counted and by the octets before it.                                     *)
(*                                                                          *)
(* The transmitter is switched on between edges, by the program: the count  *)
(* of switchings on that the judge keeps never moves.                       *)
(***************************************************************************)
EXTENDS Naturals

CONSTANTS
    CatalogOctets,    \* single-octet queries of the catalog
    DownloadHeader,   \* the header of a download (0xC0)
    OtherHeaders,     \* headers the TP does not know; the idle fill 0xF0 and 0xFF passes for one
    FrameOctets,      \* what a length or a payload octet may be
    FillOctets,       \* what else the transmit register may hold: neither a query nor a header
    EdgesPerOctet,    \* edges the CSIO may show for an octet
    MaxLength         \* longest frame accepted (126)

ASSUME CsioAssumption ==
    /\ CatalogOctets \subseteq 0..255
    /\ CatalogOctets \cap (OtherHeaders \cup {DownloadHeader} \cup FillOctets) = {}
    /\ \A o \in OtherHeaders \cup {DownloadHeader} : o \in 192..255
    /\ FrameOctets \subseteq 0..255 /\ FillOctets \subseteq 0..191
    /\ EdgesPerOctet \subseteq Nat /\ MaxLength \in 3..255

\* judge.last is the octet accepted last (256 for none), frame the parser's state: outside a
\* frame, waiting for a length, or the octets still to come.  sent is a history of the octet just
\* sent: where the CP was in its own frame, whether the judge agreed, and whether it was taken.
VARIABLES judge, cpFrame, sent
csioVars == <<judge, cpFrame, sent>>

NoOctet == 256
Outside == [need |-> FALSE, skip |-> 0, hdr |-> FALSE]
CsioTypeOK ==
    /\ judge.last \in 0..NoOctet /\ judge.frame.need \in BOOLEAN
    /\ judge.frame.skip \in 0..MaxLength /\ judge.frame.hdr \in BOOLEAN
    /\ cpFrame.skip \in 0..MaxLength
    /\ sent.octet \in 0..NoOctet /\ sent.where \in {"none", "catalog", "header", "inside", "fill"}

CsioInit ==
    /\ judge = [last |-> NoOctet, frame |-> Outside, receiving |-> FALSE]
    /\ cpFrame = Outside
    /\ sent = [octet |-> NoOctet, where |-> "none", taken |-> FALSE, agreed |-> TRUE, before |-> NoOctet]

InFrame(f) == f.need \/ f.skip > 0
Known(o) == o \in CatalogOctets
Header(o) == o >= 192

\* A slip: too few edges refuse a known command as well.
AcceptedByEdges(o, edges) ==
    LET inside == InFrame(judge.frame)
    IN /\ edges >= 8 \/ inside
       /\ ~(judge.receiving /\ ~inside /\ ~Known(o) /\ ~Header(o))
       /\ ~(inside /\ ~judge.frame.need /\ ~judge.frame.hdr)
       /\ inside \/ Known(o) \/ judge.last # o
       /\ inside \/ Known(o) \/ Header(o)

\* An octet ends at a later cycle than the one before it: the guards against the same cycle pass.
Accepted(o, edges) ==
    LET inside == InFrame(judge.frame)
    IN /\ edges >= 8 \/ Known(o) \/ inside
       /\ ~(judge.receiving /\ ~inside /\ ~Known(o) /\ ~Header(o))
       /\ ~(inside /\ ~judge.frame.need /\ ~judge.frame.hdr)
       /\ inside \/ Known(o) \/ judge.last # o
       /\ inside \/ Known(o) \/ Header(o)

\* What the parser makes of an accepted octet.
Parsed(f, o) ==
    IF f.skip > 0 THEN IF f.skip = 1 THEN Outside ELSE [f EXCEPT !.skip = @ - 1]
    ELSE IF f.need
    THEN IF o \in 3..MaxLength THEN [f EXCEPT !.need = FALSE, !.skip = o - 2] ELSE Outside
    ELSE IF o = DownloadHeader THEN [Outside EXCEPT !.need = TRUE, !.hdr = TRUE]
    ELSE Outside

\* The clock edge at which an octet ends.
OctetEnds(o, where) == \E edges \in EdgesPerOctet :
    LET ok == Accepted(o, edges)
    IN /\ judge' = IF ok THEN [judge EXCEPT !.last = o, !.frame = Parsed(@, o)] ELSE judge
       /\ sent' = [octet |-> o, where |-> where, taken |-> ok,
                   agreed |-> judge.frame = cpFrame, before |-> judge.last]

\* The CP sends a query, or starts a download, outside a frame of its own; and goes on with it.
CpQuery == /\ ~InFrame(cpFrame) /\ UNCHANGED cpFrame
           /\ \E o \in CatalogOctets : OctetEnds(o, "catalog")
CpHeader == /\ ~InFrame(cpFrame)
            /\ \E o \in OtherHeaders \cup {DownloadHeader} :
                  /\ cpFrame' = Parsed(Outside, o)
                  /\ OctetEnds(o, "header")
CpInside == /\ InFrame(cpFrame)
            /\ \E o \in FrameOctets : /\ cpFrame.need => o \in 3..MaxLength
                                      /\ cpFrame' = Parsed(cpFrame, o)
                                      /\ OctetEnds(o, "inside")
\* A transmitter switched off with nothing to send leaves what the register held.
CpFill == /\ ~InFrame(cpFrame) /\ UNCHANGED cpFrame
          /\ \E o \in FillOctets : OctetEnds(o, "fill")
ReceiveMoves == /\ judge' = [judge EXCEPT !.receiving = ~@]
                /\ UNCHANGED <<cpFrame, sent>>

CsioNext == CpQuery \/ CpHeader \/ CpInside \/ CpFill \/ ReceiveMoves
CsioSpec == CsioInit /\ [][CsioNext]_csioVars

\* A query is always taken, and fill never outside a frame.  While the judge and the CP agree
\* where the frames are, every octet of one is taken and they agree after it; they disagree only
\* after a header that was refused, for too few edges or because the octet taken before it was
\* the same.  Names qualify_cp_to_tp_csio_byte.
OctetsJudged ==
    /\ sent.where = "catalog" => sent.taken
    /\ sent.where = "fill" /\ sent.agreed => ~sent.taken
    /\ sent.where = "inside" /\ sent.agreed => sent.taken
    /\ sent.agreed /\ sent.taken => judge.frame = cpFrame
    /\ sent.where = "header" /\ sent.agreed /\ ~sent.taken =>
          sent.before = sent.octet \/ \E e \in EdgesPerOctet : e < 8
===============================================================================
