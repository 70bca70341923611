------------------------------ MODULE MCTerminal ------------------------------
(***************************************************************************)
(* Terminal with small profiles, cards, frames and ROMs.                   *)
(***************************************************************************)
EXTENDS Terminal

MCDenominations == {5, 10, 12}
MCOffered == {5, 10, 12}

\* A memory card, one that wants authorisation, and a CPU card whose ATR offers T=1.
MCCards ==
    {[protocol |-> "memory", atr |-> <<59, 2>>, memory |-> <<7, 8, 9>>, locked |-> FALSE],
     [protocol |-> "memory", atr |-> <<59>>, memory |-> <<5>>, locked |-> TRUE],
     [protocol |-> "cpu", atr |-> <<59, 144, 17, 1>>, memory |-> <<>>, locked |-> FALSE]}

\* A track with a digit and the separator, and one without sentinels.
MCTracks == {<<StartSentinel, Ascii(52), Separator, EndSentinel>>, <<Ascii(65)>>}
MCStuck == {{}, {"cp"}}

\* Line scripts: a whole call, one cut by a bad line, and carrier that comes and goes.
MCScripts == {<<"bytes", "bytes", "bytes">>, <<"bytes", "bad", "connected">>,
              <<"connected", "carrier_lost">>, <<"bytes", "bytes", "bytes", "bytes">>}

\* Payloads of framing octets.
MCFrames == {[control |-> 1, termId |-> <<0, 0, 2, 3, 255>>, payload |-> <<>>],
             [control |-> 9, termId |-> <<1, 2, 3, 4, 5>>, payload |-> <<3, 3>>],
             [control |-> 32, termId |-> <<3, 3, 3, 3, 3>>, payload |-> <<2>>]}

MCMessages == {<<>>, <<0>>}
MCRaw == <<7>>

\* A silence and blocks of both kinds; a repeat; one that runs out of its window; a bad mode octet.
MCRom == <<
    [magic |-> TRUE, messages |-> << <<0, 3, 64, 121, 7, 130, 2, 255, 240, 0>>,
                                     <<0, 200, 3, 18, 52, 193, 0, 0, 0>> >>],
    [magic |-> FALSE, messages |-> << <<0, 0>> >>],
    [magic |-> TRUE, messages |-> << <<0, 1, 130, 9, 1>>, <<7, 1, 0>>,
                                     <<0, 255, 1, 119, 69, 255, 255, 0>> >>] >>

\* Bank 0 holds a phrase of two pieces and one that runs out of its window, bank 1 no message
\* and a whole phrase.
MCPiecesOf == [b \in {0, 1} |-> [p \in {0, 1} |-> IF b = 0 THEN 2 - p ELSE p]]
MCBroken == [b \in {0, 1} |-> IF b = 0 THEN {1} ELSE {}]

\* Nothing absorbed; everything; and the overlay alone.
MCPolicies ==
    {[userIf |-> TRUE, protects |-> FALSE, protectsDial |-> FALSE, overlay |-> FALSE, absorbs |-> FALSE],
     [userIf |-> TRUE, protects |-> TRUE, protectsDial |-> TRUE, overlay |-> FALSE, absorbs |-> TRUE],
     [userIf |-> TRUE, protects |-> FALSE, protectsDial |-> FALSE, overlay |-> TRUE, absorbs |-> TRUE]}

\* A delay, a cadence and an end; no delay and no end; and a tone without a pause.
MCTimings == {[delay |-> 2, on |-> 2, off |-> 1, total |-> 4],
              [delay |-> 0, on |-> 1, off |-> 1, total |-> 0],
              [delay |-> 1, on |-> 0, off |-> 0, total |-> 3]}
===============================================================================
