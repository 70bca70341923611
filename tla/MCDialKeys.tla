------------------------------ MODULE MCDialKeys ------------------------------
(***************************************************************************)
(* DialKeys over three keys, k2 and k7 of which make a short craft         *)
(* sequence that starts over the way "2727378" does.                       *)
(***************************************************************************)
EXTENDS DialKeys

CONSTANTS k2, k5, k7, k9

TwoKeys == <<k2, k5>>
ThreeKeys == <<k2, k5, k7>>

\* A sequence none of whose keys is on the pad: the window never opens.
NoSeq == <<k9>>
Seq227 == <<k2, k2, k7>>
===============================================================================
