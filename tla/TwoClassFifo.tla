----------------------------- MODULE TwoClassFifo -----------------------------
(***************************************************************************)
(* What the CP may rely on from the telephony byte link: two classes of    *)
(* traffic, each delivered complete and in order, with a request line that *)
(* is up exactly while something is waiting, and something delivered in    *)
(* the end as long as the CP keeps clocking.                               *)
(***************************************************************************)
EXTENDS Naturals, Sequences

CONSTANTS Class, Data

VARIABLES
    inFlight,   \* inFlight[c]: what was queued in class c and not yet delivered
    request     \* the request-to-send line

vars == <<inFlight, request>>

Waiting(f) == \E c \in Class : f[c] # <<>>

Init == /\ inFlight = [c \in Class |-> <<>>]
        /\ request = FALSE

Put(c, d) == /\ inFlight' = [inFlight EXCEPT ![c] = Append(@, d)]
             /\ request' = TRUE

Get(c) == /\ inFlight[c] # <<>>
          /\ inFlight' = [inFlight EXCEPT ![c] = Tail(@)]
          /\ request' = Waiting(inFlight')

Clear == /\ inFlight' = [c \in Class |-> <<>>]
         /\ request' = FALSE

Next == \/ \E c \in Class, d \in Data : Put(c, d)
        \/ \E c \in Class : Get(c)
        \/ Clear

Fairness == WF_vars(\E c \in Class : Get(c))

Spec == Init /\ [][Next]_vars /\ Fairness
===============================================================================
