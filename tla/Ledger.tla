------------------------------- MODULE Ledger -------------------------------
(***************************************************************************)
(* What a market promises about stock: a price is opened with a count once,*)
(* a trade takes the same count from each price it names, and no more than *)
(* is left, and a price may be closed.  Nothing else changes what is left. *)
(***************************************************************************)
EXTENDS Naturals

CONSTANTS
    Id,        \* the prices
    Amount     \* the counts that can be offered and traded

VARIABLES
    offered,   \* offered[i]: the count price i was opened with, 0 before
    left,      \* left[i]: what can still be traded
    sold       \* sold[i]: what has been traded

lvars == <<offered, left, sold>>

LInit ==
    /\ offered = [i \in Id |-> 0]
    /\ left = [i \in Id |-> 0]
    /\ sold = [i \in Id |-> 0]

Open(i, n) ==
    /\ offered[i] = 0 /\ n > 0
    /\ offered' = [offered EXCEPT ![i] = n]
    /\ left' = [left EXCEPT ![i] = n]
    /\ UNCHANGED sold

Sell(S, n) ==
    /\ n > 0 /\ \A i \in S : left[i] >= n
    /\ left' = [i \in Id |-> IF i \in S THEN left[i] - n ELSE left[i]]
    /\ sold' = [i \in Id |-> IF i \in S THEN sold[i] + n ELSE sold[i]]
    /\ UNCHANGED offered

Close(S) ==
    /\ left' = [i \in Id |-> IF i \in S THEN 0 ELSE left[i]]
    /\ UNCHANGED <<offered, sold>>

LNext ==
    \/ \E i \in Id, n \in Amount : Open(i, n)
    \/ \E S \in SUBSET Id, n \in Amount : Sell(S, n)
    \/ \E S \in SUBSET Id : Close(S)

LSpec == LInit /\ [][LNext]_lvars

(* No price is ever sold more often than it was offered. *)
NeverOversold == \A i \in Id : left[i] + sold[i] <= offered[i]
=============================================================================
