------------------------------ MODULE MCMarket ------------------------------
(***************************************************************************)
(* Instances of Market: a pub that crosses one of two subs and fills it in *)
(* part.  Others post a trade between any two prices, or of a price with   *)
(* itself: one at a cost and count that fit, one at a cost too low for the *)
(* pub and a count it does not have; where foreign keys hold, only one     *)
(* that names a price as its product can commit.  A full page: two rows.   *)
(***************************************************************************)
EXTENDS Market

Offers ==
    {[dir |-> "Pub", cost |-> 2, count |-> 1],
     [dir |-> "Sub", cost |-> 2, count |-> 2], [dir |-> "Sub", cost |-> 1, count |-> 1]}
Trades ==
    [prod : Product \union {1}, pub : Id, sub : Id, cost : {2}, count : {1}]
        \union [prod : Product, pub : Id, sub : Id, cost : {1}, count : {2}]
=============================================================================
