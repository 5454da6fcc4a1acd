----------------------------- MODULE MCClients ------------------------------
(***************************************************************************)
(* ReaderClients for TLC: two Python threads share one reader and poll it  *)
(* without a timeout, a third has a reader of its own, of which it reads   *)
(* with a timeout or with current_frame and next.  Trade is a struct of 8  *)
(* bytes, Quote an empty one, of which sizeof is 1 although it is written  *)
(* without a payload.                                                      *)
(***************************************************************************)
EXTENDS ReaderClients

MCsizeof == [type \in Types |-> IF type = "Trade" THEN 8 ELSE 1]
MCwritten == [type \in Types |-> IF type = "Trade" THEN {8} ELSE {0}]
\* Trade frames of another size, as another version of the struct would be.
MCmisfits == [MCwritten EXCEPT !["Trade"] = {8, 4}]
MCreaderOf == [t \in PyThreads |-> IF t \in Spinners THEN "own" ELSE "shared"]
MCallShared == [t \in PyThreads |-> "shared"]
=============================================================================
