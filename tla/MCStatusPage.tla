----------------------------- MODULE MCStatusPage -----------------------------
(***************************************************************************)
(* A small instance of StatusPage: three registers of one bit.  The metric *)
(* is the fast group; the slow group has it too and ends with the address  *)
(* space.                                                                  *)
(***************************************************************************)
EXTENDS StatusPage

TwoGroups == <<[address |-> 0, count |-> 3, poll |-> "slow"],
               [address |-> 0, count |-> 2, poll |-> "fast"]>>
TwoPowers == {-1, 0}

===============================================================================
