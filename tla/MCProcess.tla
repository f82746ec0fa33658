------------------------------ MODULE MCProcess ------------------------------
(***************************************************************************)
(* A small instance of Process: two clients, the code's three scan passes. *)
(***************************************************************************)
EXTENDS Process

CONSTANTS c1, c2

TwoConns == {c1, c2}

===============================================================================
