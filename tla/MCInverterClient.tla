--------------------------- MODULE MCInverterClient ---------------------------
(***************************************************************************)
(* Small instances of InverterClient: the reader and the goroutine of one  *)
(* client connection, one or two unit IDs.                                 *)
(***************************************************************************)
EXTENDS InverterClient

CONSTANTS reader, h1, u1, u2

OneHandler == {reader, h1}
OneUnit    == {u1}
TwoUnits   == {u1, u2}

===============================================================================
