---------------------------- MODULE MCRegisterCache ----------------------------
(***************************************************************************)
(* A small instance of RegisterCache: the reader and a handler, two        *)
(* registers, stores of both and of one register twice (groups that        *)
(* overlap).                                                               *)
(***************************************************************************)
EXTENDS RegisterCache

CONSTANTS reader, handler, k1, k2, v1, v2

TwoCallers == {reader, handler}
TwoKeys    == {k1, k2}
TwoVals    == {v1, v2}

R(k, v) == [key |-> k, val |-> v]

SomePuts == {<<R(k1, v1), R(k2, v1)>>, <<R(k2, v1), R(k1, v2), R(k2, v2)>>}
SomeGets == {{k1, k2}}

================================================================================
