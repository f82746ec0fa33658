---------------------------- MODULE MCModbusFrame ----------------------------
(***************************************************************************)
(* ModbusFrame with the values on either side of each limit in the code,   *)
(* of the protocol and of the integer widths.                              *)
(***************************************************************************)
EXTENDS ModbusFrame

OneTxId        == {1}
BothProtocols  == {0, 1}
EdgeLengths    == {0, 1, 2, 5, 6, 7, 8, 9, 253, 254, 255, 256, 257, 261, 65535}
EachFunction   == {1, 3, 4, 6, 16, 131}
EdgeCounts     == {0, 1, 2, 122, 123, 124, 125, 126, 127, 128, 129, 251, 65535}
EdgeByteCounts == {0, 1, 2, 3, 4, 244, 246, 248, 250, 252, 254, 255}
EdgeAnswers    == {0, 1, 2, 250, 251}

===============================================================================
