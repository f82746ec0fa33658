----------------------------- MODULE ModbusFrame -----------------------------
(***************************************************************************)
(* One client connection of the Modbus server at the level of bytes        *)
(* (server.go): the MBAP header, the request behind it, the checks of the  *)
(* three handlers and the reply.                                           *)
(*                                                                         *)
(* What is delicate here: the length in the header, the count and the byte *)
(* count all say how long something is and need not agree; they are of 16, *)
(* 16 and 8 bits, and some of the arithmetic on them is done in 8 bits.    *)
(*                                                                         *)
(* Addresses and register contents play no part.  The transaction and the  *)
(* unit ID of a request are both echoed; tx stands for the pair.  Whether  *)
(* the cache has the range and what the inverter does is left open here:   *)
(* module CachingProxy.                                                    *)
(***************************************************************************)
EXTENDS Integers

CONSTANTS
    TxIds,          \* what a header may hold
    Protocols,
    Lengths,
    FunctionCodes, \* what the request behind it may hold: the function code,
    Counts,        \*   bytes 3 and 4 (a count, or a value to write)
    ByteCounts,    \*   and byte 5
    AnswerSizes    \* bytes of register data the inverter may answer a read with

Byte == {n \in Nat : n < 256}
Word == {n \in Nat : n < 65536}

ASSUME FrameAssumption ==
    /\ Protocols \subseteq Word
    /\ Lengths \subseteq Word
    /\ FunctionCodes \subseteq Byte
    /\ Counts \subseteq Word
    /\ ByteCounts \subseteq Byte
    /\ AnswerSizes \subseteq Byte

VARIABLES
    st,      \* "header" or "pdu": what is read next; "handle", "closed"; or
             \* "panic": an index is out of range
    header,
    pdu,
    stored,  \* registers this request puts in the cache
    reply    \* the reply, in state "header"

vars == <<st, header, pdu, stored, reply>>

Headers == [tx : TxIds, protocol : Protocols, length : Lengths]
Pdus    == [fc : FunctionCodes, count : Counts, byteCount : ByteCounts]

\* A reply: the length its header announces, the bytes that really follow it,
\* the function code, and then the byte count of a read, the exception code
\* or the count or value echoed.
Replies == [tx : TxIds, length : Word, bytes : Nat, fc : Byte, field : Word]
NoReply == [length |-> 0]

TypeOK ==
    /\ st \in {"header", "pdu", "handle", "closed", "panic"}
    /\ header \in Headers
    /\ pdu \in Pdus
    /\ stored \in Nat
    /\ reply \in Replies \cup {NoReply}

Init ==
    /\ st = "header"
    /\ header \in Headers
    /\ pdu \in Pdus
    /\ stored = 0
    /\ reply = NoReply

-------------------------------------------------------------------------------
\* Reading

\* length < 2 || length > 256; faulty: no upper limit, a lower limit too low
\* by one, an upper limit too low by three.
NoUpperLimit(length) == length < 2
AlsoOne(length)      == length < 1 \/ length > 256
UpTo253(length)      == length < 2 \/ length > 253
BadLength(length)    == length < 2 \/ length > 256

\* io.ReadFull(conn, header)
ReadHeader ==
    /\ st = "header"
    /\ \E h \in Headers :
         /\ header' = h
         /\ st' = IF h.protocol # 0 \/ BadLength(h.length) THEN "closed" ELSE "pdu"
    /\ stored' = 0
    /\ reply' = NoReply
    /\ UNCHANGED pdu

\* length-1, a uint16: what lies beyond so many bytes in pdu is not there, and
\* no handler may look at it.
PduLen == (header.length - 1) % 65536

\* pdu[i:j] of a PDU of len bytes.
Slice(i, j, len) == i <= j /\ j <= len

\* io.ReadFull(conn, pdu); fc := pdu[0]
ReadPdu ==
    /\ st = "pdu"
    /\ pdu' \in Pdus
    /\ st' = IF Slice(0, 1, PduLen) THEN "handle" ELSE "panic"
    /\ UNCHANGED <<header, stored, reply>>

\* The client closes the connection, between two requests or within one.
PeerCloses ==
    /\ st \in {"header", "pdu"}
    /\ st' = "closed"
    /\ UNCHANGED <<header, pdu, stored, reply>>

-------------------------------------------------------------------------------
\* Replying

Reply(length, bytes, fc, field) ==
    /\ st' = "header"
    /\ reply' = [tx |-> header.tx, length |-> length, bytes |-> bytes,
                 fc |-> fc, field |-> field]
    /\ UNCHANGED <<header, pdu>>

\* sendReadResponse; mbapLen := uint16(3 + len(data)), byteCount :=
\* byte(len(data)).
SendRead(size) == Reply((3 + size) % 65536, 3 + size, pdu.fc, size % 256)

\* fc|0x80; faulty: fc+0x80.
PlusFlag(fc)  == fc + 128
ErrorCode(fc) == IF fc < 128 THEN fc + 128 ELSE fc

Exception(fc, code) == Reply(3, 3, ErrorCode(fc), code)

\* An exception changes nothing.
Refuse(fc, code) == Exception(fc, code) /\ stored' = 0

Panic == st' = "panic" /\ UNCHANGED <<header, pdu, stored, reply>>

-------------------------------------------------------------------------------
\* Handlers

\* count == 0 || count > 125; faulty: a limit too high or too low by a little.
Above128(count)     == count = 0 \/ count > 128
From125(count)      == count = 0 \/ count >= 125
BadReadCount(count) == count = 0 \/ count > 125

\* handleReadRegisters: the range is cached, or the inverter answers, or not.
Read ==
    /\ st = "handle"
    /\ pdu.fc \in {3, 4}
    /\ IF PduLen < 5 THEN Refuse(pdu.fc, 3)
       ELSE IF ~Slice(3, 5, PduLen) THEN Panic
       ELSE IF BadReadCount(pdu.count) THEN Refuse(pdu.fc, 3)
       ELSE \/ SendRead(2 * pdu.count) /\ stored' = 0
            \/ \E size \in AnswerSizes : SendRead(size) /\ stored' = size \div 2
            \/ \E code \in {2, 4} : Refuse(pdu.fc, code)

\* handleWriteSingleRegister
WriteSingle ==
    /\ st = "handle"
    /\ pdu.fc = 6
    /\ IF PduLen < 5 THEN Refuse(6, 3)
       ELSE IF ~Slice(3, 5, PduLen) THEN Panic
       ELSE \/ Reply(6, 6, 6, pdu.count) /\ stored' = 1
            \/ Refuse(6, 4)

\* int(byteCount) != int(count)*2 || len(pdu) < 6+int(byteCount); faulty: the
\* count is not compared.
OnlyFits     == PduLen < 6 + pdu.byteCount
BadByteCount  == pdu.byteCount # 2 * pdu.count \/ PduLen < 6 + pdu.byteCount

\* pdu[6 : 6+byteCount]: the end is computed in 8 bits.
DataEnd == (6 + pdu.byteCount) % 256

\* The library refuses to write no register, or more than 123.
Writable(count) == count \in 1..123

\* handleWriteMultipleRegisters
WriteMultiple ==
    /\ st = "handle"
    /\ pdu.fc = 16
    /\ IF PduLen < 6 THEN Refuse(16, 3)
       ELSE IF ~Slice(3, 6, PduLen) THEN Panic
       ELSE IF BadByteCount THEN Refuse(16, 3)
       ELSE IF ~Slice(6, DataEnd, PduLen) THEN Panic
       ELSE \/ /\ Writable(pdu.count)
               /\ Reply(6, 6, 16, pdu.count)
               /\ stored' = (DataEnd - 6) \div 2
            \/ Refuse(16, 4)

Unsupported ==
    /\ st = "handle"
    /\ pdu.fc \notin {3, 4, 6, 16}
    /\ Refuse(pdu.fc, 1)

-------------------------------------------------------------------------------

Handle == Read \/ WriteSingle \/ WriteMultiple \/ Unsupported

Next == ReadHeader \/ ReadPdu \/ PeerCloses \/ Handle

Spec == Init /\ [][Next]_vars

-------------------------------------------------------------------------------
\* Properties

\* No request, however its lengths disagree, makes a handler index its bytes
\* out of range, which would end the whole process (server.go:107, 130, 212).
NoPanic == st # "panic"

\* A client finds the end of a reply: the length announced is the number of
\* bytes that follow, also as a 16-bit number, and the byte count of a read,
\* an 8-bit number, is that of its data (server.go:239).
ReplyFramed ==
    reply # NoReply =>
        /\ reply.length = reply.bytes
        /\ reply.fc \in {3, 4} => reply.field = reply.bytes - 3

\* A write that is acknowledged is in the cache as it was acknowledged: as
\* many registers as the client asked for and the inverter was sent, no more
\* and no fewer (server.go:207, 231).
AckedAsStored ==
    /\ reply # NoReply /\ reply.fc = 16 => stored = reply.field
    /\ reply # NoReply /\ reply.fc >= 128 => stored = 0

\* What the Modbus protocol allows is not refused as malformed, up to the
\* last register: reads of 1 to 125 and writes of 1 to 123 registers whose
\* lengths are right.
Conforming ==
    /\ header.protocol = 0
    /\ \/ pdu.fc \in {3, 4} /\ PduLen = 5 /\ pdu.count \in 1..125
       \/ pdu.fc = 6 /\ PduLen = 5
       \/ /\ pdu.fc = 16
          /\ pdu.count \in 1..123
          /\ pdu.byteCount = 2 * pdu.count
          /\ PduLen = 6 + pdu.byteCount

\* The header of a request the protocol allows: the unit ID and a PDU of 1 to
\* 253 bytes follow.
ConformingHeader == header.protocol = 0 /\ header.length \in 2..254

\* On its way a conforming request passes two kinds of checks: of its header,
\* where a refusal closes the connection (server.go:90, 95), and of its counts,
\* where it is an exception (server.go:124, 132, 198, 207).  It fails none.
ConformingAccepted ==
    [][/\ ReadHeader /\ ConformingHeader' => st' = "pdu"
       /\ Handle /\ Conforming
          => ~(reply'.fc >= 128 /\ reply'.field \in {1, 3})]_vars

===============================================================================
