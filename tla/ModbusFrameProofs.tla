--------------------------- MODULE ModbusFrameProofs ---------------------------
(***************************************************************************)
(* What TLAPS proves of ModbusFrame for every value the bytes of a frame   *)
(* can have: headers of 16-bit fields, function codes and byte counts of 8 *)
(* bits, and answers of any size one byte can count.                       *)
(*                                                                         *)
(* The argument: the header's length bounds the bytes that are there, and  *)
(* with that bound no index computed from the other lengths wraps or goes  *)
(* beyond them.                                                            *)
(***************************************************************************)
EXTENDS ModbusFrame, TLAPS

\* A header whose length was not accepted is not followed by a PDU: what a
\* handler gets has 1 to 255 bytes.
LengthAccepted ==
    st \in {"pdu", "handle"} => 2 <= header.length /\ header.length <= 256

IInv == TypeOK /\ LengthAccepted /\ NoPanic /\ ReplyFramed /\ AckedAsStored

-------------------------------------------------------------------------------
\* Lemmas

LEMMA Widths ==
    /\ \A n : n \in Byte <=> n \in Nat /\ n < 256
    /\ \A n : n \in Word <=> n \in Nat /\ n < 65536
BY SMT DEF Byte, Word

\* The subtraction in 16 bits wraps only below a length of 1.
LEMMA PduLenIs ==
    ASSUME header.length \in Word
    PROVE  /\ PduLen \in Int
           /\ header.length >= 1 => PduLen = header.length - 1
BY Widths, SMT DEF PduLen

\* The fields of the frame at hand are numbers of their width.
LEMMA FieldTypes ==
    ASSUME TypeOK
    PROVE  /\ header.tx \in TxIds /\ header.protocol \in Word /\ header.length \in Word
           /\ pdu.fc \in Byte /\ pdu.count \in Word /\ pdu.byteCount \in Byte
           /\ PduLen \in Int
<1>1. header \in Headers /\ pdu \in Pdus
    BY DEF TypeOK
<1>2. header.tx \in TxIds /\ header.protocol \in Protocols /\ header.length \in Lengths
    BY <1>1 DEF Headers
<1>3. pdu.fc \in FunctionCodes /\ pdu.count \in Counts /\ pdu.byteCount \in ByteCounts
    BY <1>1 DEF Pdus
<1>4. /\ header.protocol \in Word /\ header.length \in Word
      /\ pdu.fc \in Byte /\ pdu.count \in Word /\ pdu.byteCount \in Byte
    BY <1>2, <1>3, FrameAssumption
<1> QED BY <1>2, <1>4, PduLenIs

\* A reply with fields of their width is one of the replies.
LEMMA ReplyType ==
    ASSUME TypeOK, NEW length \in Word, NEW bytes \in Nat, NEW fc \in Byte,
           NEW field \in Word, Reply(length, bytes, fc, field)
    PROVE  /\ st' = "header" /\ header' = header /\ pdu' = pdu
           /\ reply' \in Replies
           /\ reply'.length = length /\ reply'.bytes = bytes
           /\ reply'.fc = fc /\ reply'.field = field
BY FieldTypes DEF Reply, Replies

LEMMA RefuseStep ==
    ASSUME TypeOK, NEW fc \in Byte, NEW code \in Byte, Refuse(fc, code)
    PROVE  /\ st' = "header" /\ header' = header /\ pdu' = pdu
           /\ reply' \in Replies /\ stored' = 0
           /\ reply'.length = 3 /\ reply'.bytes = 3
           /\ reply'.fc >= 128 /\ reply'.field = code
<1>1. ErrorCode(fc) \in Byte /\ ErrorCode(fc) >= 128
    BY Widths, SMT DEF ErrorCode
<1>2. 3 \in Word /\ 3 \in Nat /\ code \in Word
    BY Widths, SMT
<1>3. Reply(3, 3, ErrorCode(fc), code) /\ stored' = 0
    BY DEF Refuse, Exception
<1> QED BY <1>1, <1>2, <1>3, ReplyType

LEMMA SendReadStep ==
    ASSUME TypeOK, NEW size \in Byte, SendRead(size)
    PROVE  /\ st' = "header" /\ header' = header /\ pdu' = pdu
           /\ reply' \in Replies
           /\ reply'.length = 3 + size /\ reply'.bytes = 3 + size
           /\ reply'.fc = pdu.fc /\ reply'.field = size
<1>1. /\ 3 + size \in Word /\ 3 + size \in Nat
      /\ (3 + size) % 65536 = 3 + size
      /\ size % 256 = size /\ size \in Word
    BY Widths, SMT
<1>2. Reply(3 + size, 3 + size, pdu.fc, size)
    BY <1>1 DEF SendRead
<1> QED BY <1>1, <1>2, FieldTypes, ReplyType

\* The end of a write's data is computed in 8 bits and does not wrap.
LEMMA DataEndExact ==
    ASSUME TypeOK, LengthAccepted, st = "handle", ~BadByteCount
    PROVE  /\ DataEnd = 6 + pdu.byteCount
           /\ Slice(6, DataEnd, PduLen)
           /\ pdu.byteCount = 2 * pdu.count
<1>1. pdu.byteCount = 2 * pdu.count /\ PduLen >= 6 + pdu.byteCount
    BY FieldTypes, Widths, SMT DEF BadByteCount
<1>2. PduLen <= 255
    BY FieldTypes, PduLenIs, Widths, SMT DEF LengthAccepted
<1>3. 6 + pdu.byteCount < 256
    BY <1>1, <1>2, FieldTypes, Widths, SMT
<1> QED BY <1>1, <1>3, FieldTypes, Widths, SMT DEF DataEnd, Slice

-------------------------------------------------------------------------------
\* What each handler may do

\* A read: the right data, however long, or an exception; what the protocol
\* allows is not refused as malformed.
LEMMA ReadStep ==
    ASSUME TypeOK, Read
    PROVE  /\ pdu.fc \in {3, 4}
           /\ \/ \E size \in Byte : SendRead(size) /\ stored' \in Nat
              \/ \E code \in {2, 4} : Refuse(pdu.fc, code)
              \/ (PduLen < 5 \/ BadReadCount(pdu.count)) /\ Refuse(pdu.fc, 3)
<1>1. pdu.fc \in {3, 4}
    BY DEF Read
<1>2. CASE PduLen < 5
    BY <1>1, <1>2 DEF Read
<1>3. CASE PduLen >= 5
  <2>1. Slice(3, 5, PduLen)
      BY <1>3 DEF Slice
  <2>2. CASE BadReadCount(pdu.count)
      BY <1>1, <1>3, <2>1, <2>2, FieldTypes DEF Read
  <2>3. CASE ~BadReadCount(pdu.count)
    <3>1. \/ SendRead(2 * pdu.count) /\ stored' = 0
          \/ \E size \in AnswerSizes : SendRead(size) /\ stored' = size \div 2
          \/ \E code \in {2, 4} : Refuse(pdu.fc, code)
        BY <1>3, <2>1, <2>3, FieldTypes DEF Read
    <3>2. 2 * pdu.count \in Byte
        BY <2>3, FieldTypes, Widths, SMT DEF BadReadCount
    <3>3. \A size \in AnswerSizes : size \in Byte /\ size \div 2 \in Nat
        BY FrameAssumption, Widths, SMT
    <3> QED BY <1>1, <3>1, <3>2, <3>3
  <2> QED BY <2>2, <2>3
<1> QED BY <1>2, <1>3, FieldTypes

LEMMA WriteSingleStep ==
    ASSUME TypeOK, WriteSingle
    PROVE  /\ pdu.fc = 6
           /\ \/ Reply(6, 6, 6, pdu.count) /\ stored' = 1
              \/ Refuse(6, 4)
              \/ PduLen < 5 /\ Refuse(6, 3)
<1>1. PduLen >= 5 => Slice(3, 5, PduLen)
    BY DEF Slice
<1> QED BY <1>1, FieldTypes DEF WriteSingle

\* A write of several registers: what is acknowledged is what is stored.
LEMMA WriteMultipleStep ==
    ASSUME TypeOK, LengthAccepted, WriteMultiple
    PROVE  /\ pdu.fc = 16
           /\ \/ Reply(6, 6, 16, pdu.count) /\ stored' = pdu.count
              \/ Refuse(16, 4)
              \/ (PduLen < 6 \/ BadByteCount) /\ Refuse(16, 3)
<1>1. pdu.fc = 16 /\ st = "handle"
    BY DEF WriteMultiple
<1>2. CASE PduLen < 6
    BY <1>1, <1>2 DEF WriteMultiple
<1>3. CASE PduLen >= 6
  <2>1. Slice(3, 6, PduLen)
      BY <1>3 DEF Slice
  <2>2. CASE BadByteCount
      BY <1>1, <1>3, <2>1, <2>2, FieldTypes DEF WriteMultiple
  <2>3. CASE ~BadByteCount
    <3>1. DataEnd = 6 + pdu.byteCount /\ Slice(6, DataEnd, PduLen)
          /\ pdu.byteCount = 2 * pdu.count
        BY <1>1, <2>3, DataEndExact
    <3>2. (DataEnd - 6) \div 2 = pdu.count
        BY <3>1, FieldTypes, Widths, SMT
    <3> QED BY <1>1, <1>3, <2>1, <2>3, <3>1, <3>2, FieldTypes DEF WriteMultiple
  <2> QED BY <2>2, <2>3
<1> QED BY <1>2, <1>3, FieldTypes

-------------------------------------------------------------------------------
\* The invariant

\* A reply that is in order, whichever handler made it.
Framed ==
    /\ st' = "header" /\ header' = header /\ pdu' = pdu
    /\ stored' \in Nat
    /\ reply' \in Replies
    /\ reply'.length = reply'.bytes
    /\ reply'.fc \in {3, 4} => reply'.field = reply'.bytes - 3
    /\ reply'.fc = 16 => stored' = reply'.field
    /\ reply'.fc >= 128 => stored' = 0

LEMMA HandleStep ==
    ASSUME TypeOK, LengthAccepted, Handle
    PROVE  Framed
<1>1. ASSUME NEW fc \in Byte, NEW code \in Byte, Refuse(fc, code) PROVE Framed
    BY <1>1, RefuseStep DEF Framed
<1>2. /\ pdu.fc \in Byte /\ pdu.count \in Word /\ pdu.count \in Nat
      /\ 16 \in Byte /\ 6 \in Byte /\ 6 \in Word /\ 6 \in Nat
      /\ 1 \in Byte /\ 2 \in Byte /\ 3 \in Byte /\ 4 \in Byte
    BY FieldTypes, Widths, SMT
<1>3. CASE Read
  <2>1. ASSUME NEW size \in Byte, SendRead(size), stored' \in Nat, pdu.fc \in {3, 4}
        PROVE  Framed
    <3>1. /\ reply'.fc \in {3, 4} /\ reply'.field = reply'.bytes - 3
          /\ reply'.length = reply'.bytes
        BY <2>1, SendReadStep, Widths, SMT
    <3> QED BY <2>1, <3>1, SendReadStep DEF Framed
  <2> QED BY <1>1, <1>2, <1>3, <2>1, ReadStep
<1>4. CASE WriteSingle
  <2>1. ASSUME Reply(6, 6, 6, pdu.count), stored' = 1 PROVE Framed
      BY <1>2, <2>1, ReplyType DEF Framed
  <2> QED BY <1>1, <1>2, <1>4, <2>1, WriteSingleStep
<1>5. CASE WriteMultiple
  <2>1. ASSUME Reply(6, 6, 16, pdu.count), stored' = pdu.count PROVE Framed
      BY <1>2, <2>1, ReplyType DEF Framed
  <2> QED BY <1>1, <1>2, <1>5, <2>1, WriteMultipleStep
<1>6. CASE Unsupported
    BY <1>1, <1>2, <1>6 DEF Unsupported
<1> QED BY <1>3, <1>4, <1>5, <1>6 DEF Handle

LEMMA IInvInit == Init => IInv
BY DEF Init, IInv, TypeOK, LengthAccepted, NoPanic, ReplyFramed, AckedAsStored

LEMMA IInvNext == IInv /\ [Next]_vars => IInv'
<1> SUFFICES ASSUME IInv, [Next]_vars PROVE IInv'
    OBVIOUS
<1>0. TypeOK /\ LengthAccepted /\ NoPanic /\ ReplyFramed /\ AckedAsStored
    BY DEF IInv
<1>1. CASE ReadHeader
  <2>1. PICK h \in Headers :
          /\ header' = h
          /\ st' = IF h.protocol # 0 \/ BadLength(h.length) THEN "closed" ELSE "pdu"
      BY <1>1 DEF ReadHeader
  <2>2. h.length \in Word
      BY FrameAssumption DEF Headers
  <2>3. st' \in {"closed", "pdu"} /\ (st' = "pdu" => 2 <= h.length /\ h.length <= 256)
      BY <2>1, <2>2, Widths, SMT DEF BadLength
  <2>4. stored' = 0 /\ reply' = NoReply /\ pdu' = pdu
      BY <1>1 DEF ReadHeader
  <2> QED BY <1>0, <2>1, <2>3, <2>4
          DEF IInv, TypeOK, LengthAccepted, NoPanic, ReplyFramed, AckedAsStored
<1>2. CASE ReadPdu
  <2>1. header.length >= 2 /\ header.length \in Word
      BY <1>0, <1>2, FieldTypes DEF ReadPdu, LengthAccepted
  <2>2. PduLen >= 1
      BY <2>1, PduLenIs, Widths, SMT
  <2>3. st' = "handle"
      BY <1>2, <2>2 DEF ReadPdu, Slice
  <2> QED BY <1>0, <1>2, <2>3 DEF ReadPdu, IInv, TypeOK, LengthAccepted, NoPanic,
                                  ReplyFramed, AckedAsStored
<1>3. CASE PeerCloses
    BY <1>0, <1>3 DEF PeerCloses, IInv, TypeOK, LengthAccepted, NoPanic, ReplyFramed,
                      AckedAsStored
<1>4. CASE Handle
  <2>1. Framed
      BY <1>0, <1>4, HandleStep
  <2> QED BY <1>0, <2>1 DEF Framed, IInv, TypeOK, LengthAccepted, NoPanic, ReplyFramed,
                            AckedAsStored
<1>5. CASE UNCHANGED vars
    BY <1>0, <1>5 DEF vars, IInv, TypeOK, LengthAccepted, NoPanic, ReplyFramed,
                      AckedAsStored
<1> QED BY <1>1, <1>2, <1>3, <1>4, <1>5 DEF Next

-------------------------------------------------------------------------------
\* The theorems

\* The invariant holds in every state of every instance.
THEOREM Inductive == Spec => []IInv
<1>1. Init => IInv
    BY IInvInit
<1>2. IInv /\ [Next]_vars => IInv'
    BY IInvNext
<1> QED BY <1>1, <1>2, PTL DEF Spec

\* Type correctness: every number sent fits the field it is sent in.
THEOREM TypeCorrect == Spec => []TypeOK
<1>1. IInv => TypeOK
    BY DEF IInv
<1> QED BY <1>1, Inductive, PTL

\* No frame a client can send makes a handler index its bytes out of range
\* (server.go:101, 212).
THEOREM IndicesInRange == Spec => []NoPanic
<1>1. IInv => NoPanic
    BY DEF IInv
<1> QED BY <1>1, Inductive, PTL

\* Every reply announces the number of bytes that follow (server.go:239).
THEOREM RepliesFramed == Spec => []ReplyFramed
<1>1. IInv => ReplyFramed
    BY DEF IInv
<1> QED BY <1>1, Inductive, PTL

\* A write stores as many registers as it acknowledges, and one that is
\* refused stores none (server.go:207, 231).
THEOREM AcksStored == Spec => []AckedAsStored
<1>1. IInv => AckedAsStored
    BY DEF IInv
<1> QED BY <1>1, Inductive, PTL

\* Whatever the protocol allows is not refused as malformed, neither when its
\* header is read nor by its handler (server.go:90, 95, 124, 132, 198, 207).
THEOREM ConformingServed == Spec => ConformingAccepted
<1> DEFINE HeaderPasses == ReadHeader /\ ConformingHeader' => st' = "pdu"
           CountsPass   == Handle /\ Conforming
                             => ~(reply'.fc >= 128 /\ reply'.field \in {1, 3})
<1>1. ASSUME ReadHeader, ConformingHeader' PROVE st' = "pdu"
  <2>1. header'.protocol = 0 /\ header'.length \in 2..254
      BY <1>1 DEF ConformingHeader
  <2>2. ~BadLength(header'.length)
      BY <2>1 DEF BadLength
  <2> QED BY <1>1, <2>1, <2>2 DEF ReadHeader
<1>2. IInv => CountsPass
  <2> SUFFICES ASSUME IInv, Handle, Conforming
               PROVE  ~(reply'.fc >= 128 /\ reply'.field \in {1, 3})
      OBVIOUS
  <2>1. TypeOK /\ LengthAccepted
      BY DEF IInv
  <2>2. /\ pdu.fc \in Byte /\ pdu.count \in Word
        /\ 16 \in Byte /\ 6 \in Byte /\ 6 \in Word /\ 2 \in Byte /\ 4 \in Byte
      BY <2>1, FieldTypes, Widths, SMT
  <2>3. ASSUME NEW fc \in Byte, NEW code \in {2, 4}, Refuse(fc, code)
        PROVE  reply'.field \notin {1, 3}
    <3>1. code \in Byte
        BY Widths, SMT
    <3> QED BY <2>1, <2>3, <3>1, RefuseStep
  <2>4. CASE Read
    <3>1. ~(PduLen < 5) /\ ~BadReadCount(pdu.count)
        BY <2>1, <2>4, ReadStep DEF Conforming, BadReadCount
    <3>2. ASSUME NEW size \in Byte, SendRead(size) PROVE reply'.fc \in {3, 4}
        BY <2>1, <2>4, <3>2, ReadStep, SendReadStep
    <3> QED BY <2>1, <2>2, <2>3, <2>4, <3>1, <3>2, ReadStep
  <2>5. CASE WriteSingle
    <3>1. ~(PduLen < 5)
        BY <2>1, <2>5, WriteSingleStep DEF Conforming
    <3>2. ASSUME Reply(6, 6, 6, pdu.count) PROVE reply'.fc = 6
        BY <2>1, <2>2, <3>2, ReplyType
    <3> QED BY <2>1, <2>2, <2>3, <2>5, <3>1, <3>2, WriteSingleStep
  <2>6. CASE WriteMultiple
    <3>1. ~(PduLen < 6) /\ ~BadByteCount
        BY <2>1, <2>6, WriteMultipleStep, FieldTypes, Widths, SMT DEF Conforming, BadByteCount
    <3>2. ASSUME Reply(6, 6, 16, pdu.count) PROVE reply'.fc = 16
        BY <2>1, <2>2, <3>2, ReplyType
    <3> QED BY <2>1, <2>2, <2>3, <2>6, <3>1, <3>2, WriteMultipleStep
  <2>7. CASE Unsupported
      BY <2>7 DEF Unsupported, Conforming
  <2> QED BY <2>4, <2>5, <2>6, <2>7 DEF Handle
<1>3. IInv /\ [Next]_vars => [HeaderPasses /\ CountsPass]_vars
    BY <1>1, <1>2
<1> QED BY <1>3, Inductive, PTL DEF Spec, ConformingAccepted

===============================================================================
