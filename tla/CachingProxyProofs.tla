-------------------------- MODULE CachingProxyProofs --------------------------
(***************************************************************************)
(* What TLAPS proves of CachingProxy for all connections, registers,       *)
(* groups, numbers of scan passes and bounds, and whether reads are        *)
(* forwarded or not.                                                       *)
(*                                                                         *)
(* The argument: versions only grow, so what was read from the inverter is *)
(* never ahead of it; and the batch is emptied at the moment base is       *)
(* taken, so what a flush writes is never older than base.                 *)
(* Two further invariants stand beside this one: that of the scan          *)
(* (ScanInv), and that of a single connection (WriterInv).                 *)
(***************************************************************************)
EXTENDS CachingProxy, TLAPS

\* What was in the inverter when the batch was emptied is not ahead of it now.
BaseKnown == \A r \in Regs : base[r] <= inv[r]

IInv == TypeOK /\ NothingInvented /\ BaseKnown /\ BatchIsOfThisCycle

-------------------------------------------------------------------------------
\* Lemmas

LEMMA VersionFacts ==
    /\ Missing \in Int /\ Missing < 0 /\ Missing \in Version
    /\ Nat \subseteq Version
    /\ \A v \in Version : v \in Int /\ (v # Missing => v \in Nat)
BY DEF Missing, Version

LEMMA NothingType == Nothing \in [Regs -> Version]
BY VersionFacts DEF Nothing

LEMMA SnapshotType ==
    ASSUME inv \in [Regs -> Nat], NEW R
    PROVE  Snapshot(R) \in [Regs -> Version]
BY VersionFacts DEF Snapshot

LEMMA OverType ==
    ASSUME NEW new \in [Regs -> Version], NEW old \in [Regs -> Version]
    PROVE  Over(new, old) \in [Regs -> Version]
BY DEF Over

LEMMA BumpGrows ==
    ASSUME inv \in [Regs -> Nat], NEW R, Bump(R)
    PROVE  inv' \in [Regs -> Nat] /\ \A r \in Regs : inv'[r] >= inv[r]
BY DEF Bump

\* A cache transaction leaves every register as it was or at its new value.
LEMMA PutStep ==
    ASSUME TypeOK, NEW values \in [Regs -> Version], Put(values)
    PROVE  /\ cache' \in [Regs -> Version]
           /\ expired' \subseteq Regs
           /\ dbErrors' \in Nat
           /\ \A r \in Regs : \/ cache'[r] = cache[r]
                              \/ values[r] # Missing /\ cache'[r] = values[r]
<1>1. CASE cache' = Over(values, cache) /\ expired' = {r \in expired : values[r] = Missing}
           /\ UNCHANGED dbErrors
    BY <1>1, OverType DEF Over, TypeOK
<1>2. CASE dbErrors' = dbErrors + 1 /\ UNCHANGED <<cache, expired>>
    BY <1>2 DEF TypeOK
<1> QED BY <1>1, <1>2 DEF Put, DbError

LEMMA DeleteStaleStep ==
    ASSUME TypeOK, DeleteStale
    PROVE  /\ cache' \in [Regs -> Version]
           /\ expired' \subseteq Regs
           /\ dbErrors' \in Nat
           /\ \A r \in Regs : cache'[r] \in {cache[r], Missing}
<1>1. CASE DbError
    BY <1>1 DEF DbError, TypeOK
<1>2. CASE ~DbError
    BY <1>2, VersionFacts DEF TypeOK, DeleteStale
<1> QED BY <1>1, <1>2

LEMMA AnswerStep ==
    ASSUME TypeOK, NEW c \in Conns, NEW kind \in Replies, Answer(c, kind)
    PROVE  /\ hpc' \in [Conns -> HPCs]
           /\ req' \in [Conns -> SUBSET Regs]
           /\ got' \in [Conns -> [Regs -> Version]]
           /\ reply' \in [Conns -> Replies]
           /\ \A d \in Conns : got'[d] \in {got[d], Nothing}
BY NothingType DEF TypeOK, Answer, HPCs

\* The items are sets of registers.
LEMMA ItemTypes ==
    /\ AllItems \in Seq(SUBSET Regs)
    /\ FastItems \in Seq(SUBSET Regs)
    /\ SlowItems \in Seq(SUBSET Regs)
BY ProxyAssumption DEF AllItems

LEMMA FreshBatchStep ==
    ASSUME TypeOK, NEW items \in Seq(SUBSET Regs), FreshBatch(items)
    PROVE  /\ todo' \in Seq(SUBSET Regs)
           /\ batch' \in [Regs -> Version]
           /\ base' \in [Regs -> Nat]
           /\ base' = inv
           /\ batch' = Nothing
BY NothingType DEF TypeOK, FreshBatch

-------------------------------------------------------------------------------
\* Type correctness

LEMMA TypeInit == Init => TypeOK
<1> SUFFICES ASSUME Init PROVE TypeOK
    OBVIOUS
<1>1. inv \in [Regs -> Nat] /\ base \in [Regs -> Nat] /\ boot \in [Regs -> Nat]
    BY DEF Init
<1>2. cache \in [Regs -> Version]
    BY <1>1, SnapshotType DEF Init
<1>3. /\ batch \in [Regs -> Version]
      /\ acked \in [Regs -> Version]
      /\ got \in [Conns -> [Regs -> Version]]
    BY NothingType DEF Init
<1>4. todo \in Seq(SUBSET Regs) /\ failed \in Seq(SUBSET Regs)
    BY DEF Init
<1>5. pass \in 1..ScanPasses /\ phase \in Phases
    BY ProxyAssumption DEF Init, Phases
<1>6. hpc \in [Conns -> HPCs] /\ reply \in [Conns -> Replies]
    BY DEF Init, HPCs, Replies
<1>7. req \in [Conns -> SUBSET Regs] /\ expired \subseteq Regs
    BY DEF Init
<1> QED BY <1>1, <1>2, <1>3, <1>4, <1>5, <1>6, <1>7 DEF Init, TypeOK

\* A handler's step keeps the types.
LEMMA TypeServe ==
    ASSUME TypeOK, NEW c \in Conns, Serve(c)
    PROVE  TypeOK'
<1> USE DEF devVars, dbVars, readerVars, handlerVars, bootVars
<1>1. CASE MissNotForwarded(c)
  <2>1. Answer(c, "illegal address")
      BY <1>1 DEF MissNotForwarded, NotForwarded
  <2> QED BY <1>1, <2>1, AnswerStep DEF MissNotForwarded, TypeOK, Replies,
           NotForwarded
<1>2. CASE ForwardOk(c)
  <2>1. Snapshot(req[c]) \in [Regs -> Version]
      BY SnapshotType DEF TypeOK
  <2> QED BY <1>2, <2>1 DEF ForwardOk, TypeOK, HPCs
<1>3. CASE ForwardErr(c)
  <2>1. Answer(c, "device failure")
      BY <1>3 DEF ForwardErr
  <2> QED BY <1>3, <2>1, AnswerStep DEF ForwardErr, TypeOK, Replies
<1>4. CASE Fill(c)
  <2>1. Answer(c, "data") /\ Put(got[c]) /\ got[c] \in [Regs -> Version]
      BY <1>4 DEF Fill, TypeOK
  <2> QED BY <1>4, <2>1, AnswerStep, PutStep DEF Fill, TypeOK, Replies
<1>5. CASE WriteRefused(c)
  <2>1. Answer(c, "device failure")
      BY <1>5 DEF WriteRefused
  <2> QED BY <1>5, <2>1, AnswerStep DEF WriteRefused, TypeOK, Replies
<1>6. CASE WriteOk(c)
  <2>1. inv' \in [Regs -> Nat]
      BY <1>6, BumpGrows DEF WriteOk, TypeOK, Written
  <2>2. [r \in Regs |-> IF r \in req[c] THEN inv[r] + 1 ELSE Missing] \in [Regs -> Version]
      BY VersionFacts DEF TypeOK
  <2> QED BY <1>6, <2>1, <2>2 DEF WriteOk, TypeOK, HPCs, Written
<1>7. CASE WriteErr(c)
  <2>1. Answer(c, "device failure") /\ \E R : Bump(R)
      BY <1>7 DEF WriteErr, WriteFailed
  <2>2. inv' \in [Regs -> Nat]
      BY <2>1, BumpGrows DEF TypeOK
  <2> QED BY <1>7, <2>1, <2>2, AnswerStep DEF WriteErr, TypeOK, Replies, WriteFailed
<1>8. CASE Store(c)
  <2>1. Answer(c, "ack") /\ Put(got[c]) /\ got[c] \in [Regs -> Version]
      BY <1>8 DEF Store, TypeOK
  <2>2. acked' \in [Regs -> Version]
      BY <1>8, <2>1 DEF Store, TypeOK
  <2> QED BY <1>8, <2>1, <2>2, AnswerStep, PutStep DEF Store, TypeOK, Replies
<1> QED BY <1>1, <1>2, <1>3, <1>4, <1>5, <1>6, <1>7, <1>8 DEF Serve

\* A step of the reader keeps the types.
LEMMA TypePoll ==
    ASSUME TypeOK, Poll
    PROVE  TypeOK'
<1> USE DEF devVars, dbVars, readerVars, handlerVars, bootVars
<1>1. CASE Purge
  <2>1. DeleteStale /\ FreshBatch(AllItems)
      BY <1>1 DEF Purge
  <2> QED BY <1>1, <2>1, DeleteStaleStep, FreshBatchStep, ItemTypes
          DEF Purge, TypeOK, Phases
<1>2. CASE NextPass
  <2>1. Put(batch) /\ FreshBatch(failed) /\ batch \in [Regs -> Version]
      BY <1>2 DEF NextPass, TypeOK, PassesLeft, CountPass
  <2>2. failed \in Seq(SUBSET Regs) /\ <<>> \in Seq(SUBSET Regs)
      BY DEF TypeOK
  <2>3. pass + 1 \in 1..ScanPasses
      BY <1>2, ProxyAssumption DEF NextPass, TypeOK, PassesLeft, CountPass
  <2> QED BY <1>2, <2>1, <2>2, <2>3, PutStep, FreshBatchStep DEF NextPass, TypeOK,
           Phases, PassesLeft, CountPass
<1>3. CASE EndScan
  <2>1. Put(batch) /\ FreshBatch(FastItems) /\ batch \in [Regs -> Version]
      BY <1>3 DEF EndScan, TypeOK, PassesLeft
  <2>2. <<>> \in Seq(SUBSET Regs) /\ 1 \in 1..ScanPasses
      BY ProxyAssumption
  <2> QED BY <1>3, <2>1, <2>2, PutStep, FreshBatchStep, ItemTypes
          DEF EndScan, TypeOK, Phases, PassesLeft
<1>4. CASE ReadErr
  <2>1. Head(todo) \in SUBSET Regs /\ Tail(todo) \in Seq(SUBSET Regs)
      BY <1>4 DEF ReadErr, TypeOK
  <2>2. failed' \in Seq(SUBSET Regs)
      BY <1>4, <2>1 DEF ReadErr, TypeOK
  <2> QED BY <1>4, <2>1, <2>2 DEF ReadErr, TypeOK
<1>5. ASSUME NEW i \in Items, ReadOk(i) PROVE TypeOK'
  <2>1. Tail(todo) \in Seq(SUBSET Regs)
      BY <1>5 DEF ReadOk, TypeOK
  <2>2. batch' \in [Regs -> Version]
      BY <1>5, SnapshotType, OverType DEF ReadOk, TypeOK
  <2> QED BY <1>5, <2>1, <2>2 DEF ReadOk, TypeOK
<1>6. CASE StartSlow
    BY <1>6, ItemTypes DEF StartSlow, TypeOK, Phases
<1>7. CASE EndSlow
    BY <1>7, DeleteStaleStep DEF EndSlow, TypeOK, Phases
<1>8. CASE Flush
  <2>1. Put(batch) /\ FreshBatch(FastItems) /\ batch \in [Regs -> Version]
      BY <1>8 DEF Flush, TypeOK
  <2> QED BY <1>8, <2>1, PutStep, FreshBatchStep, ItemTypes DEF Flush, TypeOK, Phases
<1> QED BY <1>1, <1>2, <1>3, <1>4, <1>5, <1>6, <1>7, <1>8 DEF Poll

LEMMA TypeNext == TypeOK /\ [Next]_vars => TypeOK'
<1> SUFFICES ASSUME TypeOK, [Next]_vars PROVE TypeOK'
    OBVIOUS
<1> USE DEF devVars, dbVars, readerVars, handlerVars, bootVars
<1>1. ASSUME NEW c \in Conns, Serve(c) PROVE TypeOK'
    BY <1>1, TypeServe
<1>2. ASSUME NEW c \in Conns, NEW R \in Ranges, Receive(c, R) PROVE TypeOK'
  <2>1. R \in SUBSET Regs
      BY ProxyAssumption
  <2>2. CASE ReadHit(c, R)
    <3>1. reply' \in [Conns -> Replies]
        BY <2>2 DEF ReadHit, TypeOK, Replies
    <3> QED BY <2>2, <3>1 DEF ReadHit, TypeOK
  <2>3. CASE ReadMiss(c, R)
    <3>1. /\ hpc' \in [Conns -> HPCs] /\ reply' \in [Conns -> Replies]
          /\ req' \in [Conns -> SUBSET Regs]
        BY <2>1, <2>3 DEF ReadMiss, TypeOK, HPCs, Replies
    <3>2. /\ cache' \in [Regs -> Version] /\ expired' \subseteq Regs
          /\ dbErrors' \in Nat
        BY <2>3 DEF ReadMiss, DbError, TypeOK
    <3> QED BY <2>3, <3>1, <3>2 DEF ReadMiss, TypeOK
  <2>4. CASE RecvWrite(c, R)
    <3>1. /\ hpc' \in [Conns -> HPCs] /\ reply' \in [Conns -> Replies]
          /\ req' \in [Conns -> SUBSET Regs]
        BY <2>1, <2>4 DEF RecvWrite, TypeOK, HPCs, Replies
    <3> QED BY <2>4, <3>1 DEF RecvWrite, TypeOK
  <2> QED BY <1>2, <2>2, <2>3, <2>4 DEF Receive
<1>3. CASE Connect
    BY <1>3 DEF Connect, TypeOK, Phases
<1>4. CASE Poll
    BY <1>4, TypePoll
<1>5. CASE SlowIntervalElapses
    BY <1>5 DEF SlowIntervalElapses, TypeOK
<1>6. CASE Restart
  <2>1. FreshBatch(<<>>) /\ <<>> \in Seq(SUBSET Regs) /\ 1 \in 1..ScanPasses
      BY <1>6, ProxyAssumption DEF Restart
  <2>2. got' \in [Conns -> [Regs -> Version]]
      BY <1>6, NothingType DEF Restart
  <2>3. hpc' \in [Conns -> HPCs] /\ reply' \in [Conns -> Replies]
      BY <1>6 DEF Restart, HPCs, Replies
  <2>4. req' \in [Conns -> SUBSET Regs]
      BY <1>6 DEF Restart
  <2>5. /\ todo' \in Seq(SUBSET Regs) /\ batch' \in [Regs -> Version]
        /\ base' \in [Regs -> Nat]
      BY <2>1, FreshBatchStep
  <2>6. phase' \in Phases /\ pass' \in 1..ScanPasses /\ failed' \in Seq(SUBSET Regs)
      BY <1>6, <2>1 DEF Restart, Phases
  <2>7. client' \in BOOLEAN /\ slowDue' \in BOOLEAN
      BY <1>6 DEF Restart
  <2>8. restarts' = restarts + 1 /\ boot' = inv
      BY <1>6 DEF Restart
  <2>9. restarts \in Nat /\ inv \in [Regs -> Nat]
      BY DEF TypeOK
  <2>10. restarts' \in Nat /\ boot' \in [Regs -> Nat]
      BY <2>8, <2>9
  <2>11. UNCHANGED <<inv, changes, cache, expired, dbErrors, acked>>
      BY <1>6 DEF Restart
  <2> QED BY <2>2, <2>3, <2>4, <2>5, <2>6, <2>7, <2>10, <2>11 DEF TypeOK
<1>7. ASSUME NEW r \in Regs, Expire(r) PROVE TypeOK'
    BY <1>7 DEF Expire, TypeOK
<1>8. ASSUME NEW R \in Ranges, DeviceChange(R) PROVE TypeOK'
  <2>1. inv' \in [Regs -> Nat]
      BY <1>8, BumpGrows DEF DeviceChange, TypeOK
  <2> QED BY <1>8, <2>1 DEF DeviceChange, TypeOK
<1>9. CASE UNCHANGED vars
    BY <1>9 DEF vars, TypeOK
<1> QED BY <1>1, <1>2, <1>3, <1>4, <1>5, <1>6, <1>7, <1>8, <1>9 DEF Next

-------------------------------------------------------------------------------
\* What each kind of step does to the versions

\* The inverter's versions never fall.
LEMMA InvGrows ==
    ASSUME TypeOK, [Next]_vars
    PROVE  \A r \in Regs : inv'[r] >= inv[r]
<1> USE DEF devVars, dbVars, readerVars, handlerVars, bootVars
<1>1. CASE \E R : Bump(R)
    BY <1>1, BumpGrows DEF TypeOK
<1>2. CASE inv' = inv
    BY <1>2 DEF TypeOK
<1>3. (\E R : Bump(R)) \/ inv' = inv
    BY DEF Next, Serve, MissNotForwarded, ForwardOk, ForwardErr, Fill,
           WriteRefused, WriteOk, WriteErr, Store, Receive, ReadHit, ReadMiss,
           DbError, RecvWrite, Connect, Poll, Purge, NextPass, EndScan, ReadErr,
           ReadOk, StartSlow, EndSlow, Flush, SlowIntervalElapses, Restart, Expire,
           DeviceChange, vars, NotForwarded, Written, WriteFailed, PassesLeft,
           CountPass
<1> QED BY <1>1, <1>2, <1>3

\* What a handler has in hand after a step it had before, or it is nothing, or
\* it comes from the inverter as it is now.
LEMMA GotStep ==
    ASSUME TypeOK, [Next]_vars
    PROVE  \A c \in Conns, r \in Regs :
              got'[c][r] = got[c][r] \/ got'[c][r] = Missing \/ got'[c][r] = inv'[r]
<1> SUFFICES ASSUME NEW d \in Conns, NEW r \in Regs
             PROVE  got'[d][r] = got[d][r] \/ got'[d][r] = Missing \/ got'[d][r] = inv'[r]
    OBVIOUS
<1> USE DEF devVars, dbVars, readerVars, handlerVars, bootVars
<1>1. ASSUME NEW c \in Conns, NEW kind, Answer(c, kind)
      PROVE  got'[d][r] = got[d][r] \/ got'[d][r] = Missing
    BY <1>1 DEF Answer, TypeOK, Nothing
<1>2. ASSUME NEW c \in Conns, ForwardOk(c)
      PROVE  got'[d][r] = got[d][r] \/ got'[d][r] = Missing \/ got'[d][r] = inv'[r]
    BY <1>2 DEF ForwardOk, TypeOK, Snapshot
<1>3. ASSUME NEW c \in Conns, WriteOk(c)
      PROVE  got'[d][r] = got[d][r] \/ got'[d][r] = Missing \/ got'[d][r] = inv'[r]
    BY <1>3 DEF WriteOk, TypeOK, Bump, Written
<1>4. CASE Restart
    BY <1>4 DEF Restart, Nothing
<1>5. \/ \E c \in Conns : ForwardOk(c) \/ WriteOk(c) \/ \E kind : Answer(c, kind)
      \/ Restart
      \/ got' = got
    BY DEF Next, Serve, MissNotForwarded, ForwardErr, Fill, WriteRefused, WriteErr,
           Store, Receive, ReadHit, ReadMiss, DbError, RecvWrite, Connect, Poll,
           Purge, NextPass, EndScan, ReadErr, ReadOk, StartSlow, EndSlow, Flush,
           SlowIntervalElapses, Expire, DeviceChange, vars, NotForwarded,
           WriteFailed, PassesLeft, CountPass
<1> QED BY <1>1, <1>2, <1>3, <1>4, <1>5

\* What is pending was pending, with the same base, or was just read; or the
\* batch was emptied and the base taken anew.
LEMMA BatchStep ==
    ASSUME TypeOK, [Next]_vars
    PROVE  \/ base' = inv /\ inv' = inv /\ batch' = Nothing
           \/ /\ base' = base
              /\ \A r \in Regs : batch'[r] = batch[r] \/ batch'[r] = inv[r]
<1> USE DEF devVars, dbVars, readerVars, handlerVars, bootVars
<1>1. ASSUME NEW i \in Items, ReadOk(i)
      PROVE  base' = base /\ \A r \in Regs : batch'[r] = batch[r] \/ batch'[r] = inv[r]
    BY <1>1 DEF ReadOk, Over, Snapshot
<1>2. ASSUME NEW items, FreshBatch(items)
      PROVE  base' = inv /\ batch' = Nothing
    BY <1>2 DEF FreshBatch
<1>3. \/ \E i \in Items : ReadOk(i)
      \/ inv' = inv /\ \E items : FreshBatch(items)
      \/ base' = base /\ batch' = batch
    BY DEF Next, Serve, MissNotForwarded, ForwardOk, ForwardErr, Fill,
           WriteRefused, WriteOk, WriteErr, Store, Receive, ReadHit, ReadMiss,
           DbError, RecvWrite, Connect, Poll, Purge, NextPass, EndScan, ReadErr,
           StartSlow, EndSlow, Flush, SlowIntervalElapses, Restart, Expire,
           DeviceChange, vars, NotForwarded, Written, WriteFailed, PassesLeft,
           CountPass
<1> QED BY <1>1, <1>2, <1>3

\* A cached value was cached, or is removed, or was in the batch or with a
\* handler.
LEMMA CacheStep ==
    ASSUME TypeOK, [Next]_vars
    PROVE  \A r \in Regs : \/ cache'[r] \in {cache[r], Missing, batch[r]}
                           \/ \E c \in Conns : cache'[r] = got[c][r]
<1> USE DEF devVars, dbVars, readerVars, handlerVars, bootVars
<1>1. ASSUME NEW c \in Conns, Put(got[c])
      PROVE  \A r \in Regs : cache'[r] = cache[r] \/ cache'[r] = got[c][r]
    BY <1>1, PutStep DEF TypeOK
<1>2. ASSUME Put(batch)
      PROVE  \A r \in Regs : cache'[r] = cache[r] \/ cache'[r] = batch[r]
    BY <1>2, PutStep DEF TypeOK
<1>3. ASSUME DeleteStale
      PROVE  \A r \in Regs : cache'[r] \in {cache[r], Missing}
    BY <1>3, DeleteStaleStep
<1>4. \/ \E c \in Conns : Put(got[c])
      \/ Put(batch)
      \/ DeleteStale
      \/ cache' = cache
    BY DEF Next, Serve, MissNotForwarded, ForwardOk, ForwardErr, Fill,
           WriteRefused, WriteOk, WriteErr, Store, Receive, ReadHit, ReadMiss,
           DbError, RecvWrite, Connect, Poll, Purge, NextPass, EndScan, ReadErr,
           ReadOk, StartSlow, EndSlow, Flush, SlowIntervalElapses, Restart, Expire,
           DeviceChange, vars, NotForwarded, Written, WriteFailed, PassesLeft,
           CountPass
<1> QED BY <1>1, <1>2, <1>3, <1>4

-------------------------------------------------------------------------------
\* The invariant

LEMMA IInvInit == Init => IInv
<1> SUFFICES ASSUME Init PROVE IInv
    OBVIOUS
<1>1. NothingInvented
    BY VersionFacts DEF Init, NothingInvented, Snapshot, Nothing
<1>2. BaseKnown /\ BatchIsOfThisCycle
    BY DEF Init, BaseKnown, BatchIsOfThisCycle, Nothing
<1> QED BY <1>1, <1>2, TypeInit DEF IInv

LEMMA IInvNext == IInv /\ [Next]_vars => IInv'
<1> SUFFICES ASSUME IInv, [Next]_vars PROVE IInv'
    OBVIOUS
<1>1. TypeOK /\ NothingInvented /\ BaseKnown /\ BatchIsOfThisCycle
    BY DEF IInv
<1>2. TypeOK'
    BY <1>1, TypeNext
<1>3. ASSUME NEW r \in Regs
      PROVE  /\ inv[r] \in Nat /\ inv'[r] \in Nat /\ inv'[r] >= inv[r]
             /\ base[r] \in Nat /\ base'[r] \in Nat
             /\ cache[r] \in Int /\ batch[r] \in Int
             /\ \A c \in Conns : got[c][r] \in Int
  <2>1. /\ inv[r] \in Nat /\ base[r] \in Nat
        /\ cache[r] \in Version /\ batch[r] \in Version
        /\ \A c \in Conns : got[c][r] \in Version
      BY <1>1 DEF TypeOK
  <2>2. inv'[r] \in Nat /\ base'[r] \in Nat
      BY <1>2 DEF TypeOK
  <2>3. inv'[r] >= inv[r]
      BY <1>1, InvGrows
  <2> QED BY <2>1, <2>2, <2>3, VersionFacts
<1>4. NothingInvented'
  <2> SUFFICES ASSUME NEW r \in Regs
               PROVE  /\ cache'[r] <= inv'[r]
                      /\ batch'[r] <= inv'[r]
                      /\ \A c \in Conns : got'[c][r] <= inv'[r]
      BY DEF NothingInvented
  <2>1. /\ cache[r] <= inv'[r] /\ batch[r] <= inv'[r] /\ Missing <= inv'[r]
        /\ \A c \in Conns : got[c][r] <= inv'[r]
      BY <1>1, <1>3, VersionFacts DEF NothingInvented
  <2>2. cache'[r] <= inv'[r]
      BY <1>1, <2>1, CacheStep
  <2>3. batch'[r] <= inv'[r]
    <3>1. batch'[r] \in {batch[r], inv[r], Missing}
        BY <1>1, BatchStep DEF Nothing
    <3> QED BY <1>3, <2>1, <3>1
  <2>4. \A c \in Conns : got'[c][r] <= inv'[r]
      BY <1>1, <1>3, <2>1, GotStep
  <2> QED BY <2>2, <2>3, <2>4
<1>5. BaseKnown'
  <2> SUFFICES ASSUME NEW r \in Regs PROVE base'[r] <= inv'[r]
      BY DEF BaseKnown
  <2>1. base'[r] \in {base[r], inv[r]}
      BY <1>1, BatchStep
  <2> QED BY <1>1, <1>3, <2>1 DEF BaseKnown
<1>6. BatchIsOfThisCycle'
  <2> SUFFICES ASSUME NEW r \in Regs, batch'[r] # Missing PROVE batch'[r] >= base'[r]
      BY DEF BatchIsOfThisCycle
  <2>1. base'[r] = base[r] /\ batch'[r] \in {batch[r], inv[r]}
      BY <1>1, BatchStep DEF Nothing
  <2> QED BY <1>1, <1>3, <2>1 DEF BaseKnown, BatchIsOfThisCycle
<1> QED BY <1>2, <1>4, <1>5, <1>6 DEF IInv

\* The invariant holds in every state of every instance.
THEOREM Inductive == Spec => []IInv
<1>1. Init => IInv
    BY IInvInit
<1>2. IInv /\ [Next]_vars => IInv'
    BY IInvNext
<1> QED BY <1>1, <1>2, PTL DEF Spec

\* Type correctness of the proxy for all values of the constants.
THEOREM TypeCorrect == Spec => []TypeOK
<1>1. IInv => TypeOK
    BY DEF IInv
<1> QED BY <1>1, Inductive, PTL

\* The cache, the pending writes and the handlers only ever have values the
\* inverter has or had, whatever fails or restarts (server.go:184, 224).
THEOREM Real == Spec => []NothingInvented
<1>1. IInv => NothingInvented
    BY DEF IInv
<1> QED BY <1>1, Inductive, PTL

\* Nothing pending is older than the cycle or pass it is of (reader.go:213).
THEOREM BatchCurrent == Spec => []BatchIsOfThisCycle
<1>1. IInv => BatchIsOfThisCycle
    BY DEF IInv
<1> QED BY <1>1, Inductive, PTL

\* A flush never undoes what was in the cache when its cycle began: only a
\* write made during the cycle is undone (reader.go:178, 272).
THEOREM FlushBounded == Spec => FlushUndoesOnlyThisCycle
<1>1. IInv /\ [Next]_vars =>
        (NextPass \/ EndScan \/ Flush =>
            \A r \in Regs : cache'[r] < cache[r] => cache[r] > base[r])
  <2> SUFFICES ASSUME IInv, NextPass \/ EndScan \/ Flush,
                      NEW r \in Regs, cache'[r] < cache[r]
               PROVE  cache[r] > base[r]
      OBVIOUS
  <2>1. TypeOK /\ BatchIsOfThisCycle
      BY DEF IInv
  <2>2. Put(batch)
      BY DEF NextPass, EndScan, Flush, PassesLeft, CountPass
  <2>3. cache[r] \in Int /\ base[r] \in Int /\ batch[r] \in Int
      BY <2>1, VersionFacts DEF TypeOK
  <2>4. batch[r] # Missing /\ cache'[r] = batch[r]
      BY <2>1, <2>2, <2>3, PutStep DEF TypeOK
  <2> QED BY <2>1, <2>3, <2>4 DEF BatchIsOfThisCycle
<1> QED BY <1>1, Inductive, PTL DEF Spec, FlushUndoesOnlyThisCycle

-------------------------------------------------------------------------------
\* The initial scan

\* What was in the inverter when the process started is not ahead of it now.
BootKnown == \A r \in Regs : boot[r] <= inv[r]

\* What is pending, or with a handler, was read since the process started: a
\* handler's fill cannot put back what an earlier run of the process had.
SinceBoot ==
    \A r \in Regs :
        /\ batch[r] # Missing => batch[r] >= boot[r]
        /\ \A c \in Conns : got[c][r] # Missing => got[c][r] >= boot[r]

ScanInv == BootKnown /\ SinceBoot /\ ScanLosesNoGroup

LEMMA RangeAppend ==
    ASSUME NEW S, NEW s \in Seq(S), NEW e \in S
    PROVE  Range(s) \cup {e} \subseteq Range(Append(s, e))
<1> DEFINE t == Append(s, e)
<1>1. /\ DOMAIN t = 1..Len(s) + 1
      /\ \A i \in 1..Len(s) : t[i] = s[i]
      /\ t[Len(s) + 1] = e
      /\ DOMAIN s = 1..Len(s)
      /\ Len(s) \in Nat
    OBVIOUS
<1> HIDE DEF t
<1>2. Range(s) \subseteq Range(t)
    BY <1>1 DEF Range
<1>3. e \in Range(t)
    BY <1>1 DEF Range
<1>4. Range(s) \cup {e} \subseteq Range(t)
    BY <1>2, <1>3
<1> QED BY <1>4 DEF t

\* What is not the first of a list is still in the rest of it.
LEMMA RangeHeadTail ==
    ASSUME NEW S, NEW s \in Seq(S), s # <<>>
    PROVE  Range(s) \subseteq {Head(s)} \cup Range(Tail(s))
<1> DEFINE t == Tail(s)
<1>1. /\ DOMAIN t = 1..Len(s) - 1
      /\ \A i \in 1..Len(s) - 1 : t[i] = s[i + 1]
      /\ DOMAIN s = 1..Len(s)
      /\ Len(s) \in Nat \ {0}
      /\ Head(s) = s[1]
    OBVIOUS
<1> HIDE DEF t
<1>2. ASSUME NEW i \in 1..Len(s), i # 1 PROVE s[i] \in Range(t)
  <2>1. i - 1 \in 1..Len(s) - 1 /\ t[i - 1] = s[(i - 1) + 1] /\ (i - 1) + 1 = i
      BY <1>1, <1>2
  <2> QED BY <1>1, <2>1 DEF Range
<1>3. Range(s) \subseteq {Head(s)} \cup Range(t)
    BY <1>1, <1>2 DEF Range
<1> QED BY <1>3 DEF t

\* The process's starting point is taken anew, or stays.
LEMMA BootStep ==
    ASSUME [Next]_vars
    PROVE  Restart \/ boot' = boot
<1> USE DEF devVars, dbVars, readerVars, handlerVars, bootVars
<1> QED BY DEF Next, Serve, MissNotForwarded, ForwardOk, ForwardErr, Fill,
           WriteRefused, WriteOk, WriteErr, Store, Receive, ReadHit, ReadMiss,
           DbError, RecvWrite, Connect, Poll, Purge, NextPass, EndScan, ReadErr,
           ReadOk, StartSlow, EndSlow, Flush, SlowIntervalElapses, Expire,
           DeviceChange, vars, NotForwarded, Written, WriteFailed, PassesLeft,
           CountPass

LEMMA BootNext ==
    ASSUME IInv, BootKnown, SinceBoot, [Next]_vars
    PROVE  BootKnown' /\ SinceBoot'
<1>1. TypeOK /\ TypeOK'
    BY TypeNext DEF IInv
<1>2. ASSUME NEW r \in Regs
      PROVE  /\ inv[r] \in Nat /\ inv'[r] \in Nat /\ inv'[r] >= inv[r]
             /\ boot[r] \in Nat
  <2>1. inv[r] \in Nat /\ inv'[r] \in Nat /\ boot[r] \in Nat
      BY <1>1 DEF TypeOK
  <2> QED BY <1>1, <2>1, InvGrows
<1>3. CASE Restart
  <2>1. /\ boot' = inv /\ inv' = inv /\ batch' = Nothing
        /\ got' = [c \in Conns |-> Nothing]
      BY <1>3 DEF Restart, FreshBatch, devVars
  <2>2. \A r \in Regs : batch'[r] = Missing /\ \A c \in Conns : got'[c][r] = Missing
      BY <2>1 DEF Nothing
  <2> QED BY <1>2, <2>1, <2>2 DEF BootKnown, SinceBoot
<1>4. CASE boot' = boot
  <2>1. BootKnown'
      BY <1>2, <1>4 DEF BootKnown
  <2>2. ASSUME NEW r \in Regs
        PROVE  inv[r] >= boot[r] /\ inv'[r] >= boot[r]
      BY <1>2, <2>2 DEF BootKnown
  <2>3. ASSUME NEW r \in Regs, batch'[r] # Missing PROVE batch'[r] >= boot[r]
    <3>1. batch'[r] \in {batch[r], inv[r]}
        BY <1>1, <2>3, BatchStep DEF Nothing
    <3> QED BY <2>2, <2>3, <3>1 DEF SinceBoot
  <2>4. ASSUME NEW c \in Conns, NEW r \in Regs, got'[c][r] # Missing
        PROVE  got'[c][r] >= boot[r]
    <3>1. got'[c][r] \in {got[c][r], inv'[r]}
        BY <1>1, <2>4, GotStep
    <3> QED BY <2>2, <2>4, <3>1 DEF SinceBoot
  <2> QED BY <1>4, <2>1, <2>3, <2>4 DEF SinceBoot
<1> QED BY <1>3, <1>4, BootStep

\* The transaction succeeded.
LEMMA PutDone ==
    ASSUME TypeOK, NEW values, Put(values), dbErrors' = 0
    PROVE  cache' = Over(values, cache) /\ dbErrors = 0
BY DEF TypeOK, Put, DbError

\* A group that was not lost is not lost by any step of the scan.
LEMMA ScanNext ==
    ASSUME IInv, ScanInv, [Next]_vars
    PROVE  ScanLosesNoGroup'
<1> USE DEF devVars, dbVars, readerVars, handlerVars, bootVars
<1> SUFFICES ASSUME phase' = "scan", dbErrors' = 0, NEW i \in Items
             PROVE  \/ i \in Range(todo') \cup Range(failed')
                    \/ \A r \in i : batch'[r] >= boot'[r] \/ cache'[r] >= boot'[r]
    BY DEF ScanLosesNoGroup
<1> DEFINE Left  == i \in Range(todo) \cup Range(failed)
           Known == \A r \in i : batch[r] >= boot[r] \/ cache[r] >= boot[r]
           Goal  == \/ i \in Range(todo') \cup Range(failed')
                    \/ \A r \in i : batch'[r] >= boot'[r] \/ cache'[r] >= boot'[r]
<1>1. TypeOK /\ BootKnown /\ SinceBoot /\ ScanLosesNoGroup
    BY DEF IInv, ScanInv
<1>2. i \subseteq Regs
    BY ItemTypes DEF Items, Range
<1>3. todo \in Seq(SUBSET Regs) /\ failed \in Seq(SUBSET Regs)
    BY <1>1 DEF TypeOK
<1>4. ASSUME phase = "scan", dbErrors = 0 PROVE Left \/ Known
    BY <1>1, <1>4 DEF ScanLosesNoGroup
<1>5. ASSUME NEW c \in Conns, Put(got[c]),
             UNCHANGED <<phase, todo, failed, batch, boot>>
      PROVE  Goal
  <2>1. cache' = Over(got[c], cache) /\ dbErrors = 0
      BY <1>1, <1>5, PutDone
  <2>2. ASSUME NEW r \in i, cache[r] >= boot[r] PROVE cache'[r] >= boot[r]
      BY <1>1, <1>2, <2>1, <2>2 DEF Over, SinceBoot
  <2>3. Left \/ Known
      BY <1>4, <1>5, <2>1
  <2> QED BY <1>5, <2>2, <2>3
<1>6. ASSUME UNCHANGED <<cache, dbErrors, phase, todo, failed, batch, boot>>
      PROVE  Goal
    BY <1>4, <1>6
<1>7. CASE Purge
    BY <1>7 DEF Purge, FreshBatch, Items
<1>8. ASSUME NEW j \in Items, ReadOk(j) PROVE Goal
  <2>1. /\ todo # <<>> /\ j = Head(todo) /\ todo' = Tail(todo)
        /\ batch' = Over(Snapshot(j), batch)
        /\ UNCHANGED <<cache, dbErrors, phase, failed, boot>>
      BY <1>8 DEF ReadOk
  <2>2. ASSUME NEW r \in i, r \in j PROVE batch'[r] >= boot[r]
    <3>1. batch'[r] = inv[r] /\ inv[r] \in Nat /\ boot[r] \in Nat
        BY <1>1, <1>2, <2>1, <2>2, VersionFacts DEF Over, Snapshot, TypeOK
    <3> QED BY <1>1, <1>2, <3>1 DEF BootKnown
  <2>3. ASSUME NEW r \in i, r \notin j PROVE batch'[r] = batch[r]
      BY <1>2, <2>1, <2>3 DEF Over, Snapshot
  <2>4. Range(todo) \subseteq {j} \cup Range(todo')
      BY <1>3, <2>1, RangeHeadTail
  <2>5. Left \/ Known
      BY <1>4, <2>1
  <2>6. CASE Left /\ i # j
      BY <2>1, <2>4, <2>6
  <2>7. CASE i = j
      BY <2>1, <2>2, <2>7
  <2>8. CASE Known
      BY <2>1, <2>2, <2>3, <2>8
  <2> QED BY <2>5, <2>6, <2>7, <2>8
<1>9. CASE ReadErr
  <2>1. /\ todo # <<>> /\ todo' = Tail(todo) /\ failed' = Append(failed, Head(todo))
        /\ UNCHANGED <<cache, dbErrors, phase, batch, boot>>
      BY <1>9 DEF ReadErr
  <2>2. Range(todo) \subseteq {Head(todo)} \cup Range(todo')
      BY <1>3, <2>1, RangeHeadTail
  <2>3. Head(todo) \in SUBSET Regs
      BY <1>3, <2>1
  <2>4. Range(failed) \cup {Head(todo)} \subseteq Range(failed')
      BY <1>3, <2>1, <2>3, RangeAppend
  <2> QED BY <1>4, <2>1, <2>2, <2>4
<1>10. CASE NextPass
  <2>1. /\ phase = "scan" /\ todo = <<>> /\ Put(batch) /\ todo' = failed
        /\ boot' = boot
      BY <1>10 DEF NextPass, FreshBatch
  <2>2. cache' = Over(batch, cache) /\ dbErrors = 0
      BY <1>1, <2>1, PutDone
  <2>3. Left => i \in Range(todo')
      BY <2>1 DEF Range
  <2>4. ASSUME NEW r \in i, batch[r] >= boot[r] \/ cache[r] >= boot[r]
        PROVE  cache'[r] >= boot[r]
    <3>1. boot[r] \in Nat
        BY <1>1, <1>2 DEF TypeOK
    <3>2. CASE batch[r] # Missing
        BY <1>1, <1>2, <2>2, <3>2 DEF Over, SinceBoot
    <3>3. CASE batch[r] = Missing
      <4>1. ~(batch[r] >= boot[r])
          BY <3>1, <3>3, VersionFacts
      <4> QED BY <1>2, <2>2, <2>4, <3>3, <4>1 DEF Over
    <3> QED BY <3>2, <3>3
  <2> QED BY <1>4, <2>1, <2>2, <2>3, <2>4
<1>11. ASSUME NEW c \in Conns, Serve(c) PROVE Goal
  <2>1. CASE Fill(c) \/ Store(c)
      BY <1>5, <2>1 DEF Fill, Store
  <2>2. CASE ~(Fill(c) \/ Store(c))
      BY <1>6, <1>11, <2>2 DEF Serve, MissNotForwarded, ForwardOk, ForwardErr,
         WriteRefused, WriteOk, WriteErr
  <2> QED BY <2>1, <2>2
<1>12. ASSUME NEW c \in Conns, NEW R \in Ranges, Receive(c, R) PROVE Goal
  <2>1. dbErrors \in Nat
      BY <1>1 DEF TypeOK
  <2>2. UNCHANGED <<cache, dbErrors, phase, todo, failed, batch, boot>>
      BY <1>12, <2>1 DEF Receive, ReadHit, ReadMiss, RecvWrite, DbError
  <2> QED BY <1>6, <2>2
<1>13. CASE Poll
  <2>1. ~(EndScan \/ StartSlow \/ EndSlow \/ Flush)
      BY DEF EndScan, StartSlow, EndSlow, Flush
  <2> QED BY <1>7, <1>8, <1>9, <1>10, <1>13, <2>1 DEF Poll
<1>14. ~(Connect \/ Restart)
    BY DEF Connect, Restart
<1>15. ASSUME \/ SlowIntervalElapses
              \/ \E r \in Regs : Expire(r)
              \/ \E R \in Ranges : DeviceChange(R)
              \/ UNCHANGED vars
       PROVE  Goal
    BY <1>6, <1>15 DEF SlowIntervalElapses, Expire, DeviceChange, vars
<1> QED BY <1>11, <1>12, <1>13, <1>14, <1>15 DEF Next

\* The initial scan reads every group, or leaves it among the failed ones,
\* while handlers fill and write the same cache (reader.go:156).
THEOREM ScanComplete == Spec => []ScanLosesNoGroup
<1>1. Init => ScanInv
  <2> SUFFICES ASSUME Init PROVE ScanInv
      OBVIOUS
  <2>1. phase # "scan" /\ boot = inv
      BY DEF Init
  <2>2. \A r \in Regs : batch[r] = Missing /\ \A c \in Conns : got[c][r] = Missing
      BY DEF Init, Nothing
  <2>3. inv \in [Regs -> Nat]
      BY DEF Init
  <2> QED BY <2>1, <2>2, <2>3 DEF ScanInv, BootKnown, SinceBoot, ScanLosesNoGroup
<1>2. IInv /\ ScanInv /\ [Next]_vars => ScanInv'
    BY BootNext, ScanNext DEF ScanInv
<1>3. ScanInv => ScanLosesNoGroup
    BY DEF ScanInv
<1> QED BY <1>1, <1>2, <1>3, Inductive, PTL DEF Spec

-------------------------------------------------------------------------------
\* A single connection

LEMMA MissingIsLeast == \A v \in Version : v \in Int /\ v >= Missing
BY DEF Missing, Version

\* The registers no group polls.
Unpolled == Regs \ UNION Items

\* The reader has nothing to do with them.
BatchIsPolled == \A r \in Unpolled : batch[r] = Missing

\* An acknowledged write was one.
AckedKnown == \A r \in Regs : acked[r] <= inv[r]

\* What the handler is about to store is not older than what it has
\* acknowledged.  With a second connection this is false.
GotIsLast ==
    \A c \in Conns, r \in Regs : got[c][r] # Missing => got[c][r] >= acked[r]

\* Stronger than the property: it holds while the handler is at work, too.
UnpolledIsLast ==
    dbErrors = 0 => \A r \in Unpolled : cache[r] # Missing => cache[r] >= acked[r]

WriterInv == BatchIsPolled /\ AckedKnown /\ GotIsLast /\ UnpolledIsLast

\* Only a Store acknowledges, and it leaves its handler with nothing.
LEMMA AckedStep ==
    ASSUME TypeOK, [Next]_vars
    PROVE  \/ acked' = acked
           \/ \E c \in Conns :
                /\ Put(got[c])
                /\ got'[c] = Nothing
                /\ acked' = [r \in Regs |->
                                IF got[c][r] > acked[r] THEN got[c][r] ELSE acked[r]]
<1> USE DEF devVars, dbVars, readerVars, handlerVars, bootVars
<1>1. ASSUME NEW c \in Conns, Store(c)
      PROVE  /\ Put(got[c])
             /\ got'[c] = Nothing
             /\ acked' = [r \in Regs |->
                            IF got[c][r] > acked[r] THEN got[c][r] ELSE acked[r]]
    BY <1>1 DEF Store, Answer, TypeOK
<1>2. (\E c \in Conns : Store(c)) \/ acked' = acked
    BY DEF Next, Serve, MissNotForwarded, ForwardOk, ForwardErr, Fill,
           WriteRefused, WriteOk, WriteErr, Receive, ReadHit, ReadMiss,
           DbError, RecvWrite, Connect, Poll, Purge, NextPass, EndScan, ReadErr,
           ReadOk, StartSlow, EndSlow, Flush, SlowIntervalElapses, Restart, Expire,
           DeviceChange, vars, NotForwarded, Written, WriteFailed, PassesLeft,
           CountPass
<1> QED BY <1>1, <1>2

\* Pending writes are of polled registers.
LEMMA BatchIsPolledNext ==
    ASSUME TypeOK, BatchIsPolled, [Next]_vars
    PROVE  BatchIsPolled'
<1> USE DEF devVars, dbVars, readerVars, handlerVars, bootVars
<1> SUFFICES ASSUME NEW r \in Unpolled PROVE batch'[r] = Missing
    BY DEF BatchIsPolled
<1>1. r \in Regs /\ batch[r] = Missing /\ \A i \in Items : r \notin i
    BY DEF BatchIsPolled, Unpolled
<1>2. ASSUME NEW i \in Items, ReadOk(i) PROVE batch'[r] = Missing
    BY <1>1, <1>2 DEF ReadOk, Over, Snapshot
<1>3. ASSUME NEW items, FreshBatch(items) PROVE batch'[r] = Missing
    BY <1>1, <1>3 DEF FreshBatch, Nothing
<1>4. \/ \E i \in Items : ReadOk(i)
      \/ \E items : FreshBatch(items)
      \/ batch' = batch
    BY DEF Next, Serve, MissNotForwarded, ForwardOk, ForwardErr, Fill,
           WriteRefused, WriteOk, WriteErr, Store, Receive, ReadHit, ReadMiss,
           DbError, RecvWrite, Connect, Poll, Purge, NextPass, EndScan, ReadErr,
           StartSlow, EndSlow, Flush, SlowIntervalElapses, Restart, Expire,
           DeviceChange, vars, NotForwarded, Written, WriteFailed, PassesLeft,
           CountPass
<1> QED BY <1>1, <1>2, <1>3, <1>4

LEMMA AckedNext ==
    ASSUME IInv, \A c, d \in Conns : c = d, AckedKnown, GotIsLast, [Next]_vars
    PROVE  AckedKnown' /\ GotIsLast'
<1>1. TypeOK /\ TypeOK' /\ NothingInvented
    BY TypeNext DEF IInv
<1>2. ASSUME NEW r \in Regs
      PROVE  /\ inv[r] \in Nat /\ inv'[r] \in Nat /\ inv'[r] >= inv[r]
             /\ acked[r] \in Int
             /\ \A c \in Conns : got[c][r] \in Int
  <2>1. inv[r] \in Nat /\ inv'[r] \in Nat
      BY <1>1 DEF TypeOK
  <2>2. acked[r] \in Version /\ \A c \in Conns : got[c][r] \in Version
      BY <1>1 DEF TypeOK
  <2> QED BY <1>1, <2>1, <2>2, InvGrows, VersionFacts
<1>3. CASE acked' = acked
  <2>1. \A r \in Regs : acked[r] <= inv'[r]
      BY <1>2 DEF AckedKnown
  <2>2. ASSUME NEW c \in Conns, NEW r \in Regs, got'[c][r] # Missing
        PROVE  got'[c][r] >= acked[r]
    <3>1. got'[c][r] \in {got[c][r], inv'[r]}
        BY <1>1, <2>2, GotStep
    <3> QED BY <1>2, <2>1, <2>2, <3>1 DEF GotIsLast
  <2> QED BY <1>3, <2>1, <2>2 DEF AckedKnown, GotIsLast
<1>4. ASSUME NEW c \in Conns, got'[c] = Nothing,
             acked' = [r \in Regs |->
                        IF got[c][r] > acked[r] THEN got[c][r] ELSE acked[r]]
      PROVE  AckedKnown' /\ GotIsLast'
  <2>1. AckedKnown'
    <3> SUFFICES ASSUME NEW r \in Regs PROVE acked'[r] <= inv'[r]
        BY DEF AckedKnown
    <3>1. got[c][r] <= inv[r] /\ acked[r] <= inv[r]
        BY <1>1 DEF NothingInvented, AckedKnown
    <3>2. acked'[r] \in {got[c][r], acked[r]}
        BY <1>4
    <3> QED BY <1>2, <3>1, <3>2
  <2>2. GotIsLast'
    <3> SUFFICES ASSUME NEW d \in Conns, NEW r \in Regs PROVE got'[d][r] = Missing
        BY DEF GotIsLast
    <3>1. d = c
        OBVIOUS
    <3> QED BY <1>4, <3>1 DEF Nothing
  <2> QED BY <2>1, <2>2
<1> QED BY <1>1, <1>3, <1>4, AckedStep

LEMMA UnpolledNext ==
    ASSUME IInv, WriterInv, [Next]_vars
    PROVE  UnpolledIsLast'
<1> USE DEF devVars, dbVars, readerVars, handlerVars, bootVars
<1> SUFFICES ASSUME dbErrors' = 0, NEW r \in Unpolled, cache'[r] # Missing
             PROVE  cache'[r] >= acked'[r]
    BY DEF UnpolledIsLast
<1>1. TypeOK /\ BatchIsPolled /\ GotIsLast /\ UnpolledIsLast
    BY DEF IInv, WriterInv
<1>2. r \in Regs /\ batch[r] = Missing
    BY <1>1 DEF BatchIsPolled, Unpolled
<1>3. /\ cache[r] \in Int /\ acked[r] \in Int
      /\ \A c \in Conns : got[c][r] \in Int
      /\ acked[r] >= Missing
  <2>1. cache[r] \in Version /\ acked[r] \in Version
        /\ \A c \in Conns : got[c][r] \in Version
      BY <1>1, <1>2 DEF TypeOK
  <2> QED BY <2>1, MissingIsLeast
<1>4. dbErrors = 0
  <2>1. dbErrors \in Nat
      BY <1>1 DEF TypeOK
  <2>2. \/ dbErrors' = dbErrors \/ DbError
      BY DEF Next, Serve, MissNotForwarded, ForwardOk, ForwardErr, Fill,
           WriteRefused, WriteOk, WriteErr, Store, Receive, ReadHit, ReadMiss,
           Put, DeleteStale, RecvWrite, Connect, Poll, Purge, NextPass, EndScan,
           ReadErr, ReadOk, StartSlow, EndSlow, Flush, SlowIntervalElapses,
           Restart, Expire, DeviceChange, vars, NotForwarded, Written,
           WriteFailed, PassesLeft, CountPass
  <2> QED BY <2>1, <2>2 DEF DbError
<1>5. cache[r] # Missing => cache[r] >= acked[r]
    BY <1>1, <1>4 DEF UnpolledIsLast
<1>6. CASE acked' = acked
  <2>1. \/ cache'[r] \in {cache[r], batch[r]}
        \/ \E c \in Conns : cache'[r] = got[c][r]
      BY <1>1, <1>2, CacheStep
  <2> QED BY <1>1, <1>2, <1>5, <1>6, <2>1 DEF GotIsLast
<1>7. ASSUME NEW c \in Conns, Put(got[c]),
             acked' = [q \in Regs |->
                        IF got[c][q] > acked[q] THEN got[c][q] ELSE acked[q]]
      PROVE  cache'[r] >= acked'[r]
  <2>1. cache'[r] = IF got[c][r] = Missing THEN cache[r] ELSE got[c][r]
      BY <1>1, <1>2, <1>7, PutDone DEF Over
  <2>2. acked'[r] = IF got[c][r] > acked[r] THEN got[c][r] ELSE acked[r]
      BY <1>2, <1>7
  <2>3. CASE got[c][r] = Missing
      BY <1>3, <1>5, <2>1, <2>2, <2>3
  <2>4. CASE got[c][r] # Missing
      BY <1>1, <1>2, <1>3, <2>1, <2>2, <2>4 DEF GotIsLast
  <2> QED BY <2>3, <2>4
<1> QED BY <1>1, <1>6, <1>7, AckedStep

\* With at most one connection, a register nothing polls never has a value
\* older than the last acknowledged write (server.go:191, 231); the run
\* writers shows that a second connection breaks it.
THEOREM LastWriteStays ==
    ASSUME \A c, d \in Conns : c = d
    PROVE  Spec => []QuietCacheHasLastWrite
<1>1. Init => WriterInv
  <2> SUFFICES ASSUME Init PROVE WriterInv
      OBVIOUS
  <2>1. \A r \in Regs : /\ batch[r] = Missing /\ acked[r] = Missing
                        /\ \A c \in Conns : got[c][r] = Missing
      BY DEF Init, Nothing
  <2>2. inv \in [Regs -> Nat]
      BY DEF Init
  <2>3. cache \in [Regs -> Version]
      BY <2>2, SnapshotType DEF Init
  <2>4. \A r \in Regs : inv[r] >= Missing /\ (cache[r] # Missing => cache[r] >= Missing)
      BY <2>2, <2>3, VersionFacts, MissingIsLeast
  <2> QED BY <2>1, <2>4 DEF WriterInv, BatchIsPolled, AckedKnown, GotIsLast,
           UnpolledIsLast, Unpolled
<1>2. IInv /\ WriterInv /\ [Next]_vars => WriterInv'
  <2> SUFFICES ASSUME IInv, WriterInv, [Next]_vars PROVE WriterInv'
      OBVIOUS
  <2>1. TypeOK /\ BatchIsPolled /\ AckedKnown /\ GotIsLast
      BY DEF IInv, WriterInv
  <2>2. BatchIsPolled'
      BY <2>1, BatchIsPolledNext
  <2>3. AckedKnown' /\ GotIsLast'
      BY <2>1, AckedNext
  <2>4. UnpolledIsLast'
      BY UnpolledNext
  <2> QED BY <2>2, <2>3, <2>4 DEF WriterInv
<1>3. WriterInv => QuietCacheHasLastWrite
    BY DEF WriterInv, UnpolledIsLast, Unpolled, QuietCacheHasLastWrite
<1> QED BY <1>1, <1>2, <1>3, Inductive, PTL DEF Spec

===============================================================================
