------------------------ MODULE RegisterCacheProofs ------------------------
(***************************************************************************)
(* What TLAPS proves of RegisterCache for all callers, keys, values and    *)
(* batches: its type invariant, the invariant of the work in progress, and *)
(* that it implements AtomicCache.                                         *)
(*                                                                         *)
(* The argument: who has the connection is alone, so between its steps     *)
(* nobody else changes the table; the rows of a batch that are still to be *)
(* upserted, applied to the transaction's view, always give the result of  *)
(* the whole batch applied to the table.                                   *)
(***************************************************************************)
EXTENDS RegisterCache, WellFoundedInduction, TLAPS

-------------------------------------------------------------------------------
\* What a sequence of upserts does to a table

\* A set of indices that is not empty has a last one.
LEMMA LastIndex ==
    ASSUME NEW n \in Nat, NEW at \in SUBSET (1..n), at # {}
    PROVE  \E i \in at : \A j \in at : j <= i
<1> DEFINE Below == {n - i : i \in at}
           Less  == {ss \in Nat \X Nat : ss[1] < ss[2]}
<1>1. IsWellFoundedOn(Less, Nat)
    BY NatLessThanWellFounded DEF OpToRel
<1>2. Below \subseteq Nat /\ Below # {}
  <2>1. \A i \in at : i \in 1..n /\ n - i \in Nat
      OBVIOUS
  <2> QED BY <2>1
<1>3. \E d \in Below : \A e \in Below : ~(<<e, d>> \in Less)
  <2> HIDE DEF Below, Less
  <2> QED BY <1>1, <1>2, WFMin
<1>4. PICK d \in Below : \A e \in Below : ~(e < d)
    BY <1>2, <1>3
<1>5. PICK i \in at : d = n - i
    BY <1>4
<1>6. \A j \in at : n - j \in Below
    OBVIOUS
<1>7. \A j \in at : ~(n - j < n - i)
    BY <1>4, <1>5, <1>6
<1> QED BY <1>5, <1>7

\* The value After gives a key: that of the last row for it.
LEMMA AfterLast ==
    ASSUME NEW rows \in Seq(A!Row), NEW t \in A!Table, NEW k \in Keys,
           NEW i \in 1..Len(rows), rows[i].key = k,
           \A j \in 1..Len(rows) : rows[j].key = k => j <= i
    PROVE  A!After(rows, t)[k] = rows[i].val
<1> DEFINE at == {j \in 1..Len(rows) : rows[j].key = k}
<1>1. i \in at /\ \A j \in at : j <= i
    OBVIOUS
<1>2. \A m \in at : (\A j \in at : j <= m) => m = i
    BY <1>1
<1>3. (CHOOSE m \in at : \A j \in at : j <= m) = i
  <2> HIDE DEF at
  <2> QED BY <1>1, <1>2
<1>4. A!After(rows, t)[k] = IF at = {} THEN t[k]
        ELSE rows[CHOOSE m \in at : \A j \in at : j <= m].val
    BY DEF A!After
<1> QED BY <1>1, <1>3, <1>4

\* A key no row is for keeps its value.
LEMMA AfterNone ==
    ASSUME NEW rows \in Seq(A!Row), NEW t \in A!Table, NEW k \in Keys,
           \A j \in 1..Len(rows) : rows[j].key # k
    PROVE  A!After(rows, t)[k] = t[k]
<1>1. {j \in 1..Len(rows) : rows[j].key = k} = {}
    OBVIOUS
<1> QED BY <1>1 DEF A!After

LEMMA AfterIsFunction ==
    ASSUME NEW rows, NEW t
    PROVE  A!After(rows, t) = [k \in Keys |-> A!After(rows, t)[k]]
BY DEF A!After

LEMMA AfterEmpty ==
    ASSUME NEW t \in A!Table
    PROVE  A!After(<<>>, t) = t
<1>1. <<>> \in Seq(A!Row) /\ Len(<<>>) = 0
    OBVIOUS
<1>2. ASSUME NEW k \in Keys
      PROVE  A!After(<<>>, t)[k] = t[k]
  <2> DEFINE none == <<>>
  <2>1. \A j \in 1..Len(none) : none[j].key # k
      BY <1>1
  <2> HIDE DEF none
  <2> QED BY <1>1, <2>1, AfterNone DEF none
<1>3. A!After(<<>>, t) = [k \in Keys |-> A!After(<<>>, t)[k]]
    BY AfterIsFunction
<1> QED BY <1>2, <1>3 DEF A!Table

\* The upsert of the first row, then of the others, is the upsert of all.
LEMMA AfterHead ==
    ASSUME NEW rows \in Seq(A!Row), rows # <<>>, NEW t \in A!Table
    PROVE  LET row == Head(rows) IN
           /\ row \in A!Row /\ Tail(rows) \in Seq(A!Row)
           /\ [t EXCEPT ![row.key] = row.val] \in A!Table
           /\ A!After(Tail(rows), [t EXCEPT ![row.key] = row.val]) = A!After(rows, t)
<1> DEFINE row  == Head(rows)
           rest == Tail(rows)
           t1   == [t EXCEPT ![row.key] = row.val]
<1>1. /\ row \in A!Row /\ row = rows[1]
      /\ rest \in Seq(A!Row) /\ Len(rest) = Len(rows) - 1 /\ Len(rows) >= 1
      /\ \A j \in 1..Len(rest) : rest[j] = rows[j + 1]
    OBVIOUS
<1>2. t1 \in A!Table /\ \A k \in Keys : t1[k] = IF k = row.key THEN row.val ELSE t[k]
    BY <1>1 DEF A!Table, A!Row
<1>3. ASSUME NEW k \in Keys
      PROVE  A!After(rest, t1)[k] = A!After(rows, t)[k]
  <2>1. CASE \E j \in 1..Len(rest) : rest[j].key = k
    <3>1. PICK i \in 1..Len(rest) :
            rest[i].key = k /\ \A j \in 1..Len(rest) : rest[j].key = k => j <= i
      <4> DEFINE at == {j \in 1..Len(rest) : rest[j].key = k}
      <4>1. at \in SUBSET (1..Len(rest)) /\ at # {} /\ Len(rest) \in Nat
        <5>1. Len(rest) \in Nat
            BY <1>1
        <5> HIDE DEF rest
        <5> QED BY <2>1, <5>1
      <4>2. PICK i \in at : \A j \in at : j <= i
          BY <4>1, LastIndex
      <4> QED BY <4>2
    <3>2. A!After(rest, t1)[k] = rest[i].val
        BY <1>1, <1>2, <3>1, AfterLast
    <3>3. /\ i + 1 \in 1..Len(rows) /\ rows[i + 1].key = k /\ rows[i + 1] = rest[i]
          /\ \A j \in 1..Len(rows) : rows[j].key = k => j <= i + 1
      <4>1. i + 1 \in 1..Len(rows) /\ rows[i + 1].key = k /\ rows[i + 1] = rest[i]
          BY <1>1, <3>1
      <4>2. ASSUME NEW j \in 1..Len(rows), rows[j].key = k, j # 1
            PROVE  j <= i + 1
        <5>1. j - 1 \in 1..Len(rest) /\ rest[j - 1] = rows[j]
            BY <1>1, <4>2
        <5>2. j - 1 <= i
            BY <3>1, <4>2, <5>1
        <5> QED BY <5>2
      <4> QED BY <4>1, <4>2
    <3>4. A!After(rows, t)[k] = rows[i + 1].val
        BY <3>3, AfterLast
    <3> QED BY <3>2, <3>3, <3>4
  <2>2. CASE \A j \in 1..Len(rest) : rest[j].key # k
    <3>1. A!After(rest, t1)[k] = t1[k]
        BY <1>1, <1>2, <2>2, AfterNone
    <3>2. \A j \in 1..Len(rows) : rows[j].key = k => j = 1
      <4> SUFFICES ASSUME NEW j \in 1..Len(rows), rows[j].key = k, j # 1
                   PROVE  FALSE
          OBVIOUS
      <4>1. j - 1 \in 1..Len(rest) /\ rest[j - 1] = rows[j]
          BY <1>1
      <4> QED BY <2>2, <4>1
    <3>3. CASE row.key = k
      <4>1. 1 \in 1..Len(rows) /\ rows[1].key = k
          BY <1>1, <3>3
      <4>2. A!After(rows, t)[k] = rows[1].val
          BY <3>2, <4>1, AfterLast
      <4> QED BY <1>1, <1>2, <3>1, <3>3, <4>2
    <3>4. CASE row.key # k
      <4>1. \A j \in 1..Len(rows) : rows[j].key # k
          BY <1>1, <3>2, <3>4
      <4>2. A!After(rows, t)[k] = t[k]
          BY <4>1, AfterNone
      <4> QED BY <1>2, <3>1, <3>4, <4>2
    <3> QED BY <3>3, <3>4
  <2> QED BY <2>1, <2>2
<1>4. /\ A!After(rest, t1) = [k \in Keys |-> A!After(rest, t1)[k]]
      /\ A!After(rows, t) = [k \in Keys |-> A!After(rows, t)[k]]
    BY AfterIsFunction
<1>5. A!After(rest, t1) = A!After(rows, t)
  <2> HIDE DEF row, rest, t1
  <2> QED BY <1>3, <1>4
<1> QED BY <1>1, <1>2, <1>5

-------------------------------------------------------------------------------
\* The inductive invariant

\* The pool knows who is in a transaction or has a cursor open.
OwnerIsBusy == \A c \in Callers : owner = c <=> pc[c] \in {"exec", "scan"}

\* Transactions are for puts, cursors for gets.
KindFits ==
    \A c \in Callers :
        /\ pc[c] = "exec" => op[c].kind = "put"
        /\ pc[c] = "scan" => op[c].kind \in {"get", "all"}

\* Outside a transaction there are no rows but the committed ones.
WorkIsTable == (\A c \in Callers : pc[c] # "exec") => work = table

\* What a cursor has passed is found as it is in the table, the rest is not
\* found; without a cursor nothing is.
FoundFits ==
    \A c \in Callers :
        IF pc[c] = "scan"
        THEN /\ keysLeft[c] \subseteq op[c].keys
             /\ found[c] = [k \in Keys |-> IF k \in op[c].keys \ keysLeft[c]
                                           THEN table[k] ELSE Missing]
        ELSE found[c] = A!Nil

\* The upserts made and to be made are those of the operation.
RowsFit ==
    \A c \in Callers :
        pc[c] = "exec" => A!After(rowsLeft[c], work) = A!After(op[c].rows, table)

IInv == TypeOK /\ OwnerIsBusy /\ KindFits /\ WorkIsTable /\ FoundFits /\ RowsFit

LEMMA OpTypes ==
    ASSUME NEW o \in A!Ops
    PROVE  /\ o.kind \in {"put", "get", "all", "purge"}
           /\ o.kind = "put" => o.rows \in Seq(A!Row)
           /\ o.kind \in {"get", "all"} => o.keys \in SUBSET Keys
           /\ o.kind = "all" => o.keys = Keys
BY PoolAssumption DEF A!Ops, A!CacheConstants

LEMMA NilType == A!Nil \in A!Table
BY DEF A!Nil, A!Table

\* Who has the connection, or finds it free, is alone.
LEMMA Alone ==
    ASSUME IInv, NEW c \in Callers, owner \in {c, None},
           NEW d \in Callers, d # c
    PROVE  pc[d] \notin {"exec", "scan"}
BY PoolAssumption DEF IInv, OwnerIsBusy

LEMMA InitInv == Init => IInv
<1> SUFFICES ASSUME Init PROVE IInv
    OBVIOUS
<1>1. TypeOK
  <2>1. [kind |-> "purge"] \in A!Ops
      BY DEF A!Ops
  <2>2. <<>> \in Seq(A!Row)
      OBVIOUS
  <2> QED BY <2>1, <2>2, NilType DEF Init, TypeOK, PCs
<1> QED BY <1>1, PoolAssumption
        DEF Init, IInv, OwnerIsBusy, KindFits, WorkIsTable, FoundFits, RowsFit

\* An operation that gives the connection back, whatever it did, leaves all
\* in order if the table is a table and nothing is left uncommitted.
LEMMA ReleaseInv ==
    ASSUME IInv, NEW c \in Callers, owner \in {c, None}, Release(c), op' = op,
           table' \in A!Table, work' = table',
           result' \in [Callers -> A!Table]
    PROVE  IInv'
<1>1. TypeOK'
  <2>1. <<>> \in Seq(A!Row)
      OBVIOUS
  <2> QED BY <2>1, NilType, PoolAssumption DEF IInv, TypeOK, Release, Done, PCs
<1>2. \A d \in Callers : pc'[d] \notin {"exec", "scan"} /\ found'[d] = A!Nil
  <2>1. pc'[c] = "idle" /\ found'[c] = A!Nil
      BY DEF IInv, TypeOK, Release, Done
  <2>2. ASSUME NEW d \in Callers, d # c
        PROVE  pc'[d] \notin {"exec", "scan"} /\ found'[d] = A!Nil
      BY <2>2, Alone DEF IInv, TypeOK, FoundFits, Release, Done
  <2> QED BY <2>1, <2>2
<1>3. OwnerIsBusy'
    BY <1>2, PoolAssumption DEF OwnerIsBusy, Release
<1>4. KindFits' /\ WorkIsTable' /\ RowsFit'
    BY <1>2 DEF KindFits, WorkIsTable, RowsFit
<1>5. FoundFits'
    BY <1>2 DEF FoundFits, A!Nil
<1> QED BY <1>1, <1>3, <1>4, <1>5 DEF IInv

LEMMA CallInv ==
    ASSUME IInv, NEW c \in Callers, NEW o \in A!Ops, Call(c, o)
    PROVE  IInv'
<1>1. TypeOK'
    BY DEF IInv, TypeOK, Call, PCs
<1>2. \A d \in Callers : d # c => pc'[d] = pc[d] /\ op'[d] = op[d]
    BY DEF IInv, TypeOK, Call
<1>3. pc[c] = "idle" /\ pc'[c] = "begin"
    BY DEF IInv, TypeOK, Call
<1>4. OwnerIsBusy' /\ KindFits'
    BY <1>2, <1>3 DEF IInv, OwnerIsBusy, KindFits, Call
<1>5. WorkIsTable' /\ RowsFit'
    BY <1>2, <1>3 DEF IInv, WorkIsTable, RowsFit, Call
<1>6. FoundFits'
    BY <1>2, <1>3 DEF IInv, FoundFits, Call, A!Nil
<1> QED BY <1>1, <1>4, <1>5, <1>6 DEF IInv

LEMMA BeginInv ==
    ASSUME IInv, NEW c \in Callers, Begin(c)
    PROVE  IInv'
<1>1. op[c].rows \in Seq(A!Row) /\ op[c].kind = "put"
    BY OpTypes DEF IInv, TypeOK, Begin
<1>2. TypeOK'
    BY <1>1 DEF IInv, TypeOK, Begin, PCs
<1>3. /\ pc'[c] = "exec" /\ rowsLeft'[c] = op[c].rows /\ pc[c] = "begin"
      /\ \A d \in Callers : d # c => pc'[d] = pc[d] /\ pc[d] \notin {"exec", "scan"}
    BY Alone DEF IInv, TypeOK, Begin, ConnFree
<1>4. OwnerIsBusy'
    BY <1>3 DEF OwnerIsBusy, Begin
<1>5. KindFits' /\ WorkIsTable' /\ RowsFit'
    BY <1>1, <1>3 DEF KindFits, WorkIsTable, RowsFit, Begin
<1>6. FoundFits'
    BY <1>3 DEF IInv, FoundFits, Begin, A!Nil
<1> QED BY <1>2, <1>4, <1>5, <1>6 DEF IInv

LEMMA ExecOkInv ==
    ASSUME IInv, NEW c \in Callers, ExecOk(c)
    PROVE  IInv'
<1> DEFINE row == Head(rowsLeft[c])
<1>1. /\ rowsLeft[c] \in Seq(A!Row) /\ rowsLeft[c] # <<>>
      /\ work \in A!Table /\ table \in A!Table
    BY DEF IInv, TypeOK, ExecOk
<1>2. /\ Tail(rowsLeft[c]) \in Seq(A!Row)
      /\ [work EXCEPT ![row.key] = row.val] \in A!Table
      /\ A!After(Tail(rowsLeft[c]), [work EXCEPT ![row.key] = row.val])
           = A!After(rowsLeft[c], work)
    BY <1>1, AfterHead
<1>3. /\ work' = [work EXCEPT ![row.key] = row.val]
      /\ rowsLeft' = [rowsLeft EXCEPT ![c] = Tail(rowsLeft[c])]
      /\ UNCHANGED <<table, owner, pc, op, keysLeft, found, result>>
    BY DEF ExecOk, Upsert
<1> HIDE DEF row
<1>4. TypeOK'
    BY <1>2, <1>3 DEF IInv, TypeOK
<1>5. OwnerIsBusy' /\ KindFits'
    BY <1>3 DEF IInv, OwnerIsBusy, KindFits
<1>6. pc[c] = "exec" /\ \A d \in Callers : d # c => pc[d] \notin {"exec", "scan"}
    BY Alone DEF IInv, OwnerIsBusy, ExecOk
<1>7. WorkIsTable' /\ FoundFits'
    BY <1>3, <1>6 DEF IInv, WorkIsTable, FoundFits, A!Nil
<1>8. RowsFit'
  <2>1. rowsLeft'[c] = Tail(rowsLeft[c])
      BY <1>3 DEF IInv, TypeOK
  <2>2. A!After(rowsLeft'[c], work') = A!After(op'[c].rows, table')
      BY <1>2, <1>3, <1>6, <2>1 DEF IInv, RowsFit
  <2> QED BY <1>3, <1>6, <2>2 DEF RowsFit
<1> QED BY <1>4, <1>5, <1>7, <1>8 DEF IInv

LEMMA QueryInv ==
    ASSUME IInv, NEW c \in Callers, Query(c)
    PROVE  IInv'
<1>1. op[c].keys \in SUBSET Keys /\ op[c].kind \in {"get", "all"}
    BY OpTypes DEF IInv, TypeOK, Query
<1>2. TypeOK'
    BY <1>1 DEF IInv, TypeOK, Query, PCs
<1>3. /\ pc'[c] = "scan" /\ keysLeft'[c] = op[c].keys /\ pc[c] = "begin"
      /\ \A d \in Callers : d # c => pc'[d] = pc[d] /\ pc[d] \notin {"exec", "scan"}
    BY Alone DEF IInv, TypeOK, Query, ConnFree
<1>4. OwnerIsBusy'
    BY <1>3 DEF OwnerIsBusy, Query
<1>5. KindFits' /\ WorkIsTable' /\ RowsFit'
    BY <1>1, <1>3 DEF IInv, KindFits, WorkIsTable, RowsFit, Query
<1>6. FoundFits'
    BY <1>3 DEF IInv, FoundFits, Query, A!Nil
<1> QED BY <1>2, <1>4, <1>5, <1>6 DEF IInv

LEMMA ScanRowInv ==
    ASSUME IInv, NEW c \in Callers, ScanRow(c)
    PROVE  IInv'
<1>1. PICK k \in keysLeft[c] :
        /\ found' = [found EXCEPT ![c][k] = table[k]]
        /\ keysLeft' = [keysLeft EXCEPT ![c] = @ \ {k}]
    BY DEF ScanRow
<1>2. /\ pc[c] = "scan"
      /\ UNCHANGED <<table, work, owner, pc, op, rowsLeft, result>>
    BY DEF ScanRow
<1>3. /\ keysLeft[c] \subseteq op[c].keys /\ k \in Keys /\ k \in op[c].keys
      /\ found[c] = [j \in Keys |-> IF j \in op[c].keys \ keysLeft[c]
                                    THEN table[j] ELSE Missing]
    BY <1>2 DEF IInv, TypeOK, FoundFits
<1>4. /\ keysLeft'[c] = keysLeft[c] \ {k}
      /\ found'[c] = [found[c] EXCEPT ![k] = table[k]]
      /\ \A d \in Callers : d # c => found'[d] = found[d] /\ keysLeft'[d] = keysLeft[d]
    BY <1>1 DEF IInv, TypeOK
<1>5. TypeOK'
  <2>1. found'[c] \in A!Table
      BY <1>3, <1>4 DEF IInv, TypeOK, A!Table
  <2>2. found' \in [Callers -> A!Table] /\ keysLeft' \in [Callers -> SUBSET Keys]
      BY <1>1, <1>4, <2>1 DEF IInv, TypeOK
  <2> QED BY <1>2, <2>2 DEF IInv, TypeOK
<1>6. OwnerIsBusy' /\ KindFits' /\ WorkIsTable' /\ RowsFit'
    BY <1>2 DEF IInv, OwnerIsBusy, KindFits, WorkIsTable, RowsFit
<1>7. FoundFits'
  <2>1. /\ keysLeft'[c] \subseteq op[c].keys
        /\ found'[c] = [j \in Keys |-> IF j \in op[c].keys \ keysLeft'[c]
                                       THEN table[j] ELSE Missing]
      BY <1>3, <1>4
  <2> QED BY <1>2, <1>4, <2>1 DEF IInv, FoundFits, A!Nil
<1> QED BY <1>5, <1>6, <1>7 DEF IInv

LEMMA RestartInv ==
    ASSUME IInv, Restart
    PROVE  IInv'
<1>1. TypeOK'
  <2>1. <<>> \in Seq(A!Row)
      OBVIOUS
  <2> QED BY <2>1, NilType DEF IInv, TypeOK, Restart, PCs
<1> QED BY <1>1, PoolAssumption
        DEF Restart, IInv, OwnerIsBusy, KindFits, WorkIsTable, FoundFits, RowsFit, A!Nil

-------------------------------------------------------------------------------
\* What each operation does when it ends, as AtomicCache sees it

\* The end of an operation is a return.
LEMMA ReleaseReturns ==
    ASSUME IInv, NEW c \in Callers, pc[c] # "idle", Release(c), op' = op
    PROVE  A!Return(c)
<1> DEFINE busy == [d \in Callers |-> pc[d] # "idle"]
<1>1. /\ pc'[c] = "idle"
      /\ \A d \in Callers : d # c => pc'[d] = pc[d]
    BY DEF IInv, TypeOK, Release, Done
<1>2. [d \in Callers |-> pc'[d] # "idle"] = [busy EXCEPT ![c] = FALSE]
    BY <1>1
<1>3. busy[c]
    OBVIOUS
<1> QED BY <1>2, <1>3 DEF A!Return

\* With the connection in the caller's hand or in the pool, nobody is in
\* another transaction.
LEMMA NobodyExecutes ==
    ASSUME IInv, NEW c \in Callers, owner \in {c, None}, pc[c] # "exec"
    PROVE  work = table
BY Alone DEF IInv, WorkIsTable

\* A step that puts a transaction to its end: all of its rows, or none.
LEMMA PutEnds ==
    ASSUME IInv, NEW c \in Callers, ExecErr(c) \/ Commit(c) \/ CommitErr(c)
    PROVE  A!Put(c) /\ IInv'
<1>1. /\ pc[c] = "exec" /\ Release(c) /\ op' = op /\ result' = result
      /\ (MakeVisible /\ rowsLeft[c] = <<>>) \/ Rollback
    BY DEF ExecErr, Commit, CommitErr
<1>2. owner = c /\ op[c].kind = "put"
    BY <1>1 DEF IInv, OwnerIsBusy, KindFits
<1>3. table' \in {A!After(op[c].rows, table), table}
  <2>1. CASE Rollback
      BY <2>1 DEF Rollback
  <2>2. CASE MakeVisible /\ rowsLeft[c] = <<>>
    <3>1. A!After(rowsLeft[c], work) = work
        BY <2>2, AfterEmpty DEF IInv, TypeOK
    <3>2. A!After(rowsLeft[c], work) = A!After(op[c].rows, table)
        BY <1>1 DEF IInv, RowsFit
    <3> QED BY <2>2, <3>1, <3>2 DEF MakeVisible
  <2> QED BY <1>1, <2>1, <2>2
<1>4. table' \in A!Table /\ work' = table'
    BY <1>1 DEF IInv, TypeOK, MakeVisible, Rollback
<1>5. IInv'
    BY <1>1, <1>2, <1>4, ReleaseInv DEF IInv, TypeOK
<1>6. A!Return(c)
    BY <1>1, ReleaseReturns
<1> QED BY <1>1, <1>2, <1>3, <1>5, <1>6 DEF A!Put

\* A result a read may end with: what the cursor has found, or nothing.
LEMMA ReadEnds ==
    ASSUME IInv, NEW c \in Callers, EndScan(c) \/ ScanErr(c)
    PROVE  (A!Get(c) \/ A!All(c)) /\ IInv'
<1> DEFINE past == op[c].keys \ keysLeft[c]
<1>1. /\ pc[c] = "scan" /\ Release(c) /\ op' = op /\ table' = table /\ work' = work
      /\ \/ result' = [result EXCEPT ![c] = found[c]]
              /\ ~(op[c].kind = "get" /\ \E k \in op[c].keys : found[c][k] = Missing)
         \/ result' = [result EXCEPT ![c] = A!Nil]
    BY DEF EndScan, ScanErr
<1>2. owner = c /\ op[c].kind \in {"get", "all"}
    BY <1>1 DEF IInv, OwnerIsBusy, KindFits
<1>3. /\ past \in SUBSET Keys /\ op[c].keys \in SUBSET Keys
      /\ op[c].kind = "all" => op[c].keys = Keys
      /\ found[c] = [k \in Keys |-> IF k \in past THEN table[k] ELSE Missing]
      /\ found[c] \in A!Table
    BY <1>1, <1>2, OpTypes DEF IInv, TypeOK, FoundFits
<1>4. IInv'
  <2>1. table' \in A!Table /\ work' = table'
      BY <1>1, <1>2, NobodyExecutes DEF IInv, TypeOK
  <2>2. result' \in [Callers -> A!Table]
      BY <1>1, <1>3, NilType DEF IInv, TypeOK
  <2> QED BY <1>1, <1>2, <2>1, <2>2, ReleaseInv
<1>5. A!Return(c)
    BY <1>1, ReleaseReturns
<1>6. ASSUME op[c].kind = "get" PROVE A!Get(c)
  <2>1. CASE result' = [result EXCEPT ![c] = A!Nil]
      BY <1>1, <1>5, <1>6, <2>1 DEF A!Get
  <2>2. CASE /\ result' = [result EXCEPT ![c] = found[c]]
             /\ \A k \in op[c].keys : found[c][k] # Missing
    <3>1. \A k \in op[c].keys : k \in past /\ table[k] # Missing
        BY <1>3, <2>2
    <3>2. found[c] = A!Lookup(op[c].keys, table)
        BY <1>3, <3>1 DEF A!Lookup
    <3> QED BY <1>1, <1>5, <1>6, <2>2, <3>2 DEF A!Get
  <2> QED BY <1>1, <1>6, <2>1, <2>2
<1>7. ASSUME op[c].kind = "all" PROVE A!All(c)
  <2>1. CASE result' = [result EXCEPT ![c] = A!Nil]
    <3>1. A!Nil = [k \in Keys |-> IF k \in {} THEN table[k] ELSE Missing]
        BY DEF A!Nil
    <3>2. \E part \in SUBSET Keys :
            result' = [result EXCEPT ![c] =
                         [k \in Keys |-> IF k \in part THEN table[k] ELSE Missing]]
      <4> WITNESS {} \in SUBSET Keys
      <4> QED BY <2>1, <3>1
    <3> QED BY <1>1, <1>5, <1>7, <3>2 DEF A!All
  <2>2. CASE result' = [result EXCEPT ![c] = found[c]]
      BY <1>1, <1>3, <1>5, <1>7, <2>2 DEF A!All
  <2> QED BY <1>1, <2>1, <2>2
<1> QED BY <1>2, <1>4, <1>6, <1>7

LEMMA DeleteStaleStep ==
    ASSUME IInv, NEW c \in Callers, DeleteStale(c)
    PROVE  A!Purge(c) /\ IInv'
<1>1. /\ pc[c] = "begin" /\ op[c].kind = "purge" /\ owner = None
      /\ Release(c) /\ op' = op /\ result' = result /\ work' = table'
    BY DEF DeleteStale, ConnFree
<1>2. PICK stale \in SUBSET Keys :
        table' = [k \in Keys |-> IF k \in stale THEN Missing ELSE table[k]]
    BY DEF DeleteStale
<1>3. table' \in A!Table
    BY <1>2 DEF IInv, TypeOK, A!Table
<1>4. IInv'
    BY <1>1, <1>3, ReleaseInv DEF IInv, TypeOK
<1>5. A!Return(c)
    BY <1>1, ReleaseReturns
<1> QED BY <1>1, <1>2, <1>4, <1>5 DEF A!Purge

LEMMA BeginErrStep ==
    ASSUME IInv, NEW c \in Callers, BeginErr(c)
    PROVE  (A!Put(c) \/ A!Get(c) \/ A!All(c) \/ A!Purge(c)) /\ IInv'
<1>1. /\ pc[c] = "begin" /\ owner = None
      /\ Release(c) /\ op' = op /\ table' = table /\ work' = work
      /\ result' = IF op[c].kind \in {"get", "all"}
                   THEN [result EXCEPT ![c] = A!Nil] ELSE result
    BY DEF BeginErr, ConnFree
<1>2. op[c].kind \in {"put", "get", "all", "purge"}
    BY OpTypes DEF IInv, TypeOK
<1>3. IInv'
  <2>1. table' \in A!Table /\ work' = table'
      BY <1>1, NobodyExecutes DEF IInv, TypeOK
  <2>2. result' \in [Callers -> A!Table]
      BY <1>1, NilType DEF IInv, TypeOK
  <2> QED BY <1>1, <2>1, <2>2, ReleaseInv
<1>4. A!Return(c)
    BY <1>1, ReleaseReturns
<1>5. ASSUME op[c].kind = "put" PROVE A!Put(c)
    BY <1>1, <1>4, <1>5 DEF A!Put
<1>6. ASSUME op[c].kind = "get" PROVE A!Get(c)
    BY <1>1, <1>4, <1>6 DEF A!Get
<1>7. ASSUME op[c].kind = "all" PROVE A!All(c)
  <2>1. A!Nil = [k \in Keys |-> IF k \in {} THEN table[k] ELSE Missing]
      BY DEF A!Nil
  <2>2. \E part \in SUBSET Keys :
          result' = [result EXCEPT ![c] =
                       [k \in Keys |-> IF k \in part THEN table[k] ELSE Missing]]
    <3> WITNESS {} \in SUBSET Keys
    <3> QED BY <1>1, <1>7, <2>1
  <2> QED BY <1>1, <1>4, <1>7, <2>2 DEF A!All
<1>8. ASSUME op[c].kind = "purge" PROVE A!Purge(c)
  <2>1. table = [k \in Keys |-> IF k \in {} THEN Missing ELSE table[k]]
      BY DEF IInv, TypeOK, A!Table
  <2>2. \E stale \in SUBSET Keys :
          table' = [k \in Keys |-> IF k \in stale THEN Missing ELSE table[k]]
    <3> WITNESS {} \in SUBSET Keys
    <3> QED BY <1>1, <2>1
  <2>3. UNCHANGED result
      BY <1>1, <1>8
  <2> QED BY <1>4, <1>8, <2>2, <2>3 DEF A!Purge
<1> QED BY <1>2, <1>3, <1>5, <1>6, <1>7, <1>8

\* A step that neither begins nor ends an operation is not seen.
LEMMA Hidden ==
    ASSUME IInv, NEW c \in Callers, pc[c] # "idle", NEW to, to # "idle",
           pc' = [pc EXCEPT ![c] = to], UNCHANGED <<table, op, result>>
    PROVE  UNCHANGED A!vars
<1>1. \A d \in Callers : (pc'[d] # "idle") = (pc[d] # "idle")
    BY DEF IInv, TypeOK
<1>2. [d \in Callers |-> pc'[d] # "idle"] = [d \in Callers |-> pc[d] # "idle"]
    BY <1>1
<1> QED BY <1>2 DEF A!vars

LEMMA CallStep ==
    ASSUME IInv, NEW c \in Callers, NEW o \in A!Ops, Call(c, o)
    PROVE  A!Call(c, o)
<1> DEFINE busy == [d \in Callers |-> pc[d] # "idle"]
<1>1. /\ pc[c] = "idle" /\ pc'[c] = "begin"
      /\ \A d \in Callers : d # c => pc'[d] = pc[d]
    BY DEF IInv, TypeOK, Call
<1>2. [d \in Callers |-> pc'[d] # "idle"] = [busy EXCEPT ![c] = TRUE]
    BY <1>1
<1>3. ~busy[c]
    BY <1>1
<1> QED BY <1>2, <1>3 DEF Call, A!Call

-------------------------------------------------------------------------------
\* The theorems

\* One step: the invariant is kept, and AtomicCache takes a step or none.
LEMMA Step ==
    ASSUME IInv, [Next]_vars
    PROVE  IInv' /\ [A!Next]_(A!vars)
<1>1. ASSUME NEW c \in Callers, Begin(c)
      PROVE  IInv' /\ UNCHANGED A!vars
  <2>1. pc[c] # "idle" /\ pc' = [pc EXCEPT ![c] = "exec"] /\ "exec" # "idle"
        /\ UNCHANGED <<table, op, result>>
      BY <1>1 DEF Begin
  <2> QED BY <1>1, <2>1, BeginInv, Hidden
<1>2. ASSUME NEW c \in Callers, Query(c)
      PROVE  IInv' /\ UNCHANGED A!vars
  <2>1. pc[c] # "idle" /\ pc' = [pc EXCEPT ![c] = "scan"] /\ "scan" # "idle"
        /\ UNCHANGED <<table, op, result>>
      BY <1>2 DEF Query
  <2> QED BY <1>2, <2>1, QueryInv, Hidden
<1>3. ASSUME NEW c \in Callers, ExecOk(c) \/ ScanRow(c)
      PROVE  IInv' /\ UNCHANGED A!vars
  <2>1. UNCHANGED <<table, pc, op, result>>
      BY <1>3 DEF ExecOk, ScanRow
  <2> QED BY <1>3, <2>1, ExecOkInv, ScanRowInv DEF A!vars
<1>4. ASSUME NEW c \in Callers, NEW o \in A!Ops, Call(c, o)
      PROVE  IInv' /\ A!Next
    BY <1>4, CallInv, CallStep DEF A!Next
<1>5. ASSUME NEW c \in Callers, DeleteStale(c) \/ BeginErr(c)
      PROVE  IInv' /\ A!Next
    BY <1>5, DeleteStaleStep, BeginErrStep DEF A!Next
<1>6. ASSUME NEW c \in Callers, \/ ExecErr(c) \/ Commit(c) \/ CommitErr(c)
                                \/ EndScan(c) \/ ScanErr(c)
      PROVE  IInv' /\ A!Next
    BY <1>6, PutEnds, ReadEnds DEF A!Next
<1>7. CASE Restart
  <2>1. [c \in Callers |-> pc'[c] # "idle"] = [c \in Callers |-> FALSE]
      BY <1>7 DEF Restart
  <2>2. A!Restart
      BY <1>7, <2>1 DEF Restart, A!Restart
  <2> QED BY <1>7, <2>2, RestartInv DEF A!Next
<1>8. CASE UNCHANGED vars
    BY <1>8 DEF vars, A!vars, IInv, TypeOK, OwnerIsBusy, KindFits, WorkIsTable,
                FoundFits, RowsFit
<1> QED BY <1>1, <1>2, <1>3, <1>4, <1>5, <1>6, <1>7, <1>8
        DEF Next, OnConn, GetConn

\* The invariant holds of every run: statements of two goroutines on the one
\* connection never meet in a transaction or a cursor (cache.go:47).
THEOREM Inductive == Spec => []IInv
<1>1. IInv /\ [Next]_vars => IInv'
    BY Step
<1> QED BY InitInv, <1>1, PTL DEF Spec

\* The state has the form the code gives it.
THEOREM TypeCorrect == Spec => []TypeOK
<1>1. IInv => TypeOK
    BY DEF IInv
<1> QED BY Inductive, <1>1, PTL

\* Whatever the callers do at the same time, and wherever a statement fails or
\* the process dies: what a Get has scanned is still current, and the upserts
\* made and to be made amount to the operation (cache.go:229, 254).
THEOREM InProgress == Spec => []ProgressFitsTable
<1>1. IInv => ProgressFitsTable
  <2> SUFFICES ASSUME IInv, NEW c \in Callers
               PROVE  /\ pc[c] = "scan" =>
                           \A k \in op[c].keys \ keysLeft[c] : found[c][k] = table[k]
                      /\ pc[c] = "exec" =>
                           A!After(rowsLeft[c], work) = A!After(op[c].rows, table)
      BY DEF ProgressFitsTable
  <2>1. pc[c] = "scan" => op[c].keys \in SUBSET Keys
      BY OpTypes DEF IInv, TypeOK, KindFits
  <2> QED BY <2>1 DEF IInv, FoundFits, RowsFit
<1> QED BY Inductive, <1>1, PTL

\* The register cache, statement by statement, is the atomic one: every Set,
\* BatchSet, Get, All and DeleteStale takes effect at one moment, whole or not
\* at all (cache.go:214).
THEOREM Refinement == Spec => Atomic
<1>1. Init => A!Init
  <2> SUFFICES ASSUME Init PROVE A!Init
      OBVIOUS
  <2>1. [c \in Callers |-> pc[c] # "idle"] = [c \in Callers |-> FALSE]
      BY DEF Init
  <2> QED BY <2>1 DEF Init, A!Init
<1>2. IInv /\ [Next]_vars => [A!Next]_(A!vars)
    BY Step
<1> QED BY Inductive, <1>1, <1>2, PTL DEF Spec, Atomic, A!Spec

============================================================================
