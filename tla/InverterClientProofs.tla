------------------------- MODULE InverterClientProofs -------------------------
(***************************************************************************)
(* What TLAPS proves of InverterClient for every number of callers, units, *)
(* retries and calls, and every length of the pause.                       *)
(*                                                                         *)
(* The inductive invariant has one part for each thing that makes the      *)
(* shared connection safe: who has the mutex, whose unit ID the handler    *)
(* holds, whose request has the last transaction id, what lastRead says of *)
(* the last request, and what the reader may still do once cancelled.      *)
(***************************************************************************)
EXTENDS InverterClient, TLAPS

\* The callers between Lock and the end of their request hold the mutex.
MutexHeld == \A c \in Callers : pc[c] \in {"pause", "await"} <=> mu = c

\* The handler is set to the unit of the caller that holds the mutex.
UnitOfHolder == \A c \in Callers : mu = c => slaveId = unit[c]

\* A caller that will retry has an attempt left.
AttemptsLeft ==
    \A c \in Callers : pc[c] \in {"backoff", "reconnect"} => attempt[c] < MaxRetries

\* No frame on the connection has an id beyond the last one sent.
IdsSent == \A e \in Outstanding : e.tx <= txid

\* The queues are in the order of the requests, the answers ahead of what is
\* not answered yet; nothing is on a closed connection.
Increasing(s) == \A i, j \in DOMAIN s : i < j => s[i].tx < s[j].tx

InOrder ==
    /\ Increasing(toInv) /\ Increasing(fromInv)
    /\ \A e \in Range(fromInv), f \in Range(toInv) : e.tx < f.tx
    /\ conn = "closed" => toInv = <<>> /\ fromInv = <<>>

\* lastRead is the time of the last request, or was reset by Reconnect, and
\* then the connection stays closed until the next request.
LastReadKnown ==
    /\ now >= Pause
    /\ lastRead # 0 => lastRead = lastDone
    /\ lastRead = 0 => \/ conn = "closed"
                       \/ lastDone = 0
                       \/ \E c \in Callers : pc[c] = "await"

\* After a request sent in spite of the cancellation the reader sends no more.
CancelHeeded ==
    /\ lateSends \in {0, 1}
    /\ lateSends = 1 => ctxDone /\ pc[Reader] \in {"await", "reconnect", "giveup", "idle"}

IInv ==
    /\ TypeOK
    /\ MutexHeld
    /\ UnitOfHolder
    /\ AttemptsLeft
    /\ IdsSent
    /\ AcceptsOnlyOwnAnswer
    /\ InOrder
    /\ ReaderLeavesNoLateAnswer
    /\ LastReadKnown
    /\ CancelHeeded

-------------------------------------------------------------------------------
\* Lemmas

\* The elements of a queue after Append and Tail.
LEMMA RangeAppend ==
    ASSUME NEW S, NEW s \in Seq(S), NEW e \in S
    PROVE  Range(Append(s, e)) = Range(s) \cup {e}
<1> DEFINE t == Append(s, e)
<1>1. /\ DOMAIN t = 1..Len(s) + 1
      /\ \A i \in 1..Len(s) : t[i] = s[i]
      /\ t[Len(s) + 1] = e
      /\ DOMAIN s = 1..Len(s)
      /\ Len(s) \in Nat
    OBVIOUS
<1> HIDE DEF t
<1>2. Range(t) \subseteq Range(s) \cup {e}
    BY <1>1 DEF Range
<1>3. Range(s) \subseteq Range(t)
    BY <1>1 DEF Range
<1>4. e \in Range(t)
    BY <1>1 DEF Range
<1> QED BY <1>2, <1>3, <1>4 DEF t

LEMMA RangeTail ==
    ASSUME NEW S, NEW s \in Seq(S), s # <<>>
    PROVE  Range(Tail(s)) \subseteq Range(s) /\ Head(s) \in Range(s)
<1> DEFINE t == Tail(s)
<1>1. /\ DOMAIN t = 1..Len(s) - 1
      /\ \A i \in 1..Len(s) - 1 : t[i] = s[i + 1]
      /\ DOMAIN s = 1..Len(s)
      /\ Len(s) \in Nat \ {0}
      /\ Head(s) = s[1]
    OBVIOUS
<1> HIDE DEF t
<1>2. Range(t) \subseteq Range(s)
  <2> SUFFICES ASSUME NEW i \in 1..Len(s) - 1 PROVE s[i + 1] \in Range(s)
      BY <1>1 DEF Range
  <2>1. i + 1 \in DOMAIN s
      BY <1>1
  <2> QED BY <2>1 DEF Range
<1>3. s[1] \in Range(s)
    BY <1>1 DEF Range
<1> QED BY <1>1, <1>2, <1>3 DEF t

\* NextPC gives a state without the mutex; after a cancellation no backoff.
LEMMA NextPCOutside ==
    ASSUME NEW c \in Callers, NEW result
    PROVE  /\ NextPC(c, result) \in {"idle", "backoff", "reconnect", "giveup"}
           /\ ctxDone => NextPC(c, result) # "backoff"
           /\ NextPC(c, result) \in {"backoff", "reconnect"} => attempt[c] < MaxRetries
BY DEF NextPC, MayRetry, Sleep, Exhausted

\* A record of the three fields is a frame, and an answer to it one with a kind.
AnswerFrame == [tx : Nat, unit : Units, by : Callers, kind : Answers]

-------------------------------------------------------------------------------
\* Type correctness

LEMMA TypeInit == Init => TypeOK
<1> SUFFICES ASSUME Init PROVE TypeOK
    OBVIOUS
<1>1. toInv \in Seq(Frame) /\ fromInv \in Seq(AnswerFrame)
    BY DEF Init
<1>2. now \in Nat \ {0} /\ attempt \in [Callers -> 1..MaxRetries]
    BY ClientAssumption DEF Init
<1>3. pc \in [Callers -> PCs] /\ unit \in [Callers -> Units]
    BY DEF Init, PCs
<1> QED BY <1>1, <1>2, <1>3 DEF Init, TypeOK, AnswerFrame

\* How a request ends, whatever the reason.
LEMMA FinishStep ==
    ASSUME TypeOK, MutexHeld, UnitOfHolder, AttemptsLeft,
           NEW c \in Callers, NEW result, Finish(c, result),
           pc[c] \in {"pause", "await"}
    PROVE  /\ MutexHeld' /\ UnitOfHolder' /\ AttemptsLeft'
           /\ mu' \in Callers \cup {None}
           /\ slaveId' = slaveId /\ txid' = txid /\ unit' = unit /\ attempt' = attempt
           /\ ctxDone' = ctxDone /\ now' = now /\ calls' = calls
           /\ lateSends' = lateSends
           /\ lastRead' = now /\ lastDone' = now
           /\ pc' \in [Callers -> PCs]
           /\ \A d \in Callers \ {c} : pc'[d] = pc[d]
           /\ pc'[c] = NextPC(c, result)
<1>1. mu = c
    BY DEF MutexHeld
<1>2. NextPC(c, result) \in {"idle", "backoff", "reconnect", "giveup"}
    BY NextPCOutside
<1>3. /\ pc' = [pc EXCEPT ![c] = NextPC(c, result)]
      /\ mu' = None
      /\ UNCHANGED <<slaveId, txid, unit, attempt, ctxDone, now, calls, lateSends>>
      /\ lastRead' = now /\ lastDone' = now
    BY DEF Finish, Stamp, Unlock
<1>4. pc' \in [Callers -> PCs]
    BY <1>2, <1>3 DEF TypeOK, PCs
<1>5. (\A d \in Callers \ {c} : pc'[d] = pc[d]) /\ pc'[c] = NextPC(c, result)
    BY <1>3 DEF TypeOK
<1>6. \A d \in Callers : pc'[d] \notin {"pause", "await"}
    BY <1>1, <1>2, <1>5 DEF MutexHeld
<1>7. MutexHeld' /\ UnitOfHolder'
    BY <1>3, <1>6, ClientAssumption DEF MutexHeld, UnitOfHolder
<1>8. AttemptsLeft'
    BY <1>3, <1>5, NextPCOutside DEF AttemptsLeft
<1> QED BY <1>3, <1>4, <1>5, <1>7, <1>8

\* The request a caller in "pause" sends is to the unit it asked for.
LEMMA SendUnit ==
    ASSUME TypeOK, MutexHeld, UnitOfHolder, NEW c \in Callers, pc[c] = "pause"
    PROVE  mu = c /\ slaveId = unit[c] /\ slaveId \in Units
BY DEF TypeOK, MutexHeld, UnitOfHolder

LEMMA TypeNext ==
    TypeOK /\ MutexHeld /\ UnitOfHolder /\ AttemptsLeft /\ [Next]_vars => TypeOK'
<1> SUFFICES ASSUME TypeOK, MutexHeld, UnitOfHolder, AttemptsLeft, [Next]_vars PROVE TypeOK'
    OBVIOUS
<1> USE DEF lockVars, netVars, callVars
<1>1. ASSUME NEW c \in Callers, NEW u \in Units, Call(c, u) PROVE TypeOK'
    BY <1>1, ClientAssumption DEF Call, TypeOK, PCs
<1>2. ASSUME NEW c \in Callers, Lock(c) PROVE TypeOK'
    BY <1>2 DEF Lock, TypeOK, PCs, MutexFree
<1>3. ASSUME NEW c \in Callers, Send(c) PROVE TypeOK'
  <2>1. [tx |-> txid + 1, unit |-> slaveId, by |-> c] \in Frame
      BY <1>3, SendUnit DEF Send, TypeOK, Frame, NextId
  <2>2. toInv' \in Seq(Frame)
      BY <1>3, <2>1 DEF Send, TypeOK, NextId
  <2>3. pc' \in [Callers -> PCs]
      BY <1>3 DEF Send, TypeOK, PCs, NextId
  <2> QED BY <1>3, <2>2, <2>3 DEF Send, TypeOK, NextId
<1>4. ASSUME NEW c \in Callers, DialFails(c) PROVE TypeOK'
  <2>1. PICK result : Finish(c, result)
      BY <1>4 DEF DialFails
  <2> QED BY <1>4, <2>1, FinishStep DEF DialFails, TypeOK
<1>5. ASSUME NEW c \in Callers, Receive(c) PROVE TypeOK'
  <2>1. PICK result : Finish(c, result)
      BY <1>5 DEF Receive
  <2>3. /\ pc[c] = "await"
        /\ fromInv # <<>> /\ fromInv' = Tail(fromInv)
        /\ toInv' = toInv /\ conn' = conn
      BY <1>5 DEF Receive
  <2>4. fromInv \in Seq(AnswerFrame)
      BY DEF TypeOK, AnswerFrame
  <2>2. fromInv' \in Seq(AnswerFrame)
      BY <2>3, <2>4
  <2> QED BY <2>1, <2>2, <2>3, FinishStep DEF TypeOK, AnswerFrame
<1>6. ASSUME NEW c \in Callers, Timeout(c) PROVE TypeOK'
  <2>1. pc[c] = "await" /\ Finish(c, "timeout") /\ UNCHANGED <<conn, toInv, fromInv>>
      BY <1>6 DEF Timeout
  <2> QED BY <2>1, FinishStep DEF TypeOK
<1>7. ASSUME NEW c \in Callers, ConnError(c) PROVE TypeOK'
  <2>1. pc[c] = "await" /\ Finish(c, "connerr") /\ UNCHANGED <<conn, toInv, fromInv>>
      BY <1>7 DEF ConnError
  <2> QED BY <2>1, FinishStep DEF TypeOK
<1>8. ASSUME NEW c \in Callers, Reconnect(c) PROVE TypeOK'
    BY <1>8 DEF Reconnect, TypeOK, PCs, MutexFree, Sleep
<1>9. ASSUME NEW c \in Callers, Retry(c) PROVE TypeOK'
  <2>1. attempt[c] + 1 \in 1..MaxRetries
      BY <1>9, ClientAssumption DEF Retry, TypeOK, AttemptsLeft
  <2> QED BY <1>9, <2>1 DEF Retry, TypeOK, PCs
<1>10. ASSUME NEW c \in Callers, Abandon(c) PROVE TypeOK'
    BY <1>10 DEF Abandon, TypeOK, PCs
<1>11. CASE Cancel
    BY <1>11 DEF Cancel, TypeOK
<1>12. CASE InverterAnswers
  <2>1. PICK kind \in Answers :
          fromInv' = Append(fromInv, [tx |-> Head(toInv).tx, unit |-> Head(toInv).unit,
                                      by |-> Head(toInv).by, kind |-> kind])
      BY <1>12 DEF InverterAnswers
  <2>2. Head(toInv) \in Frame /\ toInv' \in Seq(Frame)
      BY <1>12 DEF InverterAnswers, TypeOK
  <2> DEFINE e == [tx |-> Head(toInv).tx, unit |-> Head(toInv).unit,
                   by |-> Head(toInv).by, kind |-> kind]
  <2>4. e \in AnswerFrame
      BY <2>2 DEF Frame, AnswerFrame
  <2>5. fromInv \in Seq(AnswerFrame)
      BY DEF TypeOK, AnswerFrame
  <2> HIDE DEF e
  <2>6. Append(fromInv, e) \in Seq(AnswerFrame)
      BY <2>4, <2>5
  <2>3. fromInv' \in Seq(AnswerFrame)
      BY <2>1, <2>6 DEF e
  <2> QED BY <1>12, <2>2, <2>3 DEF InverterAnswers, TypeOK, AnswerFrame
<1>13. CASE InverterDrops
  <2>1. toInv' \in Seq(Frame)
      BY <1>13 DEF InverterDrops, TypeOK
  <2> QED BY <1>13, <2>1 DEF InverterDrops, TypeOK
<1>14. CASE ConnBreaks
  <2>1. fromInv \in Seq(AnswerFrame)
      BY DEF TypeOK, AnswerFrame
  <2>4. fromInv' = fromInv \/ fromInv' = <<>>
      BY <1>14 DEF ConnBreaks
  <2>2. fromInv' \in Seq(AnswerFrame)
    <3> HIDE DEF AnswerFrame
    <3>1. <<>> \in Seq(AnswerFrame)
        OBVIOUS
    <3> QED BY <2>1, <2>4, <3>1
  <2>3. toInv' \in Seq(Frame)
      BY <1>14 DEF ConnBreaks
  <2> QED BY <1>14, <2>2, <2>3 DEF ConnBreaks, TypeOK, AnswerFrame
<1>15. CASE Tick
    BY <1>15 DEF Tick, TypeOK
<1>16. CASE UNCHANGED vars
    BY <1>16 DEF vars, TypeOK
<1> QED BY <1>1, <1>2, <1>3, <1>4, <1>5, <1>6, <1>7, <1>8, <1>9, <1>10, <1>11,
           <1>12, <1>13, <1>14, <1>15, <1>16 DEF Next, Step

-------------------------------------------------------------------------------
\* The mutex and the shared handler

LEMMA LockInit == Init => MutexHeld /\ UnitOfHolder /\ AttemptsLeft
BY ClientAssumption DEF Init, MutexHeld, UnitOfHolder, AttemptsLeft

LEMMA LockNext ==
    TypeOK /\ MutexHeld /\ UnitOfHolder /\ AttemptsLeft /\ [Next]_vars
        => MutexHeld' /\ UnitOfHolder' /\ AttemptsLeft'
<1> SUFFICES ASSUME TypeOK, MutexHeld, UnitOfHolder, AttemptsLeft, [Next]_vars
             PROVE  MutexHeld' /\ UnitOfHolder' /\ AttemptsLeft'
    OBVIOUS
<1> USE DEF lockVars, netVars, callVars
<1>1. ASSUME NEW c \in Callers, NEW u \in Units, Call(c, u)
      PROVE  MutexHeld' /\ UnitOfHolder' /\ AttemptsLeft'
    BY <1>1 DEF Call, TypeOK, MutexHeld, UnitOfHolder, AttemptsLeft
<1>2. ASSUME NEW c \in Callers, Lock(c)
      PROVE  MutexHeld' /\ UnitOfHolder' /\ AttemptsLeft'
    BY <1>2, ClientAssumption DEF Lock, TypeOK, MutexHeld, UnitOfHolder,
                                  AttemptsLeft, MutexFree
<1>3. ASSUME NEW c \in Callers, Send(c)
      PROVE  MutexHeld' /\ UnitOfHolder' /\ AttemptsLeft'
    BY <1>3 DEF Send, TypeOK, MutexHeld, UnitOfHolder, AttemptsLeft, NextId
<1>4. ASSUME NEW c \in Callers, DialFails(c) \/ Receive(c) \/ Timeout(c) \/ ConnError(c)
      PROVE  MutexHeld' /\ UnitOfHolder' /\ AttemptsLeft'
  <2>1. pc[c] \in {"pause", "await"} /\ \E result : Finish(c, result)
      BY <1>4 DEF DialFails, Receive, Timeout, ConnError
  <2> QED BY <2>1, FinishStep
<1>5. ASSUME NEW c \in Callers, Reconnect(c)
      PROVE  MutexHeld' /\ UnitOfHolder' /\ AttemptsLeft'
    BY <1>5 DEF Reconnect, TypeOK, MutexHeld, UnitOfHolder, AttemptsLeft,
                MutexFree, Sleep
<1>6. ASSUME NEW c \in Callers, Retry(c) \/ Abandon(c)
      PROVE  MutexHeld' /\ UnitOfHolder' /\ AttemptsLeft'
    BY <1>6 DEF Retry, Abandon, TypeOK, MutexHeld, UnitOfHolder, AttemptsLeft
<1>7. CASE Cancel \/ InverterAnswers \/ InverterDrops \/ ConnBreaks \/ Tick
           \/ UNCHANGED vars
    BY <1>7 DEF Cancel, InverterAnswers, InverterDrops, ConnBreaks, Tick, vars,
                MutexHeld, UnitOfHolder, AttemptsLeft
<1> QED BY <1>1, <1>2, <1>3, <1>4, <1>5, <1>6, <1>7 DEF Next, Step

-------------------------------------------------------------------------------
\* The frames on the connection

\* Two frames of the same request.
SameRequest(e, f) == e.tx = f.tx /\ e.unit = f.unit /\ e.by = f.by

\* A step other than Send puts no frame of a new request on the connection.
LEMMA FramesNext ==
    ASSUME TypeOK, [Next]_vars, \A c \in Callers : ~Send(c)
    PROVE  \A e \in Outstanding' : \E f \in Outstanding : SameRequest(e, f)
<1> USE DEF lockVars, netVars, callVars
<1> DEFINE Old(s) == \A e \in Range(s) : \E f \in Outstanding : SameRequest(e, f)
<1>0. toInv \in Seq(Frame) /\ fromInv \in Seq(AnswerFrame)
    BY DEF TypeOK, AnswerFrame
<1>1. Old(toInv) /\ Old(fromInv)
    BY DEF Outstanding, SameRequest
<1>2. Old(<<>>)
    BY DEF Range
<1>3. toInv # <<>> => Old(Tail(toInv)) /\ Head(toInv) \in Outstanding
    BY <1>0, <1>1, RangeTail DEF Outstanding
<1>4. fromInv # <<>> => Old(Tail(fromInv))
    BY <1>0, <1>1, RangeTail
<1>5. \/ toInv' = toInv \/ toInv' = <<>>
      \/ toInv # <<>> /\ toInv' = Tail(toInv)
    BY DEF Next, Step, Call, Lock, DialFails, Receive, Timeout, ConnError,
           Reconnect, Retry, Abandon, Cancel, InverterAnswers, InverterDrops,
           ConnBreaks, Tick, vars, MutexFree, Sleep
<1>6. \/ fromInv' = fromInv \/ fromInv' = <<>>
      \/ fromInv # <<>> /\ fromInv' = Tail(fromInv)
      \/ InverterAnswers
    BY DEF Next, Step, Call, Lock, DialFails, Receive, Timeout, ConnError,
           Reconnect, Retry, Abandon, Cancel, InverterDrops, ConnBreaks, Tick,
           vars, MutexFree, Sleep
<1>7. CASE InverterAnswers
  <2>1. PICK kind \in Answers :
          fromInv' = Append(fromInv, [tx |-> Head(toInv).tx, unit |-> Head(toInv).unit,
                                      by |-> Head(toInv).by, kind |-> kind])
      BY <1>7 DEF InverterAnswers
  <2> DEFINE e == [tx |-> Head(toInv).tx, unit |-> Head(toInv).unit,
                   by |-> Head(toInv).by, kind |-> kind]
  <2>2. toInv # <<>>
      BY <1>7 DEF InverterAnswers
  <2>7. Head(toInv) \in Frame
      BY <1>0, <2>2
  <2>3. e \in AnswerFrame
      BY <2>7 DEF Frame, AnswerFrame
  <2>4. SameRequest(e, Head(toInv))
      BY DEF SameRequest
  <2> HIDE DEF e
  <2>5. Range(fromInv') = Range(fromInv) \cup {e}
      BY <1>0, <2>1, <2>3, RangeAppend DEF e
  <2>6. Old(fromInv')
      BY <1>1, <1>3, <2>2, <2>4, <2>5
  <2> QED BY <1>1, <1>2, <1>3, <1>5, <2>6 DEF Outstanding
<1>8. CASE ~InverterAnswers
  <2>1. Old(toInv')
      BY <1>1, <1>2, <1>3, <1>5
  <2>2. Old(fromInv')
      BY <1>1, <1>2, <1>4, <1>6, <1>8
  <2> QED BY <2>1, <2>2 DEF Outstanding
<1> QED BY <1>7, <1>8

\* Send puts one frame on it, with a new id, the caller and its unit.
LEMMA FramesSend ==
    ASSUME TypeOK, MutexHeld, UnitOfHolder, NEW c \in Callers, Send(c)
    PROVE  \A e \in Outstanding' :
              e \in Outstanding \/ (e.tx = txid' /\ e.by = c /\ e.unit = unit[c])
<1> DEFINE new == [tx |-> txid + 1, unit |-> slaveId, by |-> c]
<1>1. /\ toInv' = toInv \/ toInv' = Append(toInv, new)
      /\ fromInv' = fromInv
      /\ txid' = txid + 1
    BY DEF Send, NextId
<1>2. new.tx = txid' /\ new.by = c /\ new.unit = unit[c]
    BY <1>1, SendUnit DEF Send, NextId
<1>3. new \in Frame /\ toInv \in Seq(Frame)
    BY SendUnit DEF Send, TypeOK, Frame, NextId
<1> HIDE DEF new
<1>4. Range(toInv') \subseteq Range(toInv) \cup {new}
    BY <1>1, <1>3, RangeAppend
<1> QED BY <1>1, <1>2, <1>4 DEF Outstanding

LEMMA OwnAnswerNext ==
    TypeOK /\ MutexHeld /\ UnitOfHolder /\ AttemptsLeft /\ IdsSent
      /\ AcceptsOnlyOwnAnswer /\ [Next]_vars
        => IdsSent' /\ AcceptsOnlyOwnAnswer'
<1> SUFFICES ASSUME TypeOK, MutexHeld, UnitOfHolder, AttemptsLeft, IdsSent,
                    AcceptsOnlyOwnAnswer, [Next]_vars
             PROVE  IdsSent' /\ AcceptsOnlyOwnAnswer'
    OBVIOUS
<1>0. \A e \in Outstanding : e.tx \in Nat
  <2>1. toInv \in Seq(Frame) /\ fromInv \in Seq(AnswerFrame)
      BY DEF TypeOK, AnswerFrame
  <2>2. \A e \in Range(toInv) : e \in Frame
      BY <2>1 DEF Range
  <2>3. \A e \in Range(fromInv) : e \in AnswerFrame
      BY <2>1 DEF Range
  <2> QED BY <2>2, <2>3 DEF Outstanding, Frame, AnswerFrame
<1>1. ASSUME NEW c \in Callers, Send(c) PROVE IdsSent' /\ AcceptsOnlyOwnAnswer'
  <2>1. txid' = txid + 1 /\ txid \in Nat /\ unit' = unit
      BY <1>1 DEF Send, TypeOK, NextId
  <2>2. \A e \in Outstanding : e.tx < txid'
      BY <1>0, <2>1 DEF IdsSent
  <2>3. \A d \in Callers : pc'[d] = "await" => d = c
    <3>1. mu = c /\ \A d \in Callers \ {c} : pc'[d] = pc[d]
        BY <1>1 DEF Send, TypeOK, MutexHeld, NextId
    <3> QED BY <3>1 DEF MutexHeld
  <2>4. IdsSent'
    <3>1. \A e \in Outstanding : e.tx <= txid'
        BY <1>0, <2>1, <2>2
    <3>2. \A e \in Outstanding' : e \in Outstanding \/ e.tx = txid'
        BY <1>1, FramesSend
    <3> QED BY <2>1, <3>1, <3>2 DEF IdsSent
  <2>5. AcceptsOnlyOwnAnswer'
      BY <1>0, <1>1, <2>1, <2>2, <2>3, FramesSend DEF AcceptsOnlyOwnAnswer
  <2> QED BY <2>4, <2>5
<1>2. CASE \A c \in Callers : ~Send(c)
  <2>1. \A e \in Outstanding' : \E f \in Outstanding : SameRequest(e, f)
      BY <1>2, FramesNext
  <2>2. txid' = txid
      BY <1>2 DEF Next, Step, Call, Lock, DialFails, Receive, Timeout, ConnError,
                  Finish, Reconnect, Retry, Abandon, Cancel, InverterAnswers,
                  InverterDrops, ConnBreaks, Tick, vars, lockVars, netVars,
                  callVars, Stamp, Unlock, MutexFree, Sleep
  <2>3. \A c \in Callers : pc'[c] = "await" => pc[c] = "await" /\ unit'[c] = unit[c]
    <3> SUFFICES ASSUME NEW c \in Callers, pc'[c] = "await"
                 PROVE  pc[c] = "await" /\ unit'[c] = unit[c]
        OBVIOUS
    <3>1. ASSUME NEW d \in Callers,
                 DialFails(d) \/ Receive(d) \/ Timeout(d) \/ ConnError(d)
          PROVE  pc[c] = "await" /\ unit'[c] = unit[c]
      <4>1. pc[d] \in {"pause", "await"} /\ \E result : Finish(d, result)
          BY <3>1 DEF DialFails, Receive, Timeout, ConnError
      <4> QED BY <4>1, FinishStep, NextPCOutside
    <3>2. ASSUME NEW d \in Callers,
                 Lock(d) \/ Reconnect(d) \/ Retry(d) \/ Abandon(d)
          PROVE  pc[c] = "await" /\ unit'[c] = unit[c]
        BY <3>2 DEF Lock, Reconnect, Retry, Abandon, TypeOK, MutexFree, Sleep
    <3>3. ASSUME NEW d \in Callers, NEW u \in Units, Call(d, u)
          PROVE  pc[c] = "await" /\ unit'[c] = unit[c]
        BY <3>3 DEF Call, TypeOK
    <3>4. CASE Cancel \/ InverterAnswers \/ InverterDrops \/ ConnBreaks \/ Tick
               \/ UNCHANGED vars
        BY <3>4 DEF Cancel, InverterAnswers, InverterDrops, ConnBreaks, Tick, vars,
                    callVars
    <3> QED BY <1>2, <3>1, <3>2, <3>3, <3>4 DEF Next, Step
  <2>4. IdsSent'
      BY <2>1, <2>2 DEF IdsSent, SameRequest
  <2>5. AcceptsOnlyOwnAnswer'
      BY <2>1, <2>2, <2>3 DEF AcceptsOnlyOwnAnswer, SameRequest
  <2> QED BY <2>4, <2>5
<1> QED BY <1>1, <1>2

-------------------------------------------------------------------------------
\* The order of the frames

LEMMA IncreasingTail ==
    ASSUME NEW S, NEW s \in Seq(S), s # <<>>, Increasing(s)
    PROVE  /\ Increasing(Tail(s))
           /\ \A e \in Range(Tail(s)) : Head(s).tx < e.tx
<1> DEFINE t == Tail(s)
<1>1. /\ DOMAIN t = 1..Len(s) - 1
      /\ \A i \in 1..Len(s) - 1 : t[i] = s[i + 1]
      /\ DOMAIN s = 1..Len(s)
      /\ Len(s) \in Nat \ {0}
      /\ Head(s) = s[1]
    OBVIOUS
<1> HIDE DEF t
<1>2. ASSUME NEW i \in DOMAIN t, NEW j \in DOMAIN t, i < j
      PROVE  t[i].tx < t[j].tx
  <2>1. i + 1 \in DOMAIN s /\ j + 1 \in DOMAIN s /\ i + 1 < j + 1
      BY <1>1, <1>2
  <2> QED BY <1>1, <2>1 DEF Increasing
<1>3. ASSUME NEW i \in DOMAIN t
      PROVE  s[1].tx < t[i].tx
  <2>1. 1 \in DOMAIN s /\ i + 1 \in DOMAIN s /\ 1 < i + 1
      BY <1>1
  <2> QED BY <1>1, <2>1 DEF Increasing
<1> QED BY <1>1, <1>2, <1>3 DEF Increasing, Range, t

LEMMA IncreasingAppend ==
    ASSUME NEW S, NEW s \in Seq(S), NEW x \in S, Increasing(s),
           \A e \in Range(s) : e.tx < x.tx
    PROVE  Increasing(Append(s, x))
<1> DEFINE t == Append(s, x)
<1>1. /\ DOMAIN t = 1..Len(s) + 1
      /\ \A i \in 1..Len(s) : t[i] = s[i]
      /\ t[Len(s) + 1] = x
      /\ DOMAIN s = 1..Len(s)
      /\ Len(s) \in Nat
    OBVIOUS
<1> HIDE DEF t
<1>2. ASSUME NEW i \in DOMAIN t, NEW j \in DOMAIN t, i < j
      PROVE  t[i].tx < t[j].tx
  <2>1. i \in DOMAIN s /\ t[i] = s[i]
      BY <1>1, <1>2
  <2>2. CASE j = Len(s) + 1
      BY <1>1, <2>1, <2>2 DEF Range
  <2>3. CASE j # Len(s) + 1
    <3>1. j \in DOMAIN s /\ t[j] = s[j]
        BY <1>1, <2>3
    <3> QED BY <1>2, <2>1, <3>1 DEF Increasing
  <2> QED BY <2>2, <2>3
<1> QED BY <1>2 DEF Increasing, t

LEMMA IncreasingEmpty == Increasing(<<>>) /\ Range(<<>>) = {}
BY DEF Increasing, Range

LEMMA InOrderNext ==
    TypeOK /\ MutexHeld /\ UnitOfHolder /\ IdsSent /\ InOrder /\ [Next]_vars => InOrder'
<1> SUFFICES ASSUME TypeOK, MutexHeld, UnitOfHolder, IdsSent, InOrder, [Next]_vars
             PROVE  InOrder'
    OBVIOUS
<1> USE DEF lockVars, netVars, callVars
<1>0. toInv \in Seq(Frame) /\ fromInv \in Seq(AnswerFrame)
    BY DEF TypeOK, AnswerFrame
<1>1. ASSUME NEW c \in Callers, Send(c) PROVE InOrder'
  <2> DEFINE new == [tx |-> txid + 1, unit |-> slaveId, by |-> c]
  <2>1. /\ toInv' = toInv \/ toInv' = Append(toInv, new)
        /\ fromInv' = fromInv /\ conn' # "closed"
      BY <1>1 DEF Send, NextId, TypeOK
  <2>2. new \in Frame /\ new.tx = txid + 1
      BY <1>1, SendUnit DEF Send, TypeOK, Frame, NextId
  <2>3. \A e \in Outstanding : e.tx < new.tx
    <3>1. \A e \in Range(toInv) : e \in Frame
        BY <1>0 DEF Range
    <3>2. \A e \in Range(fromInv) : e \in AnswerFrame
        BY <1>0 DEF Range
    <3>3. \A e \in Outstanding : e.tx \in Nat /\ e.tx <= txid
        BY <3>1, <3>2 DEF Outstanding, Frame, AnswerFrame, IdsSent
    <3> QED BY <2>2, <3>3 DEF TypeOK
  <2> HIDE DEF new
  <2>4. CASE toInv' = toInv
      BY <2>1, <2>4 DEF InOrder
  <2>5. CASE toInv' = Append(toInv, new)
    <3>1. Increasing(toInv')
        BY <1>0, <2>2, <2>3, <2>5, IncreasingAppend DEF InOrder, Outstanding
    <3>2. Range(toInv') = Range(toInv) \cup {new}
        BY <1>0, <2>2, <2>5, RangeAppend
    <3> QED BY <2>1, <2>3, <3>1, <3>2 DEF InOrder, Outstanding
  <2> QED BY <2>1, <2>4, <2>5
<1>2. ASSUME NEW c \in Callers, Receive(c) PROVE InOrder'
  <2>1. /\ fromInv # <<>> /\ fromInv' = Tail(fromInv)
        /\ UNCHANGED <<conn, toInv>>
      BY <1>2 DEF Receive
  <2>2. Increasing(fromInv') /\ Range(fromInv') \subseteq Range(fromInv)
      BY <1>0, <2>1, IncreasingTail, RangeTail DEF InOrder
  <2>3. conn' # "closed"
      BY <2>1 DEF InOrder
  <2> QED BY <2>1, <2>2, <2>3 DEF InOrder
<1>3. CASE InverterAnswers \/ InverterDrops
  <2>1. toInv # <<>> /\ toInv' = Tail(toInv) /\ conn' = conn
      BY <1>3 DEF InverterAnswers, InverterDrops
  <2>2. /\ Increasing(toInv') /\ Range(toInv') \subseteq Range(toInv)
        /\ Head(toInv) \in Range(toInv) /\ Head(toInv) \in Frame
        /\ \A e \in Range(toInv') : Head(toInv).tx < e.tx
      BY <1>0, <2>1, IncreasingTail, RangeTail DEF InOrder
  <2>3. conn' # "closed"
      BY <2>1 DEF InOrder
  <2>4. CASE fromInv' = fromInv
      BY <2>2, <2>3, <2>4 DEF InOrder
  <2>5. CASE InverterAnswers
    <3>1. PICK kind \in Answers :
            fromInv' = Append(fromInv, [tx |-> Head(toInv).tx, unit |-> Head(toInv).unit,
                                        by |-> Head(toInv).by, kind |-> kind])
        BY <2>5 DEF InverterAnswers
    <3> DEFINE e == [tx |-> Head(toInv).tx, unit |-> Head(toInv).unit,
                     by |-> Head(toInv).by, kind |-> kind]
    <3>2. e \in AnswerFrame /\ e.tx = Head(toInv).tx
        BY <2>2 DEF Frame, AnswerFrame
    <3>3. fromInv' = Append(fromInv, e)
        BY <3>1
    <3> HIDE DEF e
    <3>4. \A f \in Range(fromInv) : f.tx < e.tx
        BY <2>2, <3>2 DEF InOrder
    <3>5. Increasing(fromInv')
        BY <1>0, <3>2, <3>3, <3>4, IncreasingAppend DEF InOrder
    <3>6. Range(fromInv') = Range(fromInv) \cup {e}
        BY <1>0, <3>2, <3>3, RangeAppend
    <3> QED BY <2>2, <2>3, <3>2, <3>5, <3>6 DEF InOrder
  <2> QED BY <1>3, <2>4, <2>5 DEF InverterDrops
<1>4. CASE ConnBreaks
    BY <1>4, IncreasingEmpty DEF ConnBreaks, InOrder
<1>5. ASSUME NEW c \in Callers, Reconnect(c) PROVE InOrder'
    BY <1>5, IncreasingEmpty DEF Reconnect, InOrder
<1>6. CASE UNCHANGED <<conn, toInv, fromInv>>
    BY <1>6 DEF InOrder
<1>7. \/ \E c \in Callers : Send(c) \/ Receive(c) \/ Reconnect(c)
      \/ InverterAnswers \/ InverterDrops \/ ConnBreaks
      \/ UNCHANGED <<conn, toInv, fromInv>>
    BY DEF Next, Step, Call, Lock, DialFails, Timeout, ConnError, Retry, Abandon,
           Cancel, Tick, vars
<1> QED BY <1>1, <1>2, <1>3, <1>4, <1>5, <1>6, <1>7

\* Who reads the answer to the last request empties the connection.
LEMMA LastAnswerIsAlone ==
    ASSUME TypeOK, IdsSent, InOrder, fromInv # <<>>, Head(fromInv).tx = txid
    PROVE  toInv = <<>> /\ Tail(fromInv) = <<>>
<1>0. toInv \in Seq(Frame) /\ fromInv \in Seq(AnswerFrame) /\ Tail(fromInv) \in Seq(AnswerFrame)
    BY DEF TypeOK, AnswerFrame
<1>1. /\ Range(Tail(fromInv)) \subseteq Range(fromInv) /\ Head(fromInv) \in Range(fromInv)
      /\ \A e \in Range(Tail(fromInv)) : Head(fromInv).tx < e.tx
    BY <1>0, RangeTail, IncreasingTail DEF InOrder
<1>2. \A e \in Range(toInv) \cup Range(Tail(fromInv)) :
        txid < e.tx /\ e.tx <= txid /\ e.tx \in Nat
  <2>1. \A e \in Range(toInv) : e \in Frame
      BY <1>0 DEF Range
  <2>2. \A e \in Range(fromInv) : e \in AnswerFrame
      BY <1>0 DEF Range
  <2> QED BY <1>1, <2>1, <2>2 DEF InOrder, IdsSent, Outstanding, Frame, AnswerFrame
<1>3. Range(toInv) = {} /\ Range(Tail(fromInv)) = {}
  <2>1. txid \in Nat
      BY DEF TypeOK
  <2>2. ASSUME NEW e \in Range(toInv) \cup Range(Tail(fromInv)) PROVE FALSE
      BY <1>2, <2>1
  <2> QED BY <2>2
<1>4. ASSUME NEW S, NEW s \in Seq(S), Range(s) = {} PROVE s = <<>>
  <2>1. CASE Len(s) = 0
      BY <2>1
  <2>2. CASE Len(s) # 0
    <3>1. 1 \in DOMAIN s
        BY <2>2
    <3>2. s[1] \in Range(s)
        BY <3>1 DEF Range
    <3> QED BY <1>4, <3>2
  <2> QED BY <2>1, <2>2
<1> QED BY <1>0, <1>3, <1>4

\* readGroup returns, and was not cancelled, only after an answer to its own
\* request, a refused connection, or a Reconnect.
LEMMA NoLateAnswerNext ==
    IInv /\ [Next]_vars => ReaderLeavesNoLateAnswer'
<1> SUFFICES ASSUME IInv, [Next]_vars, (pc[Reader] = "idle" /\ ~ctxDone)',
                    NEW e \in Outstanding'
             PROVE  e.by # Reader
    BY DEF ReaderLeavesNoLateAnswer
<1> USE ClientAssumption DEF lockVars, netVars, callVars
<1>1. TypeOK /\ MutexHeld /\ UnitOfHolder /\ AttemptsLeft /\ IdsSent /\ InOrder
      /\ ReaderLeavesNoLateAnswer
    BY DEF IInv
<1>2. ASSUME toInv' = <<>>, fromInv' = <<>> PROVE FALSE
    BY <1>2 DEF Outstanding, Range
<1>3. ~ctxDone
  <2>1. ASSUME NEW c \in Callers, DialFails(c) \/ Receive(c) \/ Timeout(c) \/ ConnError(c)
        PROVE  ctxDone' = ctxDone
      BY <2>1 DEF DialFails, Receive, Timeout, ConnError, Finish
  <2> QED BY <2>1 DEF Next, Step, Call, Lock, Send, Reconnect, Retry, Abandon, Cancel,
                      InverterAnswers, InverterDrops, ConnBreaks, Tick, vars
<1>4. CASE pc[Reader] = "idle"
  <2>1. \A f \in Outstanding : f.by # Reader
      BY <1>1, <1>3, <1>4 DEF ReaderLeavesNoLateAnswer
  <2>2. ASSUME NEW c \in Callers, Send(c) PROVE e.by # Reader
    <3>1. c # Reader
        BY <1>4, <2>2 DEF Send
    <3> QED BY <1>1, <2>1, <2>2, <3>1, FramesSend
  <2>3. CASE \A c \in Callers : ~Send(c)
    <3>1. \A g \in Outstanding' : \E f \in Outstanding : SameRequest(g, f)
        BY <1>1, <2>3, FramesNext
    <3> QED BY <2>1, <3>1 DEF SameRequest
  <2> QED BY <2>2, <2>3
<1>5. CASE pc[Reader] # "idle"
  <2>1. ASSUME Receive(Reader) PROVE FALSE
    <3> DEFINE result == IF Head(fromInv).tx = txid THEN Head(fromInv).kind ELSE "mismatch"
    <3>1. /\ pc[Reader] = "await" /\ fromInv # <<>> /\ Finish(Reader, result)
          /\ fromInv' = Tail(fromInv) /\ toInv' = toInv
        BY <2>1 DEF Receive
    <3>2. pc'[Reader] = NextPC(Reader, result)
        BY <1>1, <3>1, FinishStep
    <3>3. result \notin SameConn \cup NewConn
        BY <1>3, <3>2 DEF NextPC, Sleep, Exhausted
    <3>4. Head(fromInv).tx = txid
        BY <3>3 DEF NewConn
    <3> QED BY <1>1, <1>2, <3>1, <3>4, LastAnswerIsAlone
  <2>2. ASSUME DialFails(Reader) PROVE FALSE
      BY <1>1, <1>2, <2>2 DEF DialFails, InOrder
  <2>3. ASSUME Timeout(Reader) \/ ConnError(Reader) PROVE FALSE
    <3>1. PICK result \in {"timeout", "connerr"} : Finish(Reader, result)
        BY <2>3 DEF Timeout, ConnError
    <3>2. pc'[Reader] = NextPC(Reader, result)
        BY <1>1, <2>3, <3>1, FinishStep DEF Timeout, ConnError
    <3> QED BY <1>3, <3>1, <3>2 DEF NextPC, Sleep, Exhausted, SameConn, NewConn
  <2>4. ASSUME Reconnect(Reader) PROVE FALSE
      BY <1>2, <2>4 DEF Reconnect
  <2>5. ASSUME NEW c \in Callers \ {Reader},
               DialFails(c) \/ Receive(c) \/ Timeout(c) \/ ConnError(c)
        PROVE  FALSE
    <3>1. pc[c] \in {"pause", "await"} /\ \E result : Finish(c, result)
        BY <2>5 DEF DialFails, Receive, Timeout, ConnError
    <3> QED BY <1>1, <1>5, <3>1, FinishStep
  <2>6. ASSUME NEW c \in Callers, Lock(c) \/ Send(c) \/ Retry(c) \/ Abandon(c)
                                    \/ (c # Reader /\ Reconnect(c))
                                    \/ \E u \in Units : Call(c, u)
        PROVE  FALSE
      BY <1>1, <1>3, <1>5, <2>6 DEF Lock, Send, Retry, Abandon, Reconnect, Call, TypeOK
  <2>7. CASE Cancel \/ InverterAnswers \/ InverterDrops \/ ConnBreaks \/ Tick
             \/ UNCHANGED vars
      BY <1>5, <2>7 DEF Cancel, InverterAnswers, InverterDrops, ConnBreaks, Tick, vars
  <2> QED BY <2>1, <2>2, <2>3, <2>4, <2>5, <2>6, <2>7 DEF Next, Step
<1> QED BY <1>4, <1>5

-------------------------------------------------------------------------------
\* The pause and the cancellation

LEMMA LastReadNext ==
    TypeOK /\ MutexHeld /\ UnitOfHolder /\ AttemptsLeft /\ LastReadKnown /\ [Next]_vars
        => LastReadKnown'
<1> SUFFICES ASSUME TypeOK, MutexHeld, UnitOfHolder, AttemptsLeft, LastReadKnown,
                    [Next]_vars
             PROVE  LastReadKnown'
    OBVIOUS
<1> USE DEF lockVars, netVars, callVars
<1>1. ASSUME NEW c \in Callers, Send(c) PROVE LastReadKnown'
  <2>1. pc'[c] = "await"
      BY <1>1 DEF Send, TypeOK, NextId
  <2> QED BY <1>1, <2>1 DEF Send, LastReadKnown, NextId
<1>2. ASSUME NEW c \in Callers, DialFails(c) \/ Receive(c) \/ Timeout(c) \/ ConnError(c)
      PROVE  LastReadKnown'
  <2>1. pc[c] \in {"pause", "await"} /\ \E result : Finish(c, result)
      BY <1>2 DEF DialFails, Receive, Timeout, ConnError
  <2>2. lastRead' = now /\ lastDone' = now /\ now' = now
      BY <2>1, FinishStep
  <2> QED BY <2>2 DEF LastReadKnown, TypeOK
<1>3. ASSUME NEW c \in Callers, Reconnect(c) PROVE LastReadKnown'
    BY <1>3 DEF Reconnect, LastReadKnown, MutexFree, Sleep
<1>4. ASSUME NEW c \in Callers,
             Lock(c) \/ Retry(c) \/ Abandon(c) \/ \E u \in Units : Call(c, u)
      PROVE  LastReadKnown'
  <2>1. \A d \in Callers : pc[d] = "await" => pc'[d] = "await"
      BY <1>4 DEF Lock, Retry, Abandon, Call, TypeOK, MutexFree
  <2>2. UNCHANGED <<now, lastRead, lastDone, conn>>
      BY <1>4 DEF Lock, Retry, Abandon, Call, MutexFree
  <2> QED BY <2>1, <2>2 DEF LastReadKnown
<1>5. CASE ConnBreaks
    BY <1>5 DEF ConnBreaks, LastReadKnown
<1>6. CASE Tick
    BY <1>6, ClientAssumption DEF Tick, LastReadKnown, TypeOK
<1>7. CASE Cancel \/ InverterAnswers \/ InverterDrops \/ UNCHANGED vars
    BY <1>7 DEF Cancel, InverterAnswers, InverterDrops, vars, LastReadKnown
<1> QED BY <1>1, <1>2, <1>3, <1>4, <1>5, <1>6, <1>7 DEF Next, Step

LEMMA CancelNext ==
    TypeOK /\ MutexHeld /\ UnitOfHolder /\ AttemptsLeft /\ CancelHeeded /\ [Next]_vars
        => CancelHeeded'
<1> SUFFICES ASSUME TypeOK, MutexHeld, UnitOfHolder, AttemptsLeft, CancelHeeded,
                    [Next]_vars
             PROVE  CancelHeeded'
    OBVIOUS
<1> USE ClientAssumption DEF lockVars, netVars, callVars
<1>1. ASSUME NEW c \in Callers, Send(c) PROVE CancelHeeded'
    BY <1>1 DEF Send, CancelHeeded, TypeOK, NextId
<1>2. ASSUME NEW c \in Callers, DialFails(c) \/ Receive(c) \/ Timeout(c) \/ ConnError(c)
      PROVE  CancelHeeded'
  <2>1. PICK result : Finish(c, result)
      BY <1>2 DEF DialFails, Receive, Timeout, ConnError
  <2>2. pc[c] \in {"pause", "await"}
      BY <1>2 DEF DialFails, Receive, Timeout, ConnError
  <2>3. /\ lateSends' = lateSends /\ ctxDone' = ctxDone
        /\ \A d \in Callers \ {c} : pc'[d] = pc[d]
        /\ pc'[c] = NextPC(c, result)
      BY <2>1, <2>2, FinishStep
  <2>4. ctxDone => NextPC(c, result) \in {"idle", "reconnect", "giveup"}
      BY NextPCOutside
  <2> QED BY <2>3, <2>4 DEF CancelHeeded
<1>3. ASSUME NEW c \in Callers,
             Reconnect(c) \/ Lock(c) \/ Retry(c) \/ Abandon(c) \/ \E u \in Units : Call(c, u)
      PROVE  CancelHeeded'
    BY <1>3 DEF Reconnect, Lock, Retry, Abandon, Call, CancelHeeded, TypeOK,
                MutexFree, Sleep
<1>4. CASE Cancel \/ InverterAnswers \/ InverterDrops \/ ConnBreaks \/ Tick
           \/ UNCHANGED vars
    BY <1>4 DEF Cancel, InverterAnswers, InverterDrops, ConnBreaks, Tick, vars,
                CancelHeeded
<1> QED BY <1>1, <1>2, <1>3, <1>4 DEF Next, Step

-------------------------------------------------------------------------------
\* The theorems

LEMMA IInvInit == Init => IInv
<1> SUFFICES ASSUME Init PROVE IInv
    OBVIOUS
<1>1. Outstanding = {}
    BY DEF Init, Outstanding, Range
<1>2. IdsSent /\ AcceptsOnlyOwnAnswer
    BY <1>1 DEF IdsSent, AcceptsOnlyOwnAnswer
<1>3. LastReadKnown /\ CancelHeeded
    BY ClientAssumption DEF Init, LastReadKnown, CancelHeeded
<1>4. InOrder /\ ReaderLeavesNoLateAnswer
    BY <1>1, IncreasingEmpty DEF Init, InOrder, ReaderLeavesNoLateAnswer
<1> QED BY <1>2, <1>3, <1>4, TypeInit, LockInit DEF IInv

LEMMA IInvNext == IInv /\ [Next]_vars => IInv'
BY TypeNext, LockNext, OwnAnswerNext, InOrderNext, NoLateAnswerNext, LastReadNext,
   CancelNext DEF IInv

\* The invariant holds in every state of every instance.
THEOREM Inductive == Spec => []IInv
<1>1. Init => IInv
    BY IInvInit
<1>2. IInv /\ [Next]_vars => IInv'
    BY IInvNext
<1> QED BY <1>1, <1>2, PTL DEF Spec

\* Type correctness of the client for all values of the constants.
THEOREM TypeCorrect == Spec => []TypeOK
<1>1. IInv => TypeOK
    BY DEF IInv
<1> QED BY <1>1, Inductive, PTL

\* No caller takes an answer that is not its own for its own, however many
\* requests timed out before on the same connection (client.go:61-70).
THEOREM OwnAnswers == Spec => []AcceptsOnlyOwnAnswer
<1>1. IInv => AcceptsOnlyOwnAnswer
    BY DEF IInv
<1> QED BY <1>1, Inductive, PTL

\* readGroup that has returned, and was not cancelled, leaves nothing of its
\* own on the connection, after any number of retries and of failures in any
\* order (reader.go:111).
THEOREM NothingLeftBehind == Spec => []ReaderLeavesNoLateAnswer
<1>1. IInv => ReaderLeavesNoLateAnswer
    BY DEF IInv
<1> QED BY <1>1, Inductive, PTL

\* After its own answer a caller leaves an empty connection, however many late
\* answers were ahead of it (client.go:65).
THEOREM BackInStep == Spec => OwnAnswerRestoresStep
<1> DEFINE Claim == \A c \in Callers :
        pc[c] = "await" /\ fromInv # <<>> /\ fromInv' = Tail(fromInv)
          /\ Head(fromInv).tx = txid
        => toInv' = <<>> /\ fromInv' = <<>>
<1>1. IInv /\ [Next]_vars => Claim
  <2> SUFFICES ASSUME IInv, [Next]_vars, fromInv # <<>>, fromInv' = Tail(fromInv),
                      Head(fromInv).tx = txid
               PROVE  toInv' = <<>> /\ fromInv' = <<>>
      OBVIOUS
  <2>1. toInv = <<>> /\ fromInv' = <<>>
      BY LastAnswerIsAlone DEF IInv
  <2>2. ASSUME NEW c \in Callers, Send(c) PROVE FALSE
      BY <2>1, <2>2 DEF Send
  <2>3. toInv' = toInv \/ toInv' = <<>>
      BY <2>1, <2>2 DEF Next, Step, Call, Lock, DialFails, Receive, Timeout, ConnError,
             Reconnect, Retry, Abandon, Cancel, InverterAnswers, InverterDrops,
             ConnBreaks, Tick, vars, netVars
  <2> QED BY <2>1, <2>3
<1> QED BY <1>1, Inductive, PTL DEF Spec, OwnAnswerRestoresStep

\* The reader sends at most one request after it was cancelled (reader.go:87).
THEOREM CancelBound == Spec => []OneRequestAfterCancel
<1>1. IInv => OneRequestAfterCancel
    BY DEF IInv, CancelHeeded, OneRequestAfterCancel
<1> QED BY <1>1, Inductive, PTL

\* Only a Reconnect shortens the gap between two requests, and only for the
\* first request on the new connection (client.go:48-57, 98-104).
THEOREM EarlySends == Spec => EarlyOnlyOnNewConnection
<1> DEFINE Early(c) == pc[c] = "pause" /\ pc'[c] = "await" /\ now < lastDone + Pause
           Claim    == \A c \in Callers : Early(c) => conn = "closed"
<1>1. IInv /\ [Next]_vars => Claim
  <2> SUFFICES ASSUME IInv, [Next]_vars, NEW c \in Callers, Early(c)
               PROVE  conn = "closed"
      OBVIOUS
  <2>1. TypeOK /\ MutexHeld /\ LastReadKnown /\ UnitOfHolder /\ AttemptsLeft
      BY DEF IInv
  <2>2. Send(c)
    <3>1. ASSUME NEW d \in Callers,
                 DialFails(d) \/ Receive(d) \/ Timeout(d) \/ ConnError(d)
          PROVE  FALSE
      <4>1. pc[d] \in {"pause", "await"} /\ \E result : Finish(d, result)
          BY <3>1 DEF DialFails, Receive, Timeout, ConnError
      <4> QED BY <2>1, <4>1, FinishStep, NextPCOutside
    <3>2. ASSUME NEW d \in Callers,
                 Reconnect(d) \/ Lock(d) \/ Retry(d) \/ Abandon(d)
                   \/ \E u \in Units : Call(d, u)
          PROVE  FALSE
        BY <2>1, <3>2 DEF Reconnect, Lock, Retry, Abandon, Call, TypeOK, MutexFree,
                          Sleep
    <3>3. ASSUME NEW d \in Callers, Send(d) PROVE d = c
        BY <2>1, <3>3 DEF Send, TypeOK, callVars, NextId
    <3>4. CASE Cancel \/ InverterAnswers \/ InverterDrops \/ ConnBreaks \/ Tick
               \/ UNCHANGED vars
        BY <3>4 DEF Cancel, InverterAnswers, InverterDrops, ConnBreaks, Tick, vars,
                    callVars
    <3> QED BY <3>1, <3>2, <3>3, <3>4 DEF Next, Step
  <2>3. lastRead = 0 \/ now >= lastRead + Pause
      BY <2>2 DEF Send, PauseOver, NextId
  <2>4. lastRead = 0 /\ lastDone # 0
      BY <2>1, <2>3, ClientAssumption DEF LastReadKnown, TypeOK
  <2>5. \A d \in Callers : pc[d] # "await"
      BY <2>1 DEF MutexHeld
  <2> QED BY <2>1, <2>4, <2>5 DEF LastReadKnown
<1> QED BY <1>1, Inductive, PTL DEF Spec, EarlyOnlyOnNewConnection

===============================================================================
