---------------------------- MODULE InverterClient ----------------------------
(***************************************************************************)
(* The one Modbus TCP connection to the inverter and the InverterClient    *)
(* that shares it (client.go), with the retry loop of the polling          *)
(* goroutine (readGroup, reader.go) and the single attempts of the         *)
(* goroutines that serve client connections (server.go).                   *)
(*                                                                         *)
(* What is delicate here: a request that times out leaves its answer to    *)
(* come on the connection, where the next caller will read it; the unit ID *)
(* of a request is a field of the shared handler; Reconnect closes the     *)
(* connection under everybody and forgets the time of the last request.    *)
(*                                                                         *)
(* Read, write-single and write-multiple have the same control, so one     *)
(* request stands for the three.  Register contents are left to module     *)
(* CachingProxy.  The goburrow/modbus transport and the inverter are       *)
(* external: they are modelled from the errors client.go tells apart.      *)
(***************************************************************************)
EXTENDS Integers, Sequences, Functions

CONSTANTS
    Callers,     \* goroutines that use the client
    Reader,      \* the polling goroutine, one of Callers
    Units,       \* Modbus unit IDs
    None,        \* no caller (the mutex is free), no unit ID set yet
    MaxRetries,  \* attempts of readGroup (maxRetries)
    Pause,       \* minimal gap between requests (pauseMs), in clock ticks
    MaxCalls     \* bound: calls made by all callers together

ASSUME ClientAssumption ==
    /\ Reader \in Callers
    /\ None \notin Callers
    /\ None \notin Units
    /\ MaxRetries \in Nat \ {0}
    /\ Pause \in Nat
    /\ MaxCalls \in Nat

VARIABLES
    mu,         \* the caller that holds ic.mu, or None
    slaveId,    \* handler.SlaveId: the unit ID the next request is sent to
    lastRead,   \* ic.lastRead; 0 is the zero time
    txid,       \* transaction id of the last request sent
    conn,       \* "up", "dead" (the peer is gone) or "closed"
    toInv,      \* requests on the connection the inverter has not handled
    fromInv,    \* answers on the connection nobody has read
    pc,         \* where each caller is
    unit,       \* the unitID argument of each caller's call
    attempt,    \* the attempt of each caller's call
    ctxDone,    \* the reader's context is cancelled
    now,        \* the clock
    calls,      \* calls made so far
    \* History, read by properties only:
    lastDone,   \* when the last request really ended; never reset
    lateSends   \* requests the reader sent after the cancellation

lockVars == <<mu, slaveId, lastRead>>
netVars  == <<txid, conn, toInv, fromInv>>
callVars == <<pc, unit, attempt>>
vars == <<lockVars, netVars, callVars, ctxDone, now, calls, lastDone, lateSends>>

PCs == {"idle", "lock", "pause", "await", "backoff", "reconnect", "giveup"}

\* What the code's error predicates tell apart.
Answers     == {"ok", "busy", "exception"}
SameConn    == {"busy", "timeout"}      \* IsDeviceBusy, IsTimeout
NewConn     == {"mismatch", "connerr"}  \* IsTransactionMismatch, IsConnectionError

Frame == [tx : Nat, unit : Units, by : Callers]

TypeOK ==
    /\ mu \in Callers \cup {None}
    /\ slaveId \in Units \cup {None}
    /\ lastRead \in Nat
    /\ txid \in Nat
    /\ conn \in {"up", "dead", "closed"}
    /\ toInv \in Seq(Frame)
    /\ fromInv \in Seq([tx : Nat, unit : Units, by : Callers, kind : Answers])
    /\ pc \in [Callers -> PCs]
    /\ unit \in [Callers -> Units]
    /\ attempt \in [Callers -> 1..MaxRetries]
    /\ ctxDone \in BOOLEAN
    /\ now \in Nat \ {0}
    /\ calls \in Nat
    /\ lastDone \in Nat
    /\ lateSends \in Nat

\* NewInverterClient has dialled; no request was sent yet.
Init ==
    /\ mu = None
    /\ slaveId = None
    /\ lastRead = 0
    /\ txid = 0
    /\ conn = "up"
    /\ toInv = <<>>
    /\ fromInv = <<>>
    /\ pc = [c \in Callers |-> "idle"]
    /\ unit \in [Callers -> Units]
    /\ attempt = [c \in Callers |-> 1]
    /\ ctxDone = FALSE
    /\ now = Pause + 1
    /\ calls = 0
    /\ lastDone = 0
    /\ lateSends = 0

-------------------------------------------------------------------------------
\* Calls

\* A handler calls the client once; the reader enters readGroup, which
\* returns at once when the context is cancelled.
Call(c, u) ==
    /\ pc[c] = "idle"
    /\ calls < MaxCalls
    /\ c = Reader => ~ctxDone
    /\ calls' = calls + 1
    /\ pc' = [pc EXCEPT ![c] = "lock"]
    /\ unit' = [unit EXCEPT ![c] = u]
    /\ attempt' = [attempt EXCEPT ![c] = 1]
    /\ UNCHANGED <<lockVars, netVars, ctxDone, now, lastDone, lateSends>>

\* ic.mu.Lock() proceeds; faulty: no mutex around the shared handler.
MutexNotTaken == TRUE
MutexFree     == mu = None

\* ic.mu.Lock(), then handler.SlaveId = unitID.
Lock(c) ==
    /\ pc[c] = "lock"
    /\ MutexFree
    /\ mu' = c
    /\ slaveId' = unit[c]
    /\ pc' = [pc EXCEPT ![c] = "pause"]
    /\ UNCHANGED <<lastRead, netVars, unit, attempt, ctxDone, now, calls,
                   lastDone, lateSends>>

\* enforcePause lets the caller through: no request since the last
\* Reconnect, or the gap has passed.
PauseOver == lastRead = 0 \/ now >= lastRead + Pause

\* The transaction id of the next request; faulty: of a retry, the one before.
SameIdOnRetry(c) == IF attempt[c] > 1 THEN txid ELSE txid + 1
NextId(c)        == txid + 1

\* The library writes the request, dialling first if the connection is closed.
Send(c) ==
    /\ pc[c] = "pause"
    /\ PauseOver
    /\ txid' = NextId(c)
    /\ conn' = IF conn = "closed" THEN "up" ELSE conn
    /\ toInv' = IF conn = "dead" THEN toInv
                ELSE Append(toInv, [tx |-> NextId(c), unit |-> slaveId, by |-> c])
    /\ pc' = [pc EXCEPT ![c] = "await"]
    /\ lateSends' = IF c = Reader /\ ctxDone THEN lateSends + 1 ELSE lateSends
    /\ UNCHANGED <<lockVars, fromInv, unit, attempt, ctxDone, now, calls, lastDone>>

\* attempt < maxRetries; faulty: one attempt too many.
MayRetryOnceMore(c) == attempt[c] <= MaxRetries
MayRetry(c)         == attempt[c] < MaxRetries

\* sleepCtx returns at once when the context is already cancelled; faulty: a
\* plain sleep.
PlainSleep == "backoff"
Sleep      == IF ctxDone THEN "idle" ELSE "backoff"

\* All retries exhausted: reconnect, then return; faulty: just return.
JustReturn == "idle"
Exhausted  == "giveup"

\* Where a caller goes when its request ended with `result`: a handler
\* returns, the reader decides what readGroup does next.
NextPC(c, result) ==
    CASE c # Reader                                      -> "idle"
      [] c = Reader /\ result \notin SameConn \cup NewConn -> "idle"
      [] c = Reader /\ result \in SameConn /\ MayRetry(c)  -> Sleep
      [] c = Reader /\ result \in NewConn /\ MayRetry(c)   -> "reconnect"
      [] OTHER                                           -> Exhausted

\* ic.lastRead = time.Now(); faulty: only after a success.
StampOfSuccess(result) == IF result = "ok" THEN now ELSE lastRead
Stamp(result)          == now

\* defer ic.mu.Unlock(); faulty: an error path without it.
UnlockOnReply(result) == IF result = "timeout" THEN mu ELSE None
Unlock(result)        == None

Finish(c, result) ==
    /\ mu' = Unlock(result)
    /\ lastRead' = Stamp(result)
    /\ lastDone' = now
    /\ pc' = [pc EXCEPT ![c] = NextPC(c, result)]
    /\ UNCHANGED <<slaveId, txid, unit, attempt, ctxDone, now, calls, lateSends>>

\* Dialling fails: connection refused, or the dial times out.
DialFails(c) ==
    /\ pc[c] = "pause"
    /\ PauseOver
    /\ conn = "closed"
    /\ \E result \in {"refused", "timeout"} : Finish(c, result)
    /\ UNCHANGED <<conn, toInv, fromInv>>

\* The library reads one answer and compares its transaction id with the
\* request's, which is the last one sent: the caller holds the mutex.
Receive(c) ==
    /\ pc[c] = "await"
    /\ fromInv # <<>>
    /\ Finish(c, IF Head(fromInv).tx = txid THEN Head(fromInv).kind ELSE "mismatch")
    /\ fromInv' = Tail(fromInv)
    /\ UNCHANGED <<conn, toInv>>

\* No answer before the deadline.
Timeout(c) ==
    /\ pc[c] = "await"
    /\ fromInv = <<>>
    /\ Finish(c, "timeout")
    /\ UNCHANGED <<conn, toInv, fromInv>>

\* Broken pipe, connection reset or EOF.
ConnError(c) ==
    /\ pc[c] = "await"
    /\ fromInv = <<>>
    /\ conn = "dead"
    /\ Finish(c, "connerr")
    /\ UNCHANGED <<conn, toInv, fromInv>>

-------------------------------------------------------------------------------
\* Recovery, in the reader only

\* ic.Reconnect, whole, under the mutex: after it readGroup either sleeps
\* before the next attempt or, all retries exhausted, returns.
Reconnect(c) ==
    /\ pc[c] \in {"reconnect", "giveup"}
    /\ MutexFree
    /\ conn' = "closed"
    /\ toInv' = <<>>
    /\ fromInv' = <<>>
    /\ lastRead' = 0
    /\ pc' = [pc EXCEPT ![c] = IF pc[c] = "giveup" THEN "idle" ELSE Sleep]
    /\ UNCHANGED <<mu, slaveId, txid, unit, attempt, ctxDone, now, calls,
                   lastDone, lateSends>>

\* sleepCtx ends because the time is over...
Retry(c) ==
    /\ pc[c] = "backoff"
    /\ pc' = [pc EXCEPT ![c] = "lock"]
    /\ attempt' = [attempt EXCEPT ![c] = @ + 1]
    /\ UNCHANGED <<lockVars, netVars, unit, ctxDone, now, calls, lastDone, lateSends>>

\* ... or because the context is cancelled.
Abandon(c) ==
    /\ pc[c] = "backoff"
    /\ ctxDone
    /\ pc' = [pc EXCEPT ![c] = "idle"]
    /\ UNCHANGED <<lockVars, netVars, unit, attempt, ctxDone, now, calls,
                   lastDone, lateSends>>

Cancel ==
    /\ ~ctxDone
    /\ ctxDone' = TRUE
    /\ UNCHANGED <<lockVars, netVars, callVars, now, calls, lastDone, lateSends>>

-------------------------------------------------------------------------------
\* The inverter, the network and the clock

\* The inverter handles its requests in order, and may answer one late,
\* with exception 6 (busy), with another exception, or never.
InverterAnswers ==
    /\ toInv # <<>>
    /\ toInv' = Tail(toInv)
    /\ \E kind \in Answers :
         fromInv' = Append(fromInv, [tx   |-> Head(toInv).tx,
                                     unit |-> Head(toInv).unit,
                                     by   |-> Head(toInv).by,
                                     kind |-> kind])
    /\ UNCHANGED <<lockVars, txid, conn, callVars, ctxDone, now, calls,
                   lastDone, lateSends>>

InverterDrops ==
    /\ toInv # <<>>
    /\ toInv' = Tail(toInv)
    /\ UNCHANGED <<lockVars, txid, conn, fromInv, callVars, ctxDone, now, calls,
                   lastDone, lateSends>>

\* The peer goes away; answers that had arrived may or may not be readable.
ConnBreaks ==
    /\ conn = "up"
    /\ conn' = "dead"
    /\ toInv' = <<>>
    /\ fromInv' \in {fromInv, <<>>}
    /\ UNCHANGED <<lockVars, txid, callVars, ctxDone, now, calls, lastDone, lateSends>>

\* The clock only matters until the gap after the last request has passed.
Tick ==
    /\ now < lastDone + Pause
    /\ now' = now + 1
    /\ UNCHANGED <<lockVars, netVars, callVars, ctxDone, calls, lastDone, lateSends>>

-------------------------------------------------------------------------------

\* The steps of one call, which end in finitely many steps.
Step(c) ==
    \/ Send(c) \/ DialFails(c) \/ Receive(c) \/ Timeout(c) \/ ConnError(c)
    \/ Retry(c) \/ Abandon(c)

Next ==
    \/ \E c \in Callers, u \in Units : Call(c, u)
    \/ \E c \in Callers : Lock(c) \/ Step(c) \/ Reconnect(c)
    \/ Cancel
    \/ InverterAnswers \/ InverterDrops \/ ConnBreaks
    \/ Tick

Spec == Init /\ [][Next]_vars

\* Deadlines fire, sleeps end, the clock runs, and sync.Mutex starves no
\* waiter (its starvation mode hands the mutex over in FIFO order).  Nothing
\* is assumed of the inverter or the network, nor that calls are made.
Fairness ==
    /\ WF_vars(Tick)
    /\ \A c \in Callers : WF_vars(Step(c)) /\ SF_vars(Lock(c)) /\ SF_vars(Reconnect(c))

FairSpec == Spec /\ Fairness

-------------------------------------------------------------------------------
\* Properties

Outstanding == Range(toInv) \cup Range(fromInv)

\* An answer whose transaction id a caller will accept was made for that
\* very call: sent by this caller, to the unit it asked for, with no answer
\* to a request that timed out earlier taken for it (client.go:65, 248).
AcceptsOnlyOwnAnswer ==
    \A c \in Callers : \A e \in Outstanding :
        pc[c] = "await" /\ e.tx = txid => e.by = c /\ e.unit = unit[c]

\* The reader never leaves a late answer of its own behind: when readGroup
\* has returned, no request of the reader is still to be handled or answered
\* on the connection, so no following request, of whichever goroutine, fails
\* because of it (reader.go:111).  A cancelled readGroup skips the Reconnect.
ReaderLeavesNoLateAnswer ==
    pc[Reader] = "idle" /\ ~ctxDone => \A e \in Outstanding : e.by # Reader

\* A caller that gets the answer to its own request leaves the connection
\* in step: nothing is on it any more, whatever timed out before.
OwnAnswerRestoresStep ==
    [][\A c \in Callers :
        pc[c] = "await" /\ fromInv # <<>> /\ fromInv' = Tail(fromInv)
          /\ Head(fromInv).tx = txid
        => toInv' = <<>> /\ fromInv' = <<>>]_vars

\* The gap between requests is cut short by one thing only: Reconnect has
\* reset lastRead, and then the request is the first on a new connection
\* (client.go:48, 103).
EarlyOnlyOnNewConnection ==
    [][\A c \in Callers :
        pc[c] = "pause" /\ pc'[c] = "await" /\ now < lastDone + Pause
        => conn = "closed"]_vars

\* What the documentation says: there is a gap of at least Pause between
\* any two requests (README.md, read_pause_ms: "Min gap between inverter
\* reads").  Reconnect breaks it.
PauseKept ==
    [][\A c \in Callers :
        pc[c] = "pause" /\ pc'[c] = "await" => now >= lastDone + Pause]_vars

\* Once the context is cancelled the reader sends at most one more request:
\* the one it was about to send, or the retry whose backoff ended in the
\* same moment (reader.go:87).
OneRequestAfterCancel == lateSends <= 1

\* Every call returns, whatever the inverter does and whoever else calls.
CallsReturn ==
    \A c \in Callers : pc[c] = "lock" ~> pc[c] = "idle"

===============================================================================
