----------------------------- MODULE ProcessProofs -----------------------------
(***************************************************************************)
(* What TLAPS proves of Process for every set of client connections and    *)
(* every number of scan passes.                                            *)
(*                                                                         *)
(* The argument: the context is never un-cancelled, so what was decided    *)
(* from it stays right; and it is cancelled by two things only, a signal   *)
(* that main has taken and the Modbus server's failure to listen.          *)
(***************************************************************************)
EXTENDS Process, TLAPS

\* The Modbus server is started once, by main, before anything can cancel.
ServerNotBegun == main = "open" => srv = "none" /\ ~ctx

\* Who cancelled.
CancelledBy == ctx => srv = "failed" \/ main \in {"return", "exited"}

\* Polling ends for no other reason than the cancellation.
StoppedByCancel == run = "stopped" => ctx

\* A connection waits for a request only if the context was live when it
\* began to wait, and then it has taken none after the cancellation.
WaitsSinceBefore ==
    \A c \in Conns :
        /\ late[c] # 0 => ctx
        /\ conn[c] = "read" => late[c] = 0

IInv ==
    /\ TypeOK
    /\ ServerNotBegun
    /\ CancelledBy
    /\ StoppedByCancel
    /\ WaitsSinceBefore
    /\ LateRequests

-------------------------------------------------------------------------------
\* Main, the servers and the reader do not touch the connections.

LEMMA MainTypes ==
    ASSUME TypeOK, Main \/ Signal
    PROVE  /\ main' \in {"open", "dial", "scan", "attach", "notify", "wait",
                         "return", "exited"}
           /\ pass' \in 1..ScanPasses
           /\ ctx' \in BOOLEAN /\ sig' \in BOOLEAN
           /\ srv' \in {"none", "starting", "up", "failed", "closed"}
           /\ web' \in {"none", "starting", "up", "failed", "closed"}
           /\ run' \in {"none", "top", "cycle", "read", "send", "stopped"}
           /\ conn' = conn /\ late' = late
<1>1. CASE Open
    BY <1>1 DEF Open, TypeOK
<1>2. CASE Scan
    BY <1>2, ProcessAssumption DEF Scan, MayRescan, TypeOK
<1>3. CASE Dial \/ Attach \/ Notify
    BY <1>3 DEF Dial, Attach, Notify, TypeOK
<1>4. CASE Wait \/ Return
    BY <1>4 DEF Wait, Return, CloseFree, TypeOK
<1>5. CASE Signal
    BY <1>5 DEF Signal, Running, TypeOK
<1> QED BY <1>1, <1>2, <1>3, <1>4, <1>5 DEF Main

LEMMA TypeInit == Init => TypeOK
<1> SUFFICES ASSUME Init PROVE TypeOK
    OBVIOUS
<1>1. pass \in 1..ScanPasses
    BY ProcessAssumption DEF Init
<1>2. ctx \in BOOLEAN /\ sig \in BOOLEAN
    BY DEF Init
<1>3. conn \in [Conns -> {"none", "top", "read", "handle", "send"}]
    BY DEF Init
<1>4. late \in [Conns -> Nat]
    BY DEF Init
<1> QED BY <1>1, <1>2, <1>3, <1>4 DEF Init, TypeOK

LEMMA TypeNext == TypeOK /\ [Next]_vars => TypeOK'
<1> SUFFICES ASSUME TypeOK, [Next]_vars PROVE TypeOK'
    OBVIOUS
<1>1. CASE Main \/ Signal
    BY <1>1, MainTypes DEF TypeOK
<1>2. CASE Listen \/ CloseListener \/ WebListen \/ WebShutdown
    BY <1>2 DEF Listen, CloseListener, WebListen, WebShutdown, WebErrorLogged, TypeOK
<1>3. ASSUME NEW c \in Conns, Accept(c) PROVE TypeOK'
    BY <1>3 DEF Accept, TypeOK
<1>4. ASSUME NEW c \in Conns, Top(c) \/ Handle(c) \/ Reply(c) PROVE TypeOK'
    BY <1>4 DEF Top, Handle, Reply, TypeOK
<1>5. ASSUME NEW c \in Conns, Receive(c) PROVE TypeOK'
    BY <1>5 DEF Receive, TypeOK
<1>6. CASE Run
    BY <1>6 DEF Run, RunTop, RunCycle, RunSend, RunReceive, Goto, AfterTop, TypeOK
<1>7. CASE UNCHANGED vars
    BY <1>7 DEF vars, TypeOK
<1> QED BY <1>1, <1>2, <1>3, <1>4, <1>5, <1>6, <1>7 DEF Next

-------------------------------------------------------------------------------
\* The cancellation

LEMMA CancelNext ==
    TypeOK /\ ServerNotBegun /\ CancelledBy /\ StoppedByCancel /\ [Next]_vars
        => ServerNotBegun' /\ CancelledBy' /\ StoppedByCancel'
<1> SUFFICES ASSUME TypeOK, ServerNotBegun, CancelledBy, StoppedByCancel, [Next]_vars
             PROVE  ServerNotBegun' /\ CancelledBy' /\ StoppedByCancel'
    OBVIOUS
<1> USE DEF ServerNotBegun, CancelledBy, StoppedByCancel
<1>1. CASE Open
    BY <1>1 DEF Open
<1>2. CASE Dial \/ Scan \/ Attach \/ Notify
    BY <1>2 DEF Dial, Scan, Attach, Notify
<1>3. CASE Wait \/ Return
    BY <1>3 DEF Wait, Return
<1>4. CASE Signal
    BY <1>4 DEF Signal, Running, TypeOK
<1>5. CASE Listen \/ CloseListener \/ WebListen \/ WebShutdown
    BY <1>5 DEF Listen, CloseListener, WebListen, WebShutdown, WebErrorLogged
<1>6. ASSUME NEW c \in Conns, Accept(c) \/ Top(c) \/ Receive(c) \/ Handle(c) \/ Reply(c)
      PROVE  ServerNotBegun' /\ CancelledBy' /\ StoppedByCancel'
    BY <1>6 DEF Accept, Top, Receive, Handle, Reply
<1>7. CASE Run
    BY <1>7 DEF Run, RunTop, RunCycle, RunSend, RunReceive, Goto, AfterTop, TypeOK
<1>8. CASE UNCHANGED vars
    BY <1>8 DEF vars
<1> QED BY <1>1, <1>2, <1>3, <1>4, <1>5, <1>6, <1>7, <1>8 DEF Next, Main

\* Once cancelled, always cancelled.
LEMMA CancelStable == TypeOK /\ [Next]_vars => (ctx => ctx')
BY DEF Next, Main, Open, Dial, Scan, Attach, Notify, Wait, Return, Signal, Listen,
       CloseListener, WebListen, WebErrorLogged, WebShutdown, Accept, Top, Receive,
       Handle, Reply, Run, RunTop, RunCycle, RunSend, RunReceive, Goto, vars

-------------------------------------------------------------------------------
\* The connections

LEMMA LateNext ==
    TypeOK /\ WaitsSinceBefore /\ LateRequests /\ [Next]_vars
        => WaitsSinceBefore' /\ LateRequests'
<1> SUFFICES ASSUME TypeOK, WaitsSinceBefore, LateRequests, [Next]_vars
             PROVE  WaitsSinceBefore' /\ LateRequests'
    OBVIOUS
<1> USE DEF WaitsSinceBefore, LateRequests
<1>1. ctx => ctx'
    BY CancelStable
<1>2. ASSUME NEW c \in Conns, Accept(c) PROVE WaitsSinceBefore' /\ LateRequests'
    BY <1>1, <1>2 DEF Accept, TypeOK
<1>3. ASSUME NEW c \in Conns, Top(c) PROVE WaitsSinceBefore' /\ LateRequests'
    BY <1>1, <1>3 DEF Top, Cancelled, TypeOK
<1>4. ASSUME NEW c \in Conns, Receive(c) PROVE WaitsSinceBefore' /\ LateRequests'
    BY <1>1, <1>4 DEF Receive, TypeOK
<1>5. ASSUME NEW c \in Conns, Handle(c) \/ Reply(c) PROVE WaitsSinceBefore' /\ LateRequests'
    BY <1>1, <1>5 DEF Handle, Reply, TypeOK
<1>6. CASE UNCHANGED <<conn, late>>
    BY <1>1, <1>6
<1>7. \/ \E c \in Conns : Accept(c) \/ Top(c) \/ Receive(c) \/ Handle(c) \/ Reply(c)
      \/ UNCHANGED <<conn, late>>
    BY DEF Next, Main, Open, Dial, Scan, Attach, Notify, Wait, Return, Signal, Listen,
           CloseListener, WebListen, WebShutdown, Run, RunTop, RunCycle, RunSend,
           RunReceive, Goto, vars
<1> QED BY <1>2, <1>3, <1>4, <1>5, <1>6, <1>7

-------------------------------------------------------------------------------
\* The theorems

LEMMA IInvInit == Init => IInv
BY TypeInit DEF Init, IInv, ServerNotBegun, CancelledBy, StoppedByCancel,
                WaitsSinceBefore, LateRequests

LEMMA IInvNext == IInv /\ [Next]_vars => IInv'
BY TypeNext, CancelNext, LateNext DEF IInv

\* The invariant holds in every state of every instance.
THEOREM Inductive == Spec => []IInv
<1>1. Init => IInv
    BY IInvInit
<1>2. IInv /\ [Next]_vars => IInv'
    BY IInvNext
<1> QED BY <1>1, <1>2, PTL DEF Spec

\* Type correctness of the process for all values of the constants.
THEOREM TypeCorrect == Spec => []TypeOK
<1>1. IInv => TypeOK
    BY DEF IInv
<1> QED BY <1>1, Inductive, PTL

\* However many clients are connected, each has at most one request served
\* that came after the cancellation (server.go:68).
THEOREM LateBound == Spec => []LateRequests
<1>1. IInv => LateRequests
    BY DEF IInv
<1> QED BY <1>1, Inductive, PTL

\* While main waits for a signal, nothing but the Modbus server's failure to
\* listen has ended polling (main.go:87).
THEOREM PollingEndsFor == Spec => []StoppedOnlyByListenError
<1>1. IInv => StoppedOnlyByListenError
    BY DEF IInv, StoppedByCancel, CancelledBy, StoppedOnlyByListenError
<1> QED BY <1>1, Inductive, PTL

===============================================================================
