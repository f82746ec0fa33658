------------------------------- MODULE Process -------------------------------
(***************************************************************************)
(* The life of the process (main.go) and its goroutines: the Modbus server *)
(* with its connections (server.go), the web server (web.go), the initial  *)
(* scan and the polling loop (reader.go).                                  *)
(*                                                                         *)
(* What is delicate here: one context is the only thing the goroutines     *)
(* share about stopping.  The signal cancels it, and so does a Modbus      *)
(* server that cannot listen, for which nobody waits.                      *)
(*                                                                         *)
(* What a request, a pass of the scan, a cycle and the page do with the    *)
(* cache and the inverter is in the other modules; here they only take     *)
(* their time.  The deferred inverterClient.Close and cache.Close are one  *)
(* step with the exit.  A request to the inverter is one step that holds   *)
(* the transporter's mutex, with its retries: module InverterClient.       *)
(***************************************************************************)
EXTENDS Integers

CONSTANTS
    Conns,      \* client connections
    ScanPasses  \* initialScanPasses

ASSUME ProcessAssumption == ScanPasses \in Nat \ {0}

VARIABLES
    main,   \* what main does next
    pass,   \* pass of the initial scan
    ctx,    \* the context is cancelled
    sig,    \* a signal is in sigCh
    srv,    \* the Modbus server
    web,    \* the web server; "none": it is not configured
    run,    \* Reader.Run
    conn,   \* handleConnection of each client
    late    \* history: requests a connection took after the cancellation

vars == <<main, pass, ctx, sig, srv, web, run, conn, late>>

TypeOK ==
    /\ main \in {"open", "dial", "scan", "attach", "notify", "wait",
                 "return", "exited"}
    /\ pass \in 1..ScanPasses
    /\ ctx \in BOOLEAN /\ sig \in BOOLEAN
    /\ srv \in {"none", "starting", "up", "failed", "closed"}
    /\ web \in {"none", "starting", "up", "failed", "closed"}
    /\ run \in {"none", "top", "cycle", "read", "send", "stopped"}
    /\ conn \in [Conns -> {"none", "top", "read", "handle", "send"}]
    /\ late \in [Conns -> Nat]

Init ==
    /\ main = "open"
    /\ pass = 1
    /\ ctx = FALSE /\ sig = FALSE
    /\ srv = "none" /\ web = "none"
    /\ run = "none"
    /\ conn = [c \in Conns |-> "none"]
    /\ late = [c \in Conns |-> 0]

Running == main # "exited"

-------------------------------------------------------------------------------
\* main

\* NewRegisterCache; then the two servers' goroutines.
Open ==
    /\ main = "open"
    /\ \/ main' = "exited" /\ UNCHANGED <<srv, web>>
       \/ main' = "dial" /\ srv' = "starting" /\ web' \in {"none", "starting"}
    /\ UNCHANGED <<pass, ctx, sig, run, conn, late>>

\* NewInverterClient; SetInverterClient, DeleteStale.
Dial ==
    /\ main = "dial"
    /\ main' \in {"exited", "scan"}
    /\ UNCHANGED <<pass, ctx, sig, srv, web, run, conn, late>>

\* pass <= initialScanPasses after pass++; faulty: before.
MayRescanOnceMore == pass <= ScanPasses
MayRescan         == pass < ScanPasses

\* A pass of InitialScan, whose error is always nil: the context stops it
\* only within readGroup.
Scan ==
    /\ main = "scan"
    /\ \/ MayRescan /\ pass' = pass + 1 /\ UNCHANGED main
       \/ main' = "attach" /\ UNCHANGED pass
    /\ UNCHANGED <<ctx, sig, srv, web, run, conn, late>>

\* SetReader; go reader.Run.
Attach ==
    /\ main = "attach"
    /\ main' = "notify"
    /\ run' = "top"
    /\ UNCHANGED <<pass, ctx, sig, srv, web, conn, late>>

Notify ==
    /\ main = "notify"
    /\ main' = "wait"
    /\ UNCHANGED <<pass, ctx, sig, srv, web, run, conn, late>>

Wait ==
    /\ main = "wait" /\ sig
    /\ main' = "return"
    /\ ctx' = TRUE
    /\ UNCHANGED <<pass, sig, srv, web, run, conn, late>>

\* inverterClient.Close waits for the request that is being sent, by the
\* transporter's mutex; faulty: for the connections' handlers to end.
HandlersGone == \A c \in Conns : conn[c] = "none"
NoneSends    == run # "send" /\ \A c \in Conns : conn[c] # "send"
CloseFree    == NoneSends

\* The deferred calls, and the end of the process.
Return ==
    /\ main = "return" /\ CloseFree
    /\ main' = "exited"
    /\ UNCHANGED <<pass, ctx, sig, srv, web, run, conn, late>>

Main == Open \/ Dial \/ Scan \/ Attach \/ Notify \/ Wait \/ Return

\* SIGINT or SIGTERM: before Notify it ends the process.
Signal ==
    /\ Running
    /\ IF main \in {"wait", "return"}
       THEN sig' = TRUE /\ UNCHANGED main
       ELSE main' = "exited" /\ UNCHANGED sig
    /\ UNCHANGED <<pass, ctx, srv, web, run, conn, late>>

-------------------------------------------------------------------------------
\* The servers

\* net.Listen; main's goroutine cancels on its error.
Listen ==
    /\ Running /\ srv = "starting"
    /\ \/ srv' = "up" /\ UNCHANGED ctx
       \/ srv' = "failed" /\ ctx' = TRUE
    /\ UNCHANGED <<main, pass, sig, web, run, conn, late>>

\* <-ctx.Done(); listener.Close(): Accept fails and the loop returns.
CloseListener ==
    /\ Running /\ srv = "up" /\ ctx
    /\ srv' = "closed"
    /\ UNCHANGED <<main, pass, ctx, sig, web, run, conn, late>>

\* The web server's error is only logged; faulty: it cancels as the other's.
WebErrorCancels == ctx' = TRUE
WebErrorLogged  == UNCHANGED ctx

WebListen ==
    /\ Running /\ web = "starting"
    /\ \/ web' = "up" /\ UNCHANGED ctx
       \/ web' = "failed" /\ WebErrorLogged
    /\ UNCHANGED <<main, pass, sig, srv, run, conn, late>>

\* <-ctx.Done(); srv.Shutdown: no new requests; those begun go on.
WebShutdown ==
    /\ Running /\ web \in {"starting", "up"} /\ ctx
    /\ web' = "closed"
    /\ UNCHANGED <<main, pass, ctx, sig, srv, run, conn, late>>

-------------------------------------------------------------------------------
\* The connections

Accept(c) ==
    /\ Running /\ srv = "up" /\ conn[c] = "none"
    /\ conn' = [conn EXCEPT ![c] = "top"]
    /\ late' = [late EXCEPT ![c] = 0]
    /\ UNCHANGED <<main, pass, ctx, sig, srv, web, run>>

\* if ctx.Err() != nil at the top of the loop; faulty: not asked.
NotAsked  == FALSE
Cancelled == ctx

Top(c) ==
    /\ Running /\ conn[c] = "top"
    /\ conn' = [conn EXCEPT ![c] = IF Cancelled THEN "none" ELSE "read"]
    /\ UNCHANGED <<main, pass, ctx, sig, srv, web, run, late>>

\* io.ReadFull: a request, or the end of the connection.  No deadline.
Receive(c) ==
    /\ Running /\ conn[c] = "read"
    /\ \/ /\ conn' = [conn EXCEPT ![c] = "handle"]
          /\ late' = [late EXCEPT ![c] = IF ctx THEN @ + 1 ELSE @]
       \/ conn' = [conn EXCEPT ![c] = "none"] /\ UNCHANGED late
    /\ UNCHANGED <<main, pass, ctx, sig, srv, web, run>>

\* The handler: it replies at once, or sends a request to the inverter, for
\* which it needs the client and the transporter's mutex.
Handle(c) ==
    /\ Running /\ conn[c] = "handle"
    /\ \/ conn' = [conn EXCEPT ![c] = "top"]
       \/ main # "dial" /\ NoneSends /\ conn' = [conn EXCEPT ![c] = "send"]
    /\ UNCHANGED <<main, pass, ctx, sig, srv, web, run, late>>

Reply(c) ==
    /\ Running /\ conn[c] = "send"
    /\ conn' = [conn EXCEPT ![c] = "top"]
    /\ UNCHANGED <<main, pass, ctx, sig, srv, web, run, late>>

-------------------------------------------------------------------------------
\* Reader.Run

Goto(pc) ==
    /\ run' = pc
    /\ UNCHANGED <<main, pass, ctx, sig, srv, web, conn, late>>

\* if ctx.Err() != nil at the top of the loop; faulty: not asked.
AnotherCycle == "cycle"
AfterTop     == IF ctx THEN "stopped" ELSE "cycle"

RunTop ==
    /\ Running /\ run = "top"
    /\ Goto(AfterTop)

\* Before each group: the context ends the cycle.  After the last: the flush.
RunCycle ==
    /\ Running /\ run = "cycle"
    /\ \/ Goto(IF ctx THEN "stopped" ELSE "read")
       \/ Goto("top")

\* readGroup
RunSend ==
    /\ Running /\ run = "read" /\ NoneSends
    /\ Goto("send")

RunReceive ==
    /\ Running /\ run = "send"
    /\ Goto("cycle")

Run == RunTop \/ RunCycle \/ RunSend \/ RunReceive

-------------------------------------------------------------------------------

Next ==
    \/ Main \/ Signal
    \/ Listen \/ CloseListener \/ WebListen \/ WebShutdown
    \/ \E c \in Conns : Accept(c) \/ Top(c) \/ Receive(c) \/ Handle(c) \/ Reply(c)
    \/ Run

Spec == Init /\ [][Next]_vars

\* Every goroutine that can go on does; nothing makes a client send a request
\* or a signal arrive.  A request to the inverter ends: module InverterClient.
FairSpec ==
    /\ Spec
    /\ WF_vars(Main) /\ WF_vars(Listen) /\ WF_vars(CloseListener)
    /\ WF_vars(WebListen) /\ WF_vars(WebShutdown) /\ WF_vars(Run)
    /\ \A c \in Conns : WF_vars(Top(c)) /\ WF_vars(Handle(c)) /\ WF_vars(Reply(c))

-------------------------------------------------------------------------------
\* Properties

\* A connection that waits for a request when the context is cancelled still
\* serves one, and never a second (server.go:68).
LateRequests == \A c \in Conns : late[c] <= 1

\* While main waits for a signal, polling goes on, unless the Modbus server
\* could not listen (main.go:87): a web server that fails, or a client's
\* connection, does not stop it.
StoppedOnlyByListenError == main = "wait" /\ run = "stopped" => srv = "failed"

\* A signal ends the process, whatever the connections, the page or the
\* inverter are waiting for (main.go:124).
SignalEnds == sig ~> main = "exited"

\* The end of the context ends polling and both servers, also where main does
\* not end (main.go:87).
Stopped == run = "stopped" /\ srv \notin {"starting", "up"} /\ web \notin {"starting", "up"}
CancelStopsAll == ctx ~> main = "exited" \/ Stopped

===============================================================================
