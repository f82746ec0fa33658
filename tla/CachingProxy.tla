----------------------------- MODULE CachingProxy -----------------------------
(***************************************************************************)
(* The proxy as a whole: the goroutines that serve client connections      *)
(* (server.go), the goroutine that starts up, scans and polls (main.go,    *)
(* reader.go), the register cache they share (cache.go) and the inverter.  *)
(*                                                                         *)
(* What is delicate here: the reader collects a whole cycle in a batch and *)
(* only then flushes it, so a value it has read may be overtaken by a      *)
(* write; a handler updates the cache after it has released the client's   *)
(* mutex; the server runs before the inverter is connected; the cache      *)
(* outlives the process.                                                   *)
(*                                                                         *)
(* A register's value is its version: the number of times the inverter     *)
(* changed it.  Two values compare as older and newer that way.  The       *)
(* client's mutex makes one Modbus exchange atomic; its retries are in     *)
(* module InverterClient.  The single SQLite connection makes one Get, Set *)
(* or BatchSet atomic; module RegisterCache takes them apart.              *)
(***************************************************************************)
EXTENDS Integers, Sequences, Functions

CONSTANTS
    Conns,               \* client connections, one handler goroutine each
    Regs,                \* registers: pairs of a unit ID and an address
    Ranges,              \* the sets of registers a client may ask for
    FastItems,           \* the reads of a fast cycle in order, each the set of
    SlowItems,           \*   registers of one group on one unit; same for slow
    ForwardUnknownReads, \* cfg.ForwardUnknownReads
    ScanPasses,          \* initialScanPasses
    MaxChanges,          \* bound: writes received and changes by the device
    MaxDbErrors,         \* bound: failing cache transactions
    MaxRestarts          \* bound: crashes or shutdowns followed by a restart

ASSUME ProxyAssumption ==
    /\ Ranges \subseteq SUBSET Regs
    /\ FastItems \in Seq(SUBSET Regs)
    /\ SlowItems \in Seq(SUBSET Regs)
    /\ ForwardUnknownReads \in BOOLEAN
    /\ ScanPasses \in Nat \ {0}
    /\ MaxChanges \in Nat
    /\ MaxDbErrors \in Nat
    /\ MaxRestarts \in Nat

VARIABLES
    inv,        \* the version of each register in the inverter
    cache,      \* the version in the cache, or Missing
    expired,    \* cached registers not updated for longer than the TTL
    client,     \* the server has its inverter client (SetInverterClient)
    phase,      \* where the starting and polling goroutine is
    todo,       \* the reads of this pass or cycle still to do
    failed,     \* the reads of this scan pass that failed
    pass,       \* the scan pass
    batch,      \* the pending writes of this pass or cycle
    slowDue,    \* the slow interval has elapsed since lastSlowPoll
    hpc,        \* where each handler is
    req,        \* the registers its request is about
    got,        \* the values its exchange with the inverter left it with
    reply,      \* the last reply on each connection
    changes,    \* counters for the bounds
    dbErrors,
    restarts,
    \* History, read by properties only:
    acked,      \* the newest acknowledged write of each register
    base,       \* inv when the batch was last emptied
    boot        \* inv when the process started

devVars     == <<inv, changes>>
dbVars      == <<cache, expired, dbErrors>>
readerVars  == <<client, phase, todo, failed, pass, batch, slowDue, base>>
handlerVars == <<hpc, req, got, reply, acked>>
bootVars    == <<restarts, boot>>
vars == <<devVars, dbVars, readerVars, handlerVars, bootVars>>

Missing == -1
Version == Nat \cup {Missing}

Phases  == {"dial", "purge", "scan", "fast", "slow", "flush"}
HPCs    == {"idle", "miss", "fill", "write", "store"}
Replies == {"none", "data", "ack", "illegal address", "device failure"}

AllItems == FastItems \o SlowItems
Items    == Range(AllItems)

TypeOK ==
    /\ inv \in [Regs -> Nat]
    /\ cache \in [Regs -> Version]
    /\ expired \subseteq Regs
    /\ client \in BOOLEAN
    /\ phase \in Phases
    /\ todo \in Seq(SUBSET Regs)
    /\ failed \in Seq(SUBSET Regs)
    /\ pass \in 1..ScanPasses
    /\ batch \in [Regs -> Version]
    /\ slowDue \in BOOLEAN
    /\ hpc \in [Conns -> HPCs]
    /\ req \in [Conns -> SUBSET Regs]
    /\ got \in [Conns -> [Regs -> Version]]
    /\ reply \in [Conns -> Replies]
    /\ changes \in Nat
    /\ dbErrors \in Nat
    /\ restarts \in Nat
    /\ acked \in [Regs -> Version]
    /\ base \in [Regs -> Nat]
    /\ boot \in [Regs -> Nat]

Nothing == [r \in Regs |-> Missing]

\* The values of R in the inverter at this moment.
Snapshot(R) == [r \in Regs |-> IF r \in R THEN inv[r] ELSE Missing]

\* new over old, register by register (ON CONFLICT DO UPDATE); faulty: a
\* register that is there already keeps its value (INSERT OR IGNORE).
KeepOld(new, old) == [r \in Regs |-> IF old[r] = Missing THEN new[r] ELSE old[r]]
Over(new, old) == [r \in Regs |-> IF new[r] = Missing THEN old[r] ELSE new[r]]

\* The first start, with the cache file of an earlier installation or none.
Init ==
    /\ inv = [r \in Regs |-> 0]
    /\ \E R \in SUBSET Regs : cache = Snapshot(R)
    /\ expired = {}
    /\ client = FALSE
    /\ phase = "dial"
    /\ todo = <<>>
    /\ failed = <<>>
    /\ pass = 1
    /\ batch = Nothing
    /\ slowDue = FALSE
    /\ hpc = [c \in Conns |-> "idle"]
    /\ req = [c \in Conns |-> {}]
    /\ got = [c \in Conns |-> Nothing]
    /\ reply = [c \in Conns |-> "none"]
    /\ changes = 0
    /\ dbErrors = 0
    /\ restarts = 0
    /\ acked = Nothing
    /\ base = inv
    /\ boot = inv

-------------------------------------------------------------------------------
\* The cache

\* A statement or transaction on the cache fails: logged, nothing changed.
DbError ==
    /\ dbErrors < MaxDbErrors
    /\ dbErrors' = dbErrors + 1
    /\ UNCHANGED <<cache, expired>>

\* Set and BatchSet: one transaction; faulty: it is never committed.
PutNothing(values) == UNCHANGED dbVars
Put(values) ==
    \/ /\ cache' = Over(values, cache)
       /\ expired' = {r \in expired : values[r] = Missing}
       /\ UNCHANGED dbErrors
    \/ values # Nothing /\ DbError

DeleteStale ==
    \/ /\ cache' = [r \in Regs |-> IF r \in expired THEN Missing ELSE cache[r]]
       /\ expired' = {}
       /\ UNCHANGED dbErrors
    \/ DbError

Cached(R) == \A r \in R : cache[r] # Missing

-------------------------------------------------------------------------------
\* Handlers

\* handleReadRegisters: every register of the range is cached.
ReadHit(c, R) ==
    /\ hpc[c] = "idle"
    /\ Cached(R)
    /\ reply' = [reply EXCEPT ![c] = "data"]
    /\ UNCHANGED <<devVars, dbVars, readerVars, hpc, req, got, acked, bootVars>>

\* A register of the range is missing, or Get fails.
ReadMiss(c, R) ==
    /\ hpc[c] = "idle"
    /\ \/ ~Cached(R) /\ UNCHANGED dbVars
       \/ DbError
    /\ hpc' = [hpc EXCEPT ![c] = "miss"]
    /\ req' = [req EXCEPT ![c] = R]
    /\ reply' = [reply EXCEPT ![c] = "none"]
    /\ UNCHANGED <<devVars, readerVars, got, acked, bootVars>>

\* A handler that is done with its request answers it.
Answer(c, kind) ==
    /\ hpc' = [hpc EXCEPT ![c] = "idle"]
    /\ got' = [got EXCEPT ![c] = Nothing]
    /\ req' = [req EXCEPT ![c] = {}]
    /\ reply' = [reply EXCEPT ![c] = kind]

\* s.inverterClient.Load() after the miss: forwarding is off, or no client
\* yet; faulty: wait for the client.
OnlyIfOff    == ~ForwardUnknownReads
NotForwarded == ~(ForwardUnknownReads /\ client)

MissNotForwarded(c) ==
    /\ hpc[c] = "miss"
    /\ NotForwarded
    /\ Answer(c, "illegal address")
    /\ UNCHANGED <<devVars, dbVars, readerVars, acked, bootVars>>

ForwardOk(c) ==
    /\ hpc[c] = "miss"
    /\ ForwardUnknownReads /\ client
    /\ got' = [got EXCEPT ![c] = Snapshot(req[c])]
    /\ hpc' = [hpc EXCEPT ![c] = "fill"]
    /\ UNCHANGED <<devVars, dbVars, readerVars, req, reply, acked, bootVars>>

ForwardErr(c) ==
    /\ hpc[c] = "miss"
    /\ ForwardUnknownReads /\ client
    /\ Answer(c, "device failure")
    /\ UNCHANGED <<devVars, dbVars, readerVars, acked, bootVars>>

\* SetFromBytes, then the response.
Fill(c) ==
    /\ hpc[c] = "fill"
    /\ Put(got[c])
    /\ Answer(c, "data")
    /\ UNCHANGED <<devVars, readerVars, acked, bootVars>>

\* handleWriteSingleRegister and handleWriteMultipleRegisters
RecvWrite(c, R) ==
    /\ hpc[c] = "idle"
    /\ changes < MaxChanges
    /\ changes' = changes + 1
    /\ hpc' = [hpc EXCEPT ![c] = "write"]
    /\ req' = [req EXCEPT ![c] = R]
    /\ reply' = [reply EXCEPT ![c] = "none"]
    /\ UNCHANGED <<inv, dbVars, readerVars, got, acked, bootVars>>

WriteRefused(c) ==
    /\ hpc[c] = "write"
    /\ ~client
    /\ Answer(c, "device failure")
    /\ UNCHANGED <<devVars, dbVars, readerVars, acked, bootVars>>

\* The registers of R get new values in the inverter.
Bump(R) == inv' = [r \in Regs |-> IF r \in R THEN inv[r] + 1 ELSE inv[r]]

\* The write is done; updating the cache is next.
Written(c) ==
    /\ got' = [got EXCEPT ![c] =
                [r \in Regs |-> IF r \in req[c] THEN inv[r] + 1 ELSE Missing]]
    /\ hpc' = [hpc EXCEPT ![c] = "store"]
    /\ UNCHANGED <<req, reply>>

WriteOk(c) ==
    /\ hpc[c] = "write"
    /\ client
    /\ Bump(req[c])
    /\ Written(c)
    /\ UNCHANGED <<changes, dbVars, readerVars, acked, bootVars>>

\* if err != nil; faulty: go on as if the write was done.
ErrorIgnored(c) == Written(c)
WriteFailed(c)  == Answer(c, "device failure")

\* The client reports an error; the inverter may have done the write (only
\* the answer was lost or late) or not.
WriteErr(c) ==
    /\ hpc[c] = "write"
    /\ client
    /\ \E R \in {{}, req[c]} : Bump(R)
    /\ WriteFailed(c)
    /\ UNCHANGED <<changes, dbVars, readerVars, acked, bootVars>>

\* The cache is updated after the client's mutex is released; then the echo.
Store(c) ==
    /\ hpc[c] = "store"
    /\ Put(got[c])
    /\ acked' = [r \in Regs |-> IF got[c][r] > acked[r] THEN got[c][r] ELSE acked[r]]
    /\ Answer(c, "ack")
    /\ UNCHANGED <<devVars, readerVars, bootVars>>

-------------------------------------------------------------------------------
\* Start, scan and polling loop

\* NewInverterClient succeeded and SetInverterClient attached the client.
\* (If it fails the process exits: Restart.)
Connect ==
    /\ phase = "dial"
    /\ client' = TRUE
    /\ phase' = "purge"
    /\ UNCHANGED <<devVars, dbVars, todo, failed, pass, batch, slowDue, base,
                   handlerVars, bootVars>>

\* The batch is empty from here on: `var batch []PendingWrite`; faulty: the
\* variable is declared outside the loop.
KeepBatch(items) == todo' = items /\ base' = inv /\ UNCHANGED batch
FreshBatch(items) ==
    /\ todo' = items
    /\ batch' = Nothing
    /\ base' = inv

Purge ==
    /\ phase = "purge"
    /\ DeleteStale
    /\ phase' = "scan"
    /\ FreshBatch(AllItems)
    /\ UNCHANGED <<devVars, client, failed, pass, slowDue, handlerVars, bootVars>>

\* readGroup returned the registers of the item.
ReadOk(i) ==
    /\ phase \in {"scan", "fast", "slow"}
    /\ todo # <<>>
    /\ Head(todo) = i
    /\ todo' = Tail(todo)
    /\ batch' = Over(Snapshot(i), batch)
    /\ UNCHANGED <<devVars, dbVars, client, phase, failed, pass, slowDue, base,
                   handlerVars, bootVars>>

\* readGroup returned an error: the scan remembers the item for its next
\* pass, the polling loop goes on to the next one.
ReadErr ==
    /\ phase \in {"scan", "fast", "slow"}
    /\ todo # <<>>
    /\ todo' = Tail(todo)
    /\ failed' = IF phase = "scan" THEN Append(failed, Head(todo)) ELSE failed
    /\ UNCHANGED <<devVars, dbVars, client, phase, pass, batch, slowDue, base,
                   handlerVars, bootVars>>

\* pass < initialScanPasses; faulty: one pass too many.
OnePassMore == pass <= ScanPasses
PassesLeft  == pass < ScanPasses

\* pass++; faulty: passes with failures do not count.
SamePass  == pass
CountPass == pass + 1

\* The end of a pass of InitialScan, another one follows.
NextPass ==
    /\ phase = "scan"
    /\ todo = <<>>
    /\ failed # <<>> /\ PassesLeft
    /\ Put(batch)
    /\ FreshBatch(failed)
    /\ failed' = <<>>
    /\ pass' = CountPass
    /\ UNCHANGED <<devVars, client, phase, slowDue, handlerVars, bootVars>>

\* The end of the last pass; Run starts, lastSlowPoll = time.Now().
EndScan ==
    /\ phase = "scan"
    /\ todo = <<>>
    /\ failed = <<>> \/ ~PassesLeft
    /\ Put(batch)
    /\ FreshBatch(FastItems)
    /\ failed' = <<>>
    /\ pass' = 1
    /\ slowDue' = FALSE
    /\ phase' = "fast"
    /\ UNCHANGED <<devVars, client, handlerVars, bootVars>>

StartSlow ==
    /\ phase = "fast"
    /\ todo = <<>>
    /\ slowDue
    /\ todo' = SlowItems
    /\ phase' = "slow"
    /\ UNCHANGED <<devVars, dbVars, client, failed, pass, batch, slowDue, base,
                   handlerVars, bootVars>>

\* lastSlowPoll = time.Now(), then DeleteStale: before this cycle's flush.
EndSlow ==
    /\ phase = "slow"
    /\ todo = <<>>
    /\ slowDue' = FALSE
    /\ DeleteStale
    /\ phase' = "flush"
    /\ UNCHANGED <<devVars, client, todo, failed, pass, batch, base,
                   handlerVars, bootVars>>

\* BatchSet at the end of a cycle, and the next cycle begins.
Flush ==
    /\ \/ phase = "flush"
       \/ phase = "fast" /\ todo = <<>> /\ ~slowDue
    /\ Put(batch)
    /\ FreshBatch(FastItems)
    /\ phase' = "fast"
    /\ UNCHANGED <<devVars, client, failed, pass, slowDue, handlerVars, bootVars>>

-------------------------------------------------------------------------------
\* The world around

SlowIntervalElapses ==
    /\ phase \in {"fast", "flush"}
    /\ ~slowDue
    /\ slowDue' = TRUE
    /\ UNCHANGED <<devVars, dbVars, client, phase, todo, failed, pass, batch,
                   base, handlerVars, bootVars>>

\* The TTL passes without an update of r.
Expire(r) ==
    /\ cache[r] # Missing
    /\ r \notin expired
    /\ expired' = expired \cup {r}
    /\ UNCHANGED <<devVars, cache, dbErrors, readerVars, handlerVars, bootVars>>

\* The inverter changes registers of its own accord.
DeviceChange(R) ==
    /\ changes < MaxChanges
    /\ changes' = changes + 1
    /\ Bump(R)
    /\ UNCHANGED <<dbVars, readerVars, handlerVars, bootVars>>

\* The process ends, at any point, and is started again on the same cache file.
Restart ==
    /\ restarts < MaxRestarts
    /\ restarts' = restarts + 1
    /\ client' = FALSE
    /\ phase' = "dial"
    /\ FreshBatch(<<>>)
    /\ failed' = <<>>
    /\ pass' = 1
    /\ slowDue' = FALSE
    /\ hpc' = [c \in Conns |-> "idle"]
    /\ req' = [c \in Conns |-> {}]
    /\ got' = [c \in Conns |-> Nothing]
    /\ reply' = [c \in Conns |-> "none"]
    /\ boot' = inv
    /\ UNCHANGED <<devVars, dbVars, acked>>

-------------------------------------------------------------------------------

Serve(c) ==
    \/ MissNotForwarded(c) \/ ForwardOk(c) \/ ForwardErr(c) \/ Fill(c)
    \/ WriteRefused(c) \/ WriteOk(c) \/ WriteErr(c) \/ Store(c)

Receive(c, R) == ReadHit(c, R) \/ ReadMiss(c, R) \/ RecvWrite(c, R)

Poll ==
    \/ Purge \/ NextPass \/ EndScan
    \/ ReadErr \/ \E i \in Items : ReadOk(i)
    \/ StartSlow \/ EndSlow \/ Flush

Next ==
    \/ \E c \in Conns : Serve(c)
    \/ \E c \in Conns, R \in Ranges : Receive(c, R)
    \/ Connect \/ Poll
    \/ SlowIntervalElapses \/ Restart
    \/ \E r \in Regs : Expire(r)
    \/ \E R \in Ranges : DeviceChange(R)

Spec == Init /\ [][Next]_vars

\* The goroutines run, the clock runs.  A call of the client ends, one way or
\* the other (CallsReturn in InverterClient).
CodeFairness ==
    /\ WF_vars(Poll)
    /\ WF_vars(SlowIntervalElapses)
    /\ \A c \in Conns : WF_vars(Serve(c))

\* An assumption on the inverter, which the code cannot grant: it accepts
\* connections, and no group that is polled for ever fails for ever.
InverterFairness ==
    /\ WF_vars(Connect)
    /\ \A i \in Items : SF_vars(ReadOk(i))

FairSpec == Spec /\ CodeFairness

-------------------------------------------------------------------------------
\* Properties

\* Nothing is invented: a value in the cache, or on its way there, is one the
\* inverter has or had.  A write that failed in the inverter never shows up in
\* the cache (server.go:184, 224), and a failed read leaves nothing behind.
NothingInvented ==
    \A r \in Regs :
        /\ cache[r] <= inv[r]
        /\ batch[r] <= inv[r]
        /\ \A c \in Conns : got[c][r] <= inv[r]

\* The pending writes are all of this pass or cycle (reader.go:158, 213).
BatchIsOfThisCycle ==
    \A r \in Regs : batch[r] # Missing => batch[r] >= base[r]

\* A flush puts an older value in the place of a newer one only if the newer
\* one came into being after the cycle began: what was written, and
\* acknowledged, before that is never undone (reader.go:213, 272).
FlushUndoesOnlyThisCycle ==
    [][NextPass \/ EndScan \/ Flush =>
        \A r \in Regs : cache'[r] < cache[r] => cache[r] > base[r]]_vars

\* While the initial scan runs, every group is still to be read, or has failed
\* in this pass, or was read since the process started and is in the batch or
\* in the cache: no pass forgets a group, whatever the handlers do to the
\* cache meanwhile (reader.go:156).  Lost transactions excepted.
ScanLosesNoGroup ==
    phase = "scan" /\ dbErrors = 0 =>
        \A i \in Items :
            \/ i \in Range(todo) \cup Range(failed)
            \/ \A r \in i : batch[r] >= boot[r] \/ cache[r] >= boot[r]

\* A register no group polls has only the handlers to keep its cache entry
\* current: when none is at work the entry is not older than the last
\* acknowledged write (server.go:191, 231).  It holds for one connection; two
\* writers can store in the other order than they wrote.
QuietCacheHasLastWrite ==
    (\A c \in Conns : hpc[c] = "idle") /\ dbErrors = 0 =>
        \A r \in Regs \ UNION Items : cache[r] # Missing => cache[r] >= acked[r]

\* A request is answered, by the handler or by the process going down,
\* whatever the inverter does.
RequestsAnswered == \A c \in Conns : hpc[c] # "idle" ~> hpc[c] = "idle"

\* Once the inverter is connected the scan ends and polling begins, unless the
\* process is restarted: no inverter failure keeps it in the scan.
ScanEnds == phase = "purge" ~> phase \in {"fast", "dial"}

\* If the inverter can be reached: when registers stop changing, the cached value of a polled register becomes
\* the inverter's and is never wrong again; if it expires it comes back.  So
\* what a flush undid is repaired by a later cycle.
Converges ==
    InverterFairness =>
        \A r \in UNION Items :
            <>[](cache[r] \in {Missing, inv[r]}) /\ []<>(cache[r] = inv[r])

\* What the documentation says and the code does not do:

\* "Forward to inverter, update cache" (README.md): after the acknowledgement
\* the cache has the written value, or a newer one.
AckedWriteStaysVisible ==
    \A r \in Regs : cache[r] # Missing => cache[r] >= acked[r]

\* Before the client is attached "cache misses and writes return a device
\* failure exception" (server.go:29).
UnconnectedMissIsDeviceFailure ==
    \A c \in Conns : ~client => reply[c] # "illegal address"

===============================================================================
