# huawei-proxy: TLA+ models, checks and proofs

huawei-proxy keeps the registers of one Huawei inverter in a cache and serves
them to any number of Modbus TCP clients. The inverter accepts a single
connection, answers slowly, and wants pauses between requests; everything that is
delicate in the program follows from that. This directory has TLA+ models of the
program, configurations that check them with TLC, and proofs checked by TLAPS.
`PROJECT.json` relates every definition to the lines it models, and lists runs,
findings, hazards and theorems.

## Inventory of the system

All of it is Go in one package, 2300 lines, without tests.

| component | source | state | operations |
|---|---|---|---|
| inverter client | `client.go` | the TCP connection of goburrow/modbus with its `SlaveId` and transaction id; the mutex `mu`; `lastRead` | `ReadRegisters`, `WriteSingleRegister`, `WriteMultipleRegisters`, `Reconnect`, `Close`; the error predicates |
| reader | `reader.go` | the batch of the pass or cycle, the groups still to read or failed, `lastSlowPoll`, three statistics | `readGroup` (retries), `InitialScan`, `Run`, `Stats` |
| Modbus server | `server.go` | per connection one goroutine with one request; `inverterClient` (atomic pointer) | accept, `handleReadRegisters`, `handleWriteSingleRegister`, `handleWriteMultipleRegisters`, exceptions |
| register cache | `cache.go` | one SQLite table (unit, address) -> (value, updated_at), behind a pool of one connection | `Set`, `SetFromBytes`, `BatchSet`, `Get`, `DeleteStale`, `All`, `Size` |
| start-up and shutdown | `main.go` | the context, the process itself; the cache file outlives it | open, serve, connect, purge, scan, poll, stop |
| configuration | `config.go`, `ha_options.go` | none after loading | load, defaults, validation |
| web page | `web.go` | pointer to the reader | load statistics, cache and metrics; render |
| register definitions | `registers.go` | none | names, scaling, decoding |

Interaction: `main` starts the server *before* it connects to the inverter, so
clients are served from the cache file of the previous run. The reader and all
handlers call the one inverter client, which serialises them with its mutex, and
the one cache, which serialises them with its only database connection. No lock
spans both: a value that was read from, or written to, the inverter travels to the
cache on its own.

What is hard here:

* **late answers**: a request that times out leaves its answer on the way, and
  the next request on the same connection, of whichever goroutine, reads it;
* **shared handler**: `SlaveId` is a field that each call sets;
* **recovery under others**: `Reconnect` closes the connection between the calls
  of other goroutines and resets the time the pause is measured from;
* **order of stores**: the reader flushes a cycle at its end, handlers store
  after the mutex is released; the cache can see another order than the inverter;
* **partial failure**: groups fail, database transactions fail (logged and
  swallowed), writes fail for the client that the inverter has done;
* **lengths**: three lengths of 8 and 16 bits describe one request;
* **time**: values are stamped when a batch is flushed, purged before it is, and
  timestamps are compared as text;
* **a page of several reads**: statistics, cache and metrics are loaded one by one
  while they change, and a metric is two registers that come in answers of
  different moments;
* **starting and stopping**: serving without a client, a scan that must not lose
  a group nor last for ever, a process that ends anywhere.

What makes each component correct:

* client: nobody takes another's answer for its own; late answers are cleaned up
  by whoever retries; the pause is kept; every call ends; a cancelled reader
  stops.
* reader: no pass forgets a group; the scan ends; a flush does not undo what is
  newer; after a disturbance the cache becomes right again.
* server: every request is answered; an acknowledged write is in the cache; what
  failed in the inverter never appears there.
* cache: each operation is atomic, whole or without effect, and gives the
  connection back; what is served is not older than can be said, and what the
  inverter answers does not fall out.
* process: a signal ends it, and nothing but a signal or a Modbus server that
  cannot listen stops it.
* page: its parts fit together and its numbers are the inverter's.

## Modules

| module | what it is |
|---|---|
| `InverterClient` | the client, the connection, `readGroup`, single calls of handlers |
| `InverterClientProofs` | theorems about it; likewise each `...Proofs` below |
| `CachingProxy` | server, scan, polling loop, cache, inverter and restarts together |
| `CachingProxyProofs` | |
| `AtomicCache` | abstract: what the cache promises |
| `RegisterCache` | the cache statement by statement; implements `AtomicCache` |
| `RegisterCacheProofs` | the refinement among them |
| `ModbusFrame` | one client connection in bytes: lengths, counts, slices, reply frames |
| `ModbusFrameProofs` | |
| `PollingClock` | scan and polling loop against the clock, timestamps, purge |
| `PollingClockProofs` | |
| `StatusPage` | a request for the web page against the polling loop and a handler |
| `StatusPageProofs` | |
| `Process` | `main`, both servers, connections, context, signal, exit |
| `ProcessProofs` | |
| `MC...` | small instances for TLC |

The modules meet as follows. `CachingProxy` takes one exchange
with the inverter as one step with an outcome; `InverterClient` shows that the
client gives each caller its own answer (`AcceptsOnlyOwnAnswer`) and that its calls
end (`CallsReturn`), which is what justifies the step and its fairness.
`CachingProxy` takes one cache operation as one step; `RegisterCache` refines
`AtomicCache`, which justifies that, also for `StatusPage`. `CachingProxy` leaves
open what a request looks like and when things happen: `ModbusFrame` and
`PollingClock`. A restart there may come at any moment; when the program itself
stops is in `Process`, which in turn leaves open what each goroutine does.

### InverterClient

One value of `pc[c]` for each place where a goroutine can be overtaken: waiting for
`mu` (`lock`), in `enforcePause` (`pause`), waiting for the answer (`await`), in
`sleepCtx` (`backoff`), waiting for `mu` in `Reconnect` between attempts
(`reconnect`) or after the last one (`giveup`). `Lock` takes the mutex and sets
`SlaveId`; `Send` passes the pause and writes the request; `Receive`, `Timeout`,
`ConnError` and `DialFails` end it (`Finish`: set `lastRead`, unlock, decide what
`readGroup` does, `NextPC`). Read and both writes have the same control and are
one request here. Handlers call once; only `Reader` retries. The connection is two
queues, requests and answers, and one of `up`, `dead`, `closed`. The inverter
answers in order, late, busy, with an exception, or never.

`lastDone` (the time of the last request, which Reconnect does not reset) and
`lateSends` are history for properties; no guard reads them except the clock's,
which stops when it can no longer matter.

### CachingProxy

The value of a register is its *version*, the number of changes in the inverter,
so that stale and fresh are a comparison. `inv` is the inverter, `cache` the
table, `batch` the pending writes. `phase` is where `main`'s goroutine, later
`Run`, is; `todo` and `failed` are the reads of the pass or cycle. A handler
(`hpc`) is idle, has missed the cache, has forwarded a read and not stored it
(`fill`), is about to write, or has written and not stored (`store`). `got` is what
it brings to the cache. `DbError` is the failing statement or transaction, for which
the code logs and goes on. `Restart` ends the process in any state and starts it on
the same cache file; `Expire` is the TTL passing. Time is two facts: an entry has
expired, the slow interval has elapsed.

`acked` (the newest acknowledged write per register), `base` (the inverter when the
batch was emptied) and `boot` (the inverter at process start) are history.

### AtomicCache and RegisterCache

`AtomicCache`: an operation is called, takes effect at one moment, whole or (on an
error) not at all, and returns. `RegisterCache` has the pool of one connection
(`owner`), the transaction's own view (`work`), each upsert, each scanned row, and
every error return; `A!Spec` with `busy <- pc # "idle"` is the refinement. `Set`
and `BatchSet` differ only in the loop around the upserts. `All`, for the web page,
does not ask `rows.Err`: a query that fails half-way returns a part, which
`AtomicCache` therefore allows (of one moment, still).

### ModbusFrame

`st` is what `handleConnection` does next, with `panic` for an index out of range.
A request is a header and the few bytes of the PDU that decide something; a PDU has
`header.length - 1` bytes, in 16 bits (`PduLen`), and each `pdu[i:j]` of the code, the
`pdu[0]` of `handleConnection` included, is a check of `Slice` after the code's own
check. The end of the data is computed in 8 bits (`DataEnd`), as is
the byte count of a reply (`SendRead`). A reply keeps both the length it announces
and the bytes that follow. What the cache and the inverter say is left open, except
that goburrow writes 1 to 123 registers (`Writable`).

### PollingClock

The same loop as in `CachingProxy` with `now`: a group is its registers on a unit, its
entry is when its value was stamped (`stamp`) and, for properties, read (`read`).
`TextLess` is `updated_at < ?` on RFC3339Nano texts, which drop trailing zeros:
`FractionRank` is the place of a fraction in the order of texts, in a number system
of two digits per second to the base `Base`. Time passes only in a phase, at most
`MaxScan`, `MaxFast`, `MaxSlow` in each. These bounds are an assumption: the code has
none of its own, but time-outs, attempts and groups are finite. Failing
transactions are left to `CachingProxy`. There is one clock; it does not jump.

### StatusPage

The reader is `main`'s goroutine and then `Run`'s: `Purge`; the passes of the scan
(`ReadGroup`, `EndPass`), the groups that failed once more in the next; `Attach`
(`SetReader`); then cycles of `RunTop`, the fast groups, perhaps the slow ones
(`RunSlow`, `RunClean`), `RunFlush` and one `RunPublish` per statistic, in the code's
order `StoreOrder`. Each group is read in a step of its own and succeeds or fails:
`ReadOk` puts into `batch` what the inverter has *at that moment*, and `BatchSet` stores
what the batch has of each register. Where groups overlap the later one counts.

The handler goes the way of the code: it misses a register (`Miss`), asks the inverter
(`Answer`), and stores the whole range (`Fill`), whatever has come into the cache or
gone since. `Written` is the same for a write. `inv` is the metric's value in the
inverter, `Registers` what its registers then hold, two words of it for the metric.

The page's request is `PageBegin`, the three loads of `Stats`, `LoadTable` (`All`),
`LoadMetric` (`Get` of one metric, decoded as `RegI32`). `Section` is the group a
register is shown under, with the end of a range in 16 bits. One unit, one metric;
registers of units that the configuration does not name are counted but not shown,
and the HTML is left out.

History, which no guard reads: `had` are the values the metric had; `halved`, that a
handler stored one of its registers and nobody both of them since; `ended`, how many
cycles were counted while the page loaded the statistics.

### Process

`main` is where `main` is; `srv`, `web`, `run` and `conn` are the goroutines. `Listen` and
`WebListen` may fail, `Open` and `Dial` may end the process, `Signal` may come at any
time: before `Notify` it ends the process at once, after it `main` reads it, cancels
and returns. The deferred `Close` of the client waits for a request that is being
sent (`CloseFree`: goburrow's transporter has its own mutex). Nothing waits for
handlers or for the web server's graceful shutdown, so a page or a reply may be
cut off; that is the code's choice.

## Runs

`tlc -config X.cfg M` in this directory; times are with two workers.

| run | cfg | what is asked | result |
|---|---|---|---|
| `client` | `MCInverterClient.cfg` | foreign answers, late answers of the reader, connection back in step, pause, cancellation; every call returns | holds, 0.3 M states, 130 s |
| `client_pause` | `MCInverterClientPause.cfg` | a gap between *any* two requests, as documented | violated (finding 1) |
| `proxy_safety` | `MCCachingProxy.cfg` | nothing invented, what a flush may undo, no group lost by the scan, entries nobody polls | holds, 2.3 M states, 95 s |
| `proxy_liveness` | `MCCachingProxyLive.cfg` | requests are answered, the scan ends; the polled part of the cache becomes right, also after a lost transaction | holds, 70 s |
| `proxy_acked_write` | `MCCachingProxyAck.cfg` | an acknowledged write stays visible | violated (finding 2) |
| `proxy_two_writers` | `MCCachingProxyWriters.cfg` | the same for registers nobody polls, two connections | violated (finding 3) |
| `proxy_unconnected` | `MCCachingProxyMiss.cfg` | a miss without a client is a device failure | violated (finding 4) |
| `cache_atomic` | `MCRegisterCache.cfg` | refinement of `AtomicCache`, every operation ends | holds, 80 s |
| `frames` | `MCModbusFrame.cfg` | no slice out of range, replies framed right, acknowledged as stored, conforming requests neither closed for their header nor refused for their counts | holds, 0.1 M states, 40 s |
| `polling` | `MCPollingClock.cfg` | age of what is served, slow groups tried again, nothing answered falls out, purge exact to the second | holds, 3.6 M states, 60 s |
| `page` | `MCStatusPage.cfg` | how far apart the statistics can be, metrics that are numbers of the inverter, registers in their section | holds, 2.4 M states, 80 s |
| `process` | `MCProcess.cfg` | a signal ends the process, a cancellation stops all, requests after it, what stops polling | holds, 23 k states, 6 s |

Bounds, and why they are enough:

* *Callers, connections.* The reader and one handler in the client (all waiters
  are alike for the mutex; what differs is who retries), the reader and one
  connection in the proxy, two where the order of two handlers is the question.
* *Units.* Two where a wrong `SlaveId` is the question, else one.
* `MaxCalls` (client): 2 calls of up to 3 attempts each, so a request can come
  after another caller's time-out, after a whole failed `readGroup`, and between
  its attempts; all safety properties are proved for any number.
  `MaxRetries` is the code's 3. `Pause` is 1 tick: only "before" and "after" the gap
  exist.
* *Groups and registers.* One fast and one slow group of one register each, one
  register nobody polls; a client asks for the two polled ones at once or for the
  other. A group as a whole is read, and stored, in one step, so a second register
  in it would behave like the first.
* `ScanPasses` is 2 in the passing runs (the code's is 3): first and last pass
  exist, and a pass between them is like the first. The violated runs use 3.
* `MaxChanges` 1 or 2 (writes received plus changes by the device), `MaxDbErrors`
  0 or 1, `MaxRestarts` 0 or 1: one disturbance and one more to interfere with it.
  Counting them keeps the versions, and so the states, finite. Database errors and
  restarts are not combined.
* *Cache.* Two callers, two keys, two values; stores of both keys and of one key
  twice in one batch (overlapping groups); reads of one and of both.

* *Frames.* Real 8 and 16 bit numbers, but only the values at the limits of the
  code's checks and of the protocol, and those next to them.
* *Clock.* A slow interval of 2, phases of at most 1 and seconds of 4 ticks, so
  that the interval and a second end at different moments; a TTL of 9, the least
  for which `AnsweringGroupStays` promises anything. 22 ticks hold an interval after
  the TTL of the values read last, and a restart.
* *Page.* Three registers of one bit, two of them the metric, so it has a sign and
  two halves and its second half can be asked for together with another register.
  A fast group that is the metric and a slow one that has it too and ends with the
  address space: the same registers come from two answers in one batch, or from one
  when the other fails. Two passes, so that a failed group is read later than the
  others; two polling cycles, the fewest in which each statistic can be ahead, and
  in which two can be counted under one page.
* *Process.* Two connections; the code's three scan passes. No counter needs a bound.

No run uses symmetry: most check liveness too. The runs of the client, the frames,
the clock, the page and the process do not check for deadlock, because there the
behaviour may really stop: `MaxCalls`, `MaxTime` or `MaxCycles` is used up, a
connection is closed, the process ends. The runs of the proxy and of the cache
check it.

## Fairness

* `InverterClient`: sleeps end, deadlines fire, the clock runs (weak fairness of
  `Step` and `Tick`), and `sync.Mutex` starves nobody (strong fairness of `Lock`
  and `Reconnect`: its starvation mode hands the mutex to the oldest waiter).
  Nothing is assumed of the inverter or the network. The configured timeout is
  assumed positive: goburrow takes zero as no deadline.
* `CachingProxy`, `CodeFairness`: the goroutines run, calls end one way or the
  other, the slow interval elapses. Under this alone requests are answered and the
  scan ends.
* `CachingProxy`, `InverterFairness`: for `Converges` only, an assumption on the
  inverter: it accepts the connection, and a group that is read again and again is
  eventually read with success.
* `RegisterCache`: statements end, and the pool serves its waiters in order
  (database/sql queues requests), so strong fairness of getting the connection.

* `Process`: every goroutine that can go on does, a request to the inverter ends.
  Clients send what and when they like, or never, and no signal need come.

`ModbusFrame`, `PollingClock` and `StatusPage` have safety properties only.

## Proofs

`tlapm` proves every invariant and every safety action property of the passing runs,
and the refinement of `AtomicCache`, for all values of the constants that satisfy the
modules' assumptions. TLC finds each inductive invariant below true on the small
instance of its module as well.

| module | theorems (the property, where its name differs) | for all |
|---|---|---|
| `InverterClientProofs` | `OwnAnswers` (`AcceptsOnlyOwnAnswer`), `NothingLeftBehind` (`ReaderLeavesNoLateAnswer`), `BackInStep` (`OwnAnswerRestoresStep`), `CancelBound` (`OneRequestAfterCancel`), `EarlySends` (`EarlyOnlyOnNewConnection`) | callers, units, calls, attempts, pauses |
| `CachingProxyProofs` | `Real` (`NothingInvented`), `BatchCurrent` (`BatchIsOfThisCycle`), `FlushBounded` (`FlushUndoesOnlyThisCycle`), `ScanComplete` (`ScanLosesNoGroup`), `LastWriteStays` (`QuietCacheHasLastWrite`) | connections (the last: at most one), registers, groups, overlapping or not, passes, errors, restarts |
| `RegisterCacheProofs` | `InProgress` (`ProgressFitsTable`), `Refinement` (`Atomic`) | callers, keys, values, batches |
| `ModbusFrameProofs` | `IndicesInRange` (`NoPanic`), `RepliesFramed` (`ReplyFramed`), `AcksStored` (`AckedAsStored`), `ConformingServed` (`ConformingAccepted`) | values of every field within its 8 or 16 bits |
| `PollingClockProofs` | `AgeBound` (`ServedAge`), `TriedAgain` (`SlowGroupsTried`), `AnsweringStays` (`AnsweringGroupStays`), `PurgeRight` (`PurgeExact`) | groups, intervals, TTLs, bounds on phases, precisions of a timestamp |
| `StatusPageProofs` | `StatsFitTogether` (`StatsFit`), `MetricRight` (`MetricIsOneAnswer`), `SectionRight` (`ShownInPlace`) | address spaces, even word sizes, groups, overlapping or not, passes, cycles |
| `ProcessProofs` | `LateBound` (`LateRequests`), `PollingEndsFor` (`StoppedOnlyByListenError`) | connections, passes |

Each module also has `TypeCorrect` and `Inductive`: `IInv`, the inductive invariant, is in
every reachable state, and the theorems above are corollaries of it or of one step
from it.

**Assumptions.** They are the named `ASSUME`s of the modules, which TLC evaluates in
the runs. Those that are not only types: fast and slow groups are disjoint and
timestamps have at least base 2 (`ClockAssumption`); the values of the message fields
fit their width (`FrameAssumption`, the types of the Go fields); a metric's second
register is in the address space, a word is even, and a power fits the signed
number of two words (`PageAssumption`, as a `RegI32` does). That no group ends between
the two registers of the metric (`GroupsKeepMetric`) is not assumed but a condition in
`MetricIsOneAnswer`, which says less where it is false.

**The client.** `AcceptsOnlyOwnAnswer` is not inductive: that a frame with the last
transaction id is the caller's own needs that the caller holds the mutex
(`MutexHeld`), that `SlaveId` is the holder's unit (`UnitOfHolder`), and that no frame
has an id that is still to come (`IdsSent`); `AttemptsLeft` gives the type of
`attempt`. `BackInStep` needs that the frames on the connection are in the order of
their ids, answers before requests (`InOrder`): the answer with the last id is then
the last of all. From it `NothingLeftBehind` follows for a call that succeeded; one that
used up its attempts ends with a Reconnect, which empties the connection. The other
two need what `lastRead` says (`LastReadKnown`: zero only while the connection is
closed, before the first request, or during the request that follows) and what a
cancelled reader may still do (`CancelHeeded`). The transaction id is a natural number
here; on the wire it has 16 bits, and a late answer would have to be 65536 requests
old to be mistaken.

**The proxy.** `BatchIsOfThisCycle` rests on the inverter's versions only growing and
on `BaseKnown` (`base` is not ahead of the inverter); `NothingInvented` on the values on
their way (`batch`, `got`) being versions the inverter had, since one step puts them
there from `inv` and no other changes them. `FlushBounded` then compares batch, base
and cache in the step of a flush. `ScanLosesNoGroup` needs that nothing on its way to
the cache is older than the process (`SinceBoot`), so that a handler which fills the
cache during the scan cannot put back what an earlier run left there. With one
connection more holds than the run asks for: nobody else acknowledges between a
handler's write and its store (`GotIsLast`), so a register nobody polls never has less
than the last acknowledged write, also while the handler is at work
(`UnpolledIsLast`). The hypothesis is needed: `proxy_two_writers` refutes it for two.
The lemmas `GotStep`, `BatchStep`, `CacheStep`, `AckedStep` and `InvGrows` say once what
any step does to one variable.

**The cache.** Whoever has the connection, or finds it free, is alone (`OwnerIsBusy`),
so the table does not change under a transaction or a cursor. `RowsFit` says that the
rows still to be upserted, applied to the transaction's view, give what the whole
batch gives on the table: each upsert takes one row from the front
(`AfterHead`), and at the commit none is left. `FoundFits` says the same of a scan. The
steps then map: `Begin`, upserts and scanned rows to stutters, a commit, the end of a
read, or an error to the effect and return of `AtomicCache`.

**The frames.** `LengthAccepted` (the length in the header was checked before the PDU is
read) is what bounds every later index; the 8-bit sum `DataEnd` cannot wrap since
the length was compared without wrapping before. `ConformingServed` speaks of both
places where a request can be turned away: its header is not closed on, and its
handler does not answer that the function or the values are illegal.

**The clock.** `TextOrder` is the heart of it: of two RFC3339Nano texts the seconds are
in order, and a fraction can be misplaced within one second only. `Timing` bounds a
phase and the time since the last slow poll, `LeftByPurge` says how old the last purge
left what is there, `StampedSoon` and `BatchIsFresh` how long after its reading a value
is stamped, `TriedInPhase` what was tried when, and `SteadyIsKept` what an answering group
has in the batch or in the cache. The attempt to prove `AnsweringGroupStays` corrected
it: with the hypothesis it had first (a TTL above the slow interval and one phase of
each kind) it is false when the scan lasts long, because the passes of the scan stamp
what they read before the scan ends and the first slow poll comes a whole interval
after that; TLC then found that behaviour with `MaxScan = 4`. The hypothesis is now that
the TTL is at least `PurgeGap`, which counts the scan, and a second.

**The page.** `StatsStored` and `StatsLoaded` follow the order of the three stores and
loads. Both directions are bounded: the time on a page is not ahead of the count, and
behind it by one cycle and those counted since it was loaded (`ended`), and likewise
count and duration. `StatsFit` once said "the same cycle or its neighbour", which is
false when cycles end between two loads. `MetricKnown` follows the two words of the
metric: in the handler, in the batch and in the cache each is a word of a number the
inverter had (`Halves`), and if no group splits the metric, the batch has both of one
number or neither, and so has the cache as long as `halved` is false (`Whole`), or it
has one of them only, which is a miss. `RoundTrip` then gives the number back from
its two words, with its sign. `ShownInPlace` needs beside the types only the
arithmetic of a range's end (`RangeIs`, `SectionIs`).

**The process.** The context is cancelled by two things only (`CancelledBy`), polling ends
for nothing else (`StoppedByCancel`), and a connection waits for a request only if it
began to wait before the cancellation (`WaitsSinceBefore`).

Only model-checked: liveness (`CallsReturn`, `RequestsAnswered`, `ScanEnds`, `Converges`,
`OpsEnd`, `SignalEnds`, `CancelStopsAll`), which is out of the prover's reach, and the four
violated properties, whose counterexamples are TLC's. In `RegisterCache` and `AtomicCache`
what a sequence of upserts does is stated without recursion (`After`: the last row for a
key counts), so it could be proved about.

## Findings

1. *The pause is not kept after a Reconnect* (`client.go:103`). `read_pause_ms` is
   documented as the minimal gap between inverter reads; `Reconnect` sets `lastRead`
   to zero, so a handler that waited meanwhile sends at once. What does hold, for
   all instances: only the first request on a new connection is early.
2. *A flush undoes an acknowledged write* (`reader.go:272`). The group is read, then
   written by a client and acknowledged, then the batch with the old value is
   flushed; reads return the old value until the next successful read of the group,
   for a slow group up to the slow interval. A scan pass flushes in the same way
   (`reader.go:178`). What does hold: nothing is undone that
   was in the cache when the cycle began, and the next good cycle repairs it.
3. *Two connections leave an old value in the cache* (`server.go:191`). Handlers
   store after the mutex is released, in any order. For a register no group polls
   the old value stays until it expires. What does hold: one connection alone, with
   a cache that reports no error, leaves its last write.
4. *A miss without a client is answered "illegal data address"* (`server.go:162`),
   against the comment of `SetInverterClient`, which says device failure.

Smaller things seen while modelling, without a run of their own: reads are served
before the scan (`main.go:84`), against the comment of `InitialScan` but as a comment
in `main.go` says; a forwarded read of one register of a 32-bit value stores half of a
newer one (`server.go:156`), and the page and every client then read a number the
inverter never had, until both are stored together (`MetricIsOneAnswer` says what holds
meanwhile); `web.go` shuts
down gracefully, but `main` returns without waiting for it; a Modbus server that
cannot listen leaves a process that does nothing and waits for a signal
(`main.go:87`).

## Not modelled

* Configuration (`config.go`, `ha_options.go`): one pass of parsing, defaults and
  checks before anything else runs. It does not check that the timeout is positive,
  that the TTL exceeds the slow interval (`AnsweringGroupStays` needs that it does, by
  the longest scan and cycle and a second), that groups
  do not overlap, split a 32-bit value or end with the address space, or, in `ha_options.go`, that unit IDs
  differ; the models' assumptions say where each matters.
* Of `registers.go` only the decoding of a `RegI32`: the rest is a table, strings and
  scaling. Of `web.go` not the HTML.
* `Size`: a number in log lines.
* Steps of the wall clock, and loops without delay (`Run` without a pause, `Accept` with
  an error that stays): they change no state of the models.
* A power loss. SQLite runs with `journal_mode=WAL`; the models lose the process,
  not the operating system, so a committed transaction survives.
* A frame that is cut in two by a deadline. (The library does not close idle
  connections: `IdleTimeout` is 0.)
* `cache.Close` before a handler's last `Set`: like a failing transaction
  (`DbError`).
* Cancelling a `readGroup` during its backoff skips the Reconnect; the late answer it
  leaves then is excluded from `ReaderLeavesNoLateAnswer`, since only a process on
  its way out cancels.

## Plan

Done: all modules above, their runs, and a theorem for each safety property of the
passing runs. Left:

1. The safety half of the liveness properties: measures that each step of a scan, of
   a cache operation and of a shutdown decreases, so that only fairness is left to
   TLC.
2. That the transaction id in 16 bits is enough as long as fewer than 65536
   requests are outstanding.
3. An abstract specification of the proxy (a store of versions with lagging reads)
   and the proof that `CachingProxy` implements it.
