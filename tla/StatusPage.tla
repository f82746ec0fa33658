------------------------------ MODULE StatusPage ------------------------------
(***************************************************************************)
(* The status page (web.go, registers.go): one request for it against the  *)
(* reader, which reads group after group, flushes what it read and         *)
(* publishes the statistics of its cycles (reader.go), and a handler that  *)
(* stores what it forwarded (server.go).                                   *)
(*                                                                         *)
(* What is delicate here: nothing is taken as a whole.  The page loads     *)
(* three statistics one by one while they are stored one by one, then the  *)
(* whole cache, then each metric in a query of its own; and a metric is a  *)
(* number of two registers, which reader and handler read and store each   *)
(* in its own ranges and at its own time.                                  *)
(*                                                                         *)
(* One unit and one metric of two registers stand for all; the contents of *)
(* other registers play no part and are 0.  A cycle's time and duration    *)
(* are the number of that cycle.  Failing transactions: modules            *)
(* RegisterCache and CachingProxy.                                         *)
(***************************************************************************)
EXTENDS Integers, Sequences

CONSTANTS
    AddressSpace, \* 2^16 in the code: addresses are uint16
    WordSize,     \* 2^16 in the code: values of a register
    Groups,       \* cfg.RegisterGroups: sequence of [address, count, poll]
    Metric,       \* the first of the two registers of a RegI32 metric
    Powers,       \* values it takes in the inverter
    ScanPasses,   \* initialScanPasses
    MaxCount,     \* bound: registers of a client's request
    MaxCycles     \* bound: polling cycles

Address == 0..(AddressSpace - 1)
Missing == -1
Cell    == (0..(WordSize - 1)) \cup {Missing}

ASSUME PageAssumption ==
    /\ AddressSpace \in Nat \ {0} /\ WordSize \in Nat \ {0}
    /\ WordSize % 2 = 0
    /\ ScanPasses \in Nat \ {0} /\ MaxCount \in Nat /\ MaxCycles \in Nat
    /\ Groups \in Seq([address : Address, count : Nat, poll : {"fast", "slow"}])
    /\ Metric \in Address /\ Metric + 1 \in Address
    /\ Powers \subseteq Int /\ 0 \in Powers
    /\ \A v \in Powers : -WordSize * WordSize <= 2 * v /\ 2 * v < WordSize * WordSize

VARIABLES
    cells,     \* the cache: the value of each register, or Missing
    inv,       \* the metric in the inverter
    attached,  \* the page has the reader (SetReader)
    run,       \* the reader: where main, then Run, is
    pass,      \* pass of InitialScan
    todo,      \* groups still to read in this pass or cycle
    failed,    \* groups that failed in this pass
    batch,     \* pending writes: the value of each register, or Missing
    stat,      \* the number of the statistic it publishes next
    count,     \* cycleCount, lastCycleTime and lastCycleDur of the reader
    time,
    dur,
    hpc,       \* the handler: idle, asking the inverter, or about to store
    want,      \* the registers it asks for or stores
    got,       \* the metric as its answer has it
    pagePc,    \* where the request for the page is
    page,      \* what it has loaded
    \* History, read by properties only:
    had,       \* values the metric had in the inverter
    halved,    \* a handler stored one of its registers, and nobody both since
    ended      \* cycles counted since the page loaded the time

cacheVars   == <<cells, halved>>
invVars     == <<inv, had>>
readVars    == <<attached, run, pass, todo, failed, batch, stat>>
statVars    == <<count, time, dur>>
handlerVars == <<hpc, want, got>>
pageVars    == <<pagePc, page, ended>>
vars == <<cacheVars, invVars, readVars, statVars, handlerVars, pageVars>>

Runs    == {"purge", "scan", "attach", "top", "fast", "slow", "flush", "publish"}
PagePCs == {"idle", "time", "count", "dur", "all", "metric", "done"}
Pages   == [time : Nat, count : Nat, dur : Nat, ended : Nat, table : SUBSET Address,
            metric : SUBSET Int, halved : BOOLEAN]
Empty   == [time |-> 0, count |-> 0, dur |-> 0, ended |-> 0, table |-> {},
            metric |-> {}, halved |-> FALSE]

\* Run publishes a cycle's statistics in this order; faulty: the count last.
TimeFirst  == <<"time", "dur", "count">>
StoreOrder == <<"count", "time", "dur">>

Both    == {Metric, Metric + 1}
Polled(speeds) == {i \in 1..Len(Groups) : Groups[i].poll \in speeds}
Nothing == [a \in Address |-> Missing]

TypeOK ==
    /\ cells \in [Address -> Cell] /\ batch \in [Address -> Cell]
    /\ inv \in Powers /\ got \in Powers /\ had \subseteq Powers
    /\ attached \in BOOLEAN /\ halved \in BOOLEAN
    /\ run \in Runs
    /\ pass \in 1..ScanPasses
    /\ todo \subseteq 1..Len(Groups) /\ failed \subseteq 1..Len(Groups)
    /\ stat \in 1..Len(StoreOrder)
    /\ count \in Nat /\ time \in Nat /\ dur \in Nat /\ ended \in Nat
    /\ hpc \in {"idle", "ask", "fill"}
    /\ want \subseteq Address
    /\ pagePc \in PagePCs
    /\ page \in Pages

-------------------------------------------------------------------------------
\* Registers

AddressesOf(g) == {a \in Address : g.address <= a /\ a < g.address + g.count}

\* The two words of a 32-bit number, the high one first, as the inverter
\* sends them.
Words(v) == LET raw == (v + WordSize * WordSize) % (WordSize * WordSize)
            IN  <<raw \div WordSize, raw % WordSize>>

\* The registers of the inverter while the metric is v.
Registers(v) == [a \in Address |-> CASE a = Metric     -> Words(v)[1]
                                     [] a = Metric + 1 -> Words(v)[2]
                                     [] OTHER          -> 0]

\* INSERT ... ON CONFLICT DO UPDATE of the registers A; faulty: DO NOTHING.
DoNothing(old, A, new) == [a \in Address |-> IF a \in A /\ old[a] = Missing
                                             THEN new[a] ELSE old[a]]
Upsert(old, A, new)    == [a \in Address |-> IF a \in A THEN new[a] ELSE old[a]]

\* One transaction of Set or BatchSet.
Store(A, values) ==
    /\ cells' = Upsert(cells, A, values)
    /\ halved' = IF Both \subseteq A THEN FALSE ELSE halved

\* DeleteStale finds some registers too old (module PollingClock: which).
DeleteStale ==
    /\ \E stale \in SUBSET Address : cells' = Upsert(cells, stale, Nothing)
    /\ UNCHANGED halved

\* The cache file may hold registers of an earlier run, which may have ended
\* with one of the metric's registers newer than the other.
Init ==
    /\ inv \in Powers
    /\ \E kept \in SUBSET Address, high, low \in Powers :
         /\ cells = [a \in Address |-> IF a \notin kept THEN Missing
                                       ELSE IF a = Metric THEN Registers(high)[a]
                                       ELSE Registers(low)[a]]
         /\ had = {inv, high, low}
         /\ halved = (high # low)
    /\ attached = FALSE
    /\ run = "purge" /\ pass = 1 /\ todo = {} /\ failed = {} /\ batch = Nothing
    /\ stat = 1 /\ count = 0 /\ time = 0 /\ dur = 0
    /\ hpc = "idle" /\ want = {} /\ got = 0
    /\ pagePc = "idle" /\ page = Empty /\ ended = 0

\* The inverter measures.
InverterChanges ==
    /\ inv' \in Powers \ {inv}
    /\ had' = had \cup {inv'}
    /\ UNCHANGED <<cacheVars, readVars, statVars, handlerVars, pageVars>>

-------------------------------------------------------------------------------
\* The reader

\* cache.DeleteStale before the scan, then all groups are to be read.
Purge ==
    /\ run = "purge"
    /\ DeleteStale
    /\ run' = "scan"
    /\ todo' = Polled({"fast", "slow"})
    /\ UNCHANGED <<attached, pass, failed, batch, stat>>

\* The next group: fast ones first, else in the order of the configuration.
NextGroup(i) ==
    /\ i \in todo
    /\ \A j \in todo : \/ Groups[i].poll = Groups[j].poll /\ i <= j
                       \/ Groups[i].poll = "fast" /\ Groups[j].poll = "slow"

\* readGroup: each group is an answer of its own, of its own moment.
ReadOk ==
    \E i \in todo :
        /\ NextGroup(i)
        /\ batch' = Upsert(batch, AddressesOf(Groups[i]), Registers(inv))
        /\ todo' = todo \ {i}
        /\ UNCHANGED failed

ReadErr ==
    \E i \in todo :
        /\ NextGroup(i)
        /\ todo' = todo \ {i}
        /\ failed' = IF run = "scan" THEN failed \cup {i} ELSE failed
        /\ UNCHANGED batch

ReadGroup ==
    /\ run \in {"scan", "fast", "slow"}
    /\ ReadOk \/ ReadErr
    /\ UNCHANGED <<attached, run, pass, stat, cacheVars>>

\* cache.BatchSet(batch); the next pass or cycle has an empty one.
BatchSet ==
    /\ Store({a \in Address : batch[a] # Missing}, batch)
    /\ batch' = Nothing

\* The end of a pass; groups that failed are read again, but for the last.
EndPass ==
    /\ run = "scan" /\ todo = {}
    /\ BatchSet
    /\ failed' = {}
    /\ IF failed # {} /\ pass < ScanPasses
       THEN pass' = pass + 1 /\ todo' = failed /\ UNCHANGED run
       ELSE run' = "attach" /\ UNCHANGED <<pass, todo>>
    /\ UNCHANGED <<attached, stat>>

\* SetReader; go reader.Run.
Attach ==
    /\ run = "attach"
    /\ attached' = TRUE
    /\ run' = "top"
    /\ UNCHANGED <<pass, todo, failed, batch, stat, cacheVars>>

RunTop ==
    /\ run = "top"
    /\ count < MaxCycles
    /\ run' = "fast"
    /\ todo' = Polled({"fast"})
    /\ UNCHANGED <<attached, pass, failed, batch, stat, cacheVars>>

\* After the fast groups the slow ones, if their interval has elapsed.
RunSlow ==
    /\ run = "fast" /\ todo = {}
    /\ \/ run' = "slow" /\ todo' = Polled({"slow"})
       \/ run' = "flush" /\ UNCHANGED todo
    /\ UNCHANGED <<attached, pass, failed, batch, stat, cacheVars>>

RunClean ==
    /\ run = "slow" /\ todo = {}
    /\ DeleteStale
    /\ run' = "flush"
    /\ UNCHANGED <<attached, pass, todo, failed, batch, stat>>

RunFlush ==
    /\ run = "flush"
    /\ BatchSet
    /\ run' = "publish"
    /\ UNCHANGED <<attached, pass, todo, failed, stat>>

Reader ==
    /\ \/ Purge \/ ReadGroup \/ EndPass \/ Attach
       \/ RunTop \/ RunSlow \/ RunClean \/ RunFlush
    /\ UNCHANGED <<invVars, statVars, handlerVars, pageVars>>

\* After the last statistic the next cycle begins; faulty: after one more.
OneMoreStat == stat > Len(StoreOrder)
LastStat    == stat = Len(StoreOrder)

RunPublish ==
    /\ run = "publish"
    /\ LET what == StoreOrder[stat] IN
        /\ count' = IF what = "count" THEN count + 1 ELSE count
        /\ time' = IF what = "time" THEN time + 1 ELSE time
        /\ dur' = IF what = "dur" THEN dur + 1 ELSE dur
        /\ ended' = IF what = "count" /\ pagePc \in {"count", "dur"}
                    THEN ended + 1 ELSE ended
    /\ IF LastStat
       THEN stat' = 1 /\ run' = "top"
       ELSE stat' = stat + 1 /\ UNCHANGED run
    /\ UNCHANGED <<attached, pass, todo, failed, batch, pagePc, page,
                   cacheVars, invVars, handlerVars>>

-------------------------------------------------------------------------------
\* A handler

\* What a client can ask for.
Ranges == {first..last : first, last \in Address} \ {{}}
Askable(A) == \A a, b \in A : b < a + MaxCount

\* cache.GetBytes misses a register, so the read is forwarded.
Miss ==
    /\ hpc = "idle"
    /\ want' \in {A \in Ranges : Askable(A) /\ \E a \in A : cells[a] = Missing}
    /\ hpc' = "ask"
    /\ UNCHANGED <<got, cacheVars>>

\* client.ReadRegisters returns, with an error or with all of the range.
Answer ==
    /\ hpc = "ask"
    /\ \/ hpc' = "fill" /\ got' = inv /\ UNCHANGED want
       \/ hpc' = "idle" /\ want' = {} /\ UNCHANGED got
    /\ UNCHANGED cacheVars

\* A write the inverter has done: of no register of the metric, which it only
\* measures.
Written ==
    /\ hpc = "idle"
    /\ want' \in {A \in Ranges : Askable(A) /\ A \cap Both = {}}
    /\ hpc' = "fill"
    /\ UNCHANGED <<got, cacheVars>>

\* cache.SetFromBytes or Set: the whole range, whatever is cached by now.
Fill ==
    /\ hpc = "fill"
    /\ cells' = Upsert(cells, want, Registers(got))
    /\ halved' = CASE Both \subseteq want -> FALSE
                   [] Both \cap want = {} -> halved
                   [] OTHER               -> TRUE
    /\ hpc' = "idle" /\ want' = {} /\ got' = 0

Handler ==
    /\ Miss \/ Answer \/ Written \/ Fill
    /\ UNCHANGED <<invVars, readVars, statVars, pageVars>>

-------------------------------------------------------------------------------
\* The page.  What it has loaded is kept here until the next part has looked
\* at other things; no later step of the code reads it.

\* handleIndex begins: w.reader.Load().
PageBegin ==
    /\ pagePc = "idle"
    /\ pagePc' = IF attached THEN "time" ELSE "all"
    /\ UNCHANGED <<page, ended>>

\* Reader.Stats: the time is loaded before the count, the duration after it.
LoadTime ==
    /\ pagePc = "time"
    /\ page' = [page EXCEPT !.time = time]
    /\ pagePc' = "count"
    /\ UNCHANGED ended

LoadCount ==
    /\ pagePc = "count"
    /\ page' = [page EXCEPT !.count = count]
    /\ pagePc' = "dur"
    /\ UNCHANGED ended

LoadDur ==
    /\ pagePc = "dur"
    /\ page' = [page EXCEPT !.dur = dur, !.ended = ended]
    /\ pagePc' = "all"
    /\ ended' = 0

\* w.cache.All()
LoadTable ==
    /\ pagePc = "all"
    /\ page' = [Empty EXCEPT !.table = {a \in Address : cells[a] # Missing}]
    /\ pagePc' = "metric"
    /\ UNCHANGED ended

\* RegI32: two's complement of two words; faulty: as RegU32.
Unsigned(hi, lo)  == hi * WordSize + lo
Signed(hi, lo)    == IF 2 * hi >= WordSize
                     THEN hi * WordSize + lo - WordSize * WordSize
                     ELSE hi * WordSize + lo

\* DecodeDashboardField: cache.Get of both registers, or nothing.
LoadMetric ==
    /\ pagePc = "metric"
    /\ page' = [Empty EXCEPT !.metric =
                  IF Missing \in {cells[Metric], cells[Metric + 1]} THEN {}
                  ELSE {Signed(cells[Metric], cells[Metric + 1])},
                             !.halved = halved]
    /\ pagePc' = "done"
    /\ UNCHANGED ended

PageDone ==
    /\ pagePc = "done"
    /\ pagePc' = "idle"
    /\ page' = Empty
    /\ UNCHANGED ended

Page ==
    /\ \/ PageBegin \/ LoadTime \/ LoadCount \/ LoadDur
       \/ LoadTable \/ LoadMetric \/ PageDone
    /\ UNCHANGED <<cacheVars, invVars, readVars, statVars, handlerVars>>

Next == InverterChanges \/ Reader \/ RunPublish \/ Handler \/ Page

Spec == Init /\ [][Next]_vars

\* reg.Address >= ar.start && reg.Address < ar.end, where the end is computed
\* in 16 bits; faulty: one too many.
InRangeOrEnd(a, g) == a >= g.address /\ a <= (g.address + g.count) % AddressSpace
InRange(a, g)      == a >= g.address /\ a < (g.address + g.count) % AddressSpace

\* The first group a register is shown under, or 0: "ungrouped".
Section(a) ==
    LET fit == {i \in 1..Len(Groups) : InRange(a, Groups[i])}
    IN  IF fit = {} THEN 0 ELSE CHOOSE i \in fit : \A j \in fit : i <= j

-------------------------------------------------------------------------------
\* Properties

\* The statistics on a page fit together, although they are stored and loaded
\* one by one: the time is not of a cycle that is not counted, and all cycles
\* counted, or all but one, have their duration (reader.go:275, 289).  They are
\* of the same cycle or of neighbouring ones if no cycle was counted while they
\* were loaded, and else further apart by no more than those cycles.
StatsFit ==
    pagePc = "all" =>
        /\ page.time <= page.count /\ page.count <= page.time + 1 + page.ended
        /\ page.count <= page.dur + 1 /\ page.dur <= page.count + page.ended

\* No group ends between the two registers of the metric.
GroupsKeepMetric ==
    \A i \in 1..Len(Groups) :
        Both \subseteq AddressesOf(Groups[i]) \/ Both \cap AddressesOf(Groups[i]) = {}

\* A metric on the page is a number the inverter had: of the right sign, and
\* not half of one answer and half of another, though reader, handler and page
\* go their own ways (web.go:186, registers.go:437).  Only what a handler does
\* can break it, a forwarded read of one of the two registers that is stored
\* beside an older other one (server.go:156); then still each half is of an
\* answer, and the next flush that has the group makes it whole.
MetricIsOneAnswer ==
    pagePc = "done" =>
        /\ \A n \in page.metric :
             \E v, w \in had : n = Signed(Words(v)[1], Words(w)[2])
        /\ GroupsKeepMetric /\ ~page.halved => page.metric \subseteq had

\* A cached register is shown under a group that reads it; only one of a group
\* that ends with the address space is not (web.go:105, 145).
ShownInPlace ==
    \A a \in page.table :
        LET reads == {i \in 1..Len(Groups) : a \in AddressesOf(Groups[i])} IN
        IF Section(a) # 0
        THEN Section(a) \in reads
        ELSE \A i \in reads : Groups[i].address + Groups[i].count >= AddressSpace

===============================================================================
