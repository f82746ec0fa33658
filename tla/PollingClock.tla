---------------------------- MODULE PollingClock ----------------------------
(***************************************************************************)
(* The polling goroutine against the clock (reader.go, main.go) and the    *)
(* timestamps of the register cache (cache.go): when the slow groups are   *)
(* read, when the stale registers are deleted, and how old a value that is *)
(* served can be.                                                          *)
(*                                                                         *)
(* What is delicate here: a value gets its timestamp when the cycle's      *)
(* batch is flushed, not when it is read; the stale registers are deleted  *)
(* before the flush that would have renewed them; the interval to the next *)
(* slow poll starts at the end of the last, or of the scan, whatever those *)
(* did read; and timestamps are compared as text.                          *)
(*                                                                         *)
(* A group stands for its registers on one unit.  Failing transactions and *)
(* the passes of the scan are in module CachingProxy, what a read may go   *)
(* through in module InverterClient.                                       *)
(***************************************************************************)
EXTENDS Integers

CONSTANTS
    Fast, Slow,   \* the groups
    SlowInterval, \* cfg.SlowInterval(), in ticks of the clock
    TTL,          \* cfg.CacheTTL()
    MaxScan,      \* assumed bounds on the time the scan,
    MaxFast,      \*   the fast groups of a cycle
    MaxSlow,      \*   and its slow groups take
    Base,         \* a second has Base * Base ticks: two digits of fraction
    MaxTime,      \* bound: end of time
    MaxRestarts   \* bound: restarts on the same cache file

ASSUME ClockAssumption ==
    /\ Fast \cap Slow = {}
    /\ {SlowInterval, TTL, MaxScan, MaxFast, MaxSlow, MaxTime, MaxRestarts} \subseteq Nat
    /\ Base \in Nat \ {0, 1}

VARIABLES
    now,
    phase,     \* "off" (down, or not connected yet), "scan", "fast", "slow", "flush"
    since,     \* when the phase began
    left,      \* groups this pass or phase still has to read
    redo,      \* groups that failed in this pass of the scan
    lastSlow,  \* lastSlowPoll
    batch,     \* when the pending value of a group was read, or Missing
    stamp,     \* updated_at of a group in the cache, or Missing
    restarts,
    \* History, read by properties only:
    read,      \* when the value in the cache was read
    tried,     \* when a read of the group was last begun or done
    steady     \* groups all of whose reads succeeded since the start

cacheVars == <<stamp, read>>
loopVars  == <<phase, since, left, redo, lastSlow>>
vars == <<now, loopVars, batch, cacheVars, restarts, tried, steady>>

Missing == -1
Groups  == Fast \cup Slow
Past    == (0..now) \cup {Missing}
Polling == phase \in {"fast", "slow", "flush"}

TypeOK ==
    /\ now \in Nat
    /\ phase \in {"off", "scan", "fast", "slow", "flush"}
    /\ since \in 0..now
    /\ left \subseteq Groups
    /\ redo \subseteq Groups
    /\ lastSlow \in 0..now
    /\ batch \in [Groups -> Past]
    /\ stamp \in [Groups -> Past]
    /\ restarts \in Nat
    /\ read \in [Groups -> Past]
    /\ tried \in [Groups -> 0..now]
    /\ steady \subseteq Groups

Nothing == [g \in Groups |-> Missing]

\* A cache file of long ago, or none.
Init ==
    /\ now = TTL
    /\ phase = "off"
    /\ since = now
    /\ left = {}
    /\ redo = {}
    /\ lastSlow = 0
    /\ batch = Nothing
    /\ stamp \in [Groups -> {0, Missing}]
    /\ restarts = 0
    /\ read = stamp
    /\ tried = [g \in Groups |-> 0]
    /\ steady = {}

-------------------------------------------------------------------------------
\* Timestamps as text

Second == Base * Base

\* Where the fraction of a second comes in the order of the texts
\* RFC3339Nano gives: trailing zeros are dropped, and so is the point when
\* nothing is left, and 'Z', which then comes next, sorts after every digit
\* and after the point.
FractionRank(f) ==
    CASE f = 0                 -> Base * (Base + 1)
      [] f # 0 /\ f % Base = 0 -> (f \div Base) * (Base + 1) + Base
      [] OTHER                 -> (f \div Base) * (Base + 1) + (f % Base)

\* `updated_at < ?`
TextLess(t, u) ==
    \/ t \div Second < u \div Second
    \/ /\ t \div Second = u \div Second
       /\ FractionRank(t % Second) < FractionRank(u % Second)

\* time.Now().UTC().Add(-maxAge); faulty: without UTC(); or with the wrong one
\* of the two durations.
LocalCutoff    == now - TTL + 2 * Second
IntervalCutoff == now - SlowInterval
Cutoff         == now - TTL

\* DeleteStale; faulty: does nothing.
DeleteNone == UNCHANGED cacheVars
DeleteStale ==
    LET stale == {g \in Groups : stamp[g] # Missing /\ TextLess(stamp[g], Cutoff)}
    IN  /\ stamp' = [g \in Groups |-> IF g \in stale THEN Missing ELSE stamp[g]]
        /\ read' = [g \in Groups |-> IF g \in stale THEN Missing ELSE read[g]]

\* time.Now().UTC() of a Set or BatchSet; faulty: without UTC().
LocalStamp == now + 2 * Second
Stamp      == now

\* BatchSet: every register of the batch gets the time of the flush.
BatchSet ==
    /\ stamp' = [g \in Groups |-> IF batch[g] = Missing THEN stamp[g] ELSE Stamp]
    /\ read' = [g \in Groups |-> IF batch[g] = Missing THEN read[g] ELSE batch[g]]
    /\ batch' = Nothing

-------------------------------------------------------------------------------
\* The goroutine

Enter(ph, groups) ==
    /\ phase' = ph
    /\ since' = now
    /\ left' = groups
    /\ redo' = {}

\* The inverter is connected; the stale registers go, the scan begins.
Start ==
    /\ phase = "off"
    /\ DeleteStale
    /\ Enter("scan", Groups)
    /\ steady' = Groups
    /\ UNCHANGED <<now, lastSlow, batch, restarts, tried>>

\* readGroup succeeds...
ReadOk(g) ==
    /\ g \in left
    /\ left' = left \ {g}
    /\ batch' = [batch EXCEPT ![g] = now]
    /\ tried' = [tried EXCEPT ![g] = now]
    /\ UNCHANGED <<now, phase, since, redo, lastSlow, cacheVars, restarts, steady>>

\* ... or fails.
ReadErr(g) ==
    /\ g \in left
    /\ left' = left \ {g}
    /\ redo' = IF phase = "scan" THEN redo \cup {g} ELSE redo
    /\ tried' = [tried EXCEPT ![g] = now]
    /\ steady' = steady \ {g}
    /\ UNCHANGED <<now, phase, since, lastSlow, batch, cacheVars, restarts>>

\* A further pass of the scan, for what failed.
NextPass ==
    /\ phase = "scan"
    /\ left = {} /\ redo # {}
    /\ BatchSet
    /\ left' = redo
    /\ redo' = {}
    /\ UNCHANGED <<now, phase, since, lastSlow, restarts, tried, steady>>

\* The scan ends, complete or not, and Run takes it for a slow poll.
EndScan ==
    /\ phase = "scan"
    /\ left = {}
    /\ BatchSet
    /\ lastSlow' = now
    /\ Enter("fast", Fast)
    /\ UNCHANGED <<now, restarts, tried, steady>>

\* time.Since(lastSlowPoll) >= SlowInterval; faulty: measured in each cycle
\* from its start.
CycleDue == now - since >= SlowInterval
SlowDue  == now - lastSlow >= SlowInterval

StartSlow ==
    /\ phase = "fast"
    /\ left = {}
    /\ SlowDue
    /\ Enter("slow", Slow)
    /\ UNCHANGED <<now, lastSlow, batch, cacheVars, restarts, tried, steady>>

EndSlow ==
    /\ phase = "slow"
    /\ left = {}
    /\ lastSlow' = now
    /\ DeleteStale
    /\ Enter("flush", {})
    /\ UNCHANGED <<now, batch, restarts, tried, steady>>

\* The end of a cycle, and the next one begins.
Flush ==
    /\ \/ phase = "flush"
       \/ phase = "fast" /\ left = {} /\ ~SlowDue
    /\ BatchSet
    /\ Enter("fast", Fast)
    /\ UNCHANGED <<now, lastSlow, restarts, tried, steady>>

-------------------------------------------------------------------------------
\* The world around

\* A handler stores what it has just read from the inverter or written there.
HandlerStores(g) ==
    /\ phase # "off"
    /\ stamp' = [stamp EXCEPT ![g] = Stamp]
    /\ read' = [read EXCEPT ![g] = now]
    /\ UNCHANGED <<now, loopVars, batch, restarts, tried, steady>>

Restart ==
    /\ phase # "off"
    /\ restarts < MaxRestarts
    /\ restarts' = restarts + 1
    /\ Enter("off", {})
    /\ batch' = Nothing
    /\ UNCHANGED <<now, lastSlow, cacheVars, tried, steady>>

\* Time passes, within the bounds assumed.
Tick ==
    /\ now < MaxTime
    /\ \/ phase = "off"
       \/ phase = "scan" /\ now < since + MaxScan
       \/ phase = "fast" /\ now < since + MaxFast
       \/ phase = "slow" /\ now < since + MaxSlow
    /\ now' = now + 1
    /\ UNCHANGED <<loopVars, batch, cacheVars, restarts, tried, steady>>

-------------------------------------------------------------------------------

Loop ==
    \/ Start \/ NextPass \/ EndScan \/ StartSlow \/ EndSlow \/ Flush
    \/ \E g \in Groups : ReadOk(g) \/ ReadErr(g)

Next == Loop \/ Tick \/ Restart \/ \E g \in Groups : HandlerStores(g)

Spec == Init /\ [][Next]_vars

-------------------------------------------------------------------------------
\* Properties

Larger(a, b) == IF a > b THEN a ELSE b

\* From one deletion of stale registers to the next, and from the read of a
\* value to its timestamp.
PurgeGap   == MaxScan + SlowInterval + MaxFast + MaxSlow
StampDelay == Larger(MaxScan, MaxFast + MaxSlow)

\* How old a value can be that the cache serves while the reader is at work:
\* longer than the TTL, by the gap between two deletions, the time a cycle
\* kept it back, and less than a second for the comparison as text
\* (cache.go:312, reader.go:263).
ServedAge ==
    phase # "off" =>
        \A g \in Groups : stamp[g] # Missing =>
            now - read[g] < TTL + Second + PurgeGap + StampDelay

\* A slow group is tried again in bounded time, also when it could not be read
\* in the scan or in its last slow poll (reader.go:204, 263).
SlowGroupsTried ==
    Polling => \A g \in Slow :
        now - tried[g] <= SlowInterval + MaxFast + MaxSlow + Larger(MaxScan, MaxSlow)

\* A group whose reads all succeed does not fall out of the cache, not even
\* in the moment before the flush that renews it, if the TTL exceeds the
\* interval by enough: also by the time of the scan, whose passes stamp what
\* they read before it ends (reader.go:266).
AnsweringGroupStays ==
    Polling /\ TTL >= PurgeGap + Second => \A g \in steady : stamp[g] # Missing

\* Comparing timestamps as text is right to the second: nothing is deleted
\* that is younger than the TTL by more, and nothing stays that is older by
\* more (cache.go:312).
PurgeExact ==
    [][Start \/ EndSlow =>
        \A g \in Groups : stamp[g] # Missing =>
            IF stamp'[g] = Missing THEN now - stamp[g] > TTL - Second
            ELSE now - stamp[g] < TTL + Second]_vars

===============================================================================
