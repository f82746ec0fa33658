------------------------- MODULE PollingClockProofs -------------------------
(***************************************************************************)
(* What TLAPS proves of PollingClock for all groups, intervals, TTLs,      *)
(* bounds on the phases and precisions of the timestamps.                  *)
(*                                                                         *)
(* The argument: texts order the seconds right, so a purge is exact to one *)
(* second; what a purge left is younger than the TTL by then, and the next *)
(* purge is at most PurgeGap later.                                        *)
(***************************************************************************)
EXTENDS PollingClock, TLAPS

-------------------------------------------------------------------------------
\* Comparing timestamps as text

LEMMA Constants ==
    /\ SlowInterval \in Nat /\ TTL \in Nat
    /\ MaxScan \in Nat /\ MaxFast \in Nat /\ MaxSlow \in Nat
    /\ Base \in Nat /\ Base >= 2
    /\ Fast \cap Slow = {}
BY ClockAssumption

LEMMA Product ==
    ASSUME NEW a \in Int, NEW b \in Int, NEW n \in Nat, a <= b
    PROVE  n * a <= n * b
OBVIOUS

LEMMA SecondType == Second \in Nat /\ Second > 0
<1>1. Base * Base \in Nat
    BY Constants
<1>2. Base * 1 <= Base * Base
    BY Constants, Product
<1> QED BY Constants, <1>1, <1>2 DEF Second

LEMMA Division ==
    ASSUME NEW t \in Nat, NEW n \in Nat, n > 0
    PROVE  /\ t \div n \in Nat /\ t % n \in Nat
           /\ t = n * (t \div n) + (t % n)
           /\ t % n < n
OBVIOUS

\* The texts order the seconds right; fractions of one second they may not.
LEMMA TextOrder ==
    ASSUME NEW t \in Nat, NEW u \in Nat
    PROVE  IF TextLess(t, u) THEN t < u + Second ELSE u < t + Second
<1> DEFINE a == t \div Second
           b == u \div Second
<1>1. /\ a \in Nat /\ t % Second \in Nat
      /\ t = Second * a + (t % Second) /\ t % Second < Second
    BY SecondType, Division
<1>2. /\ b \in Nat /\ u % Second \in Nat
      /\ u = Second * b + (u % Second) /\ u % Second < Second
    BY SecondType, Division
<1>3. TextLess(t, u) => a <= b
    BY <1>1, <1>2 DEF TextLess
<1>4. ~TextLess(t, u) => b <= a
    BY <1>1, <1>2 DEF TextLess
<1>5. Second * a \in Nat /\ Second * b \in Nat
    BY <1>1, <1>2, SecondType
<1> HIDE DEF a, b
<1>6. a <= b => Second * a <= Second * b
    BY <1>1, <1>2, SecondType, Product
<1>7. b <= a => Second * b <= Second * a
    BY <1>1, <1>2, SecondType, Product
<1> DEFINE x == Second * a
           y == Second * b
<1>8. x \in Nat /\ y \in Nat
    BY <1>5
<1> HIDE DEF x, y
<1>9. /\ t = x + (t % Second) /\ u = y + (u % Second)
      /\ TextLess(t, u) => x <= y
      /\ ~TextLess(t, u) => y <= x
    BY <1>1, <1>2, <1>3, <1>4, <1>6, <1>7 DEF x, y
<1> DEFINE f == t % Second
           g == u % Second
<1>10. f \in Nat /\ g \in Nat /\ f < Second /\ g < Second /\ t = x + f /\ u = y + g
    BY <1>1, <1>2, <1>9
<1> HIDE DEF f, g
<1> QED BY <1>8, <1>9, <1>10, SecondType

\* What a deletion leaves, and what it takes (cache.go:312).
LEMMA DeleteStaleStep ==
    ASSUME TypeOK, now >= TTL, DeleteStale
    PROVE  \A g \in Groups :
             \/ /\ stamp'[g] = stamp[g] /\ read'[g] = read[g]
                /\ stamp[g] # Missing => now - stamp[g] < TTL + Second
             \/ /\ stamp[g] # Missing /\ now - stamp[g] > TTL - Second
                /\ stamp'[g] = Missing /\ read'[g] = Missing
<1> SUFFICES ASSUME NEW g \in Groups
             PROVE  \/ /\ stamp'[g] = stamp[g] /\ read'[g] = read[g]
                       /\ stamp[g] # Missing => now - stamp[g] < TTL + Second
                    \/ /\ stamp[g] # Missing /\ now - stamp[g] > TTL - Second
                       /\ stamp'[g] = Missing /\ read'[g] = Missing
    OBVIOUS
<1> DEFINE Stale(h) == stamp[h] # Missing /\ TextLess(stamp[h], Cutoff)
<1>1. /\ stamp'[g] = IF Stale(g) THEN Missing ELSE stamp[g]
      /\ read'[g] = IF Stale(g) THEN Missing ELSE read[g]
    BY DEF DeleteStale
<1>2. CASE stamp[g] = Missing
    BY <1>1, <1>2
<1>3. CASE stamp[g] # Missing
  <2>1. stamp[g] \in Nat /\ Cutoff \in Nat /\ Cutoff = now - TTL
      BY <1>3, Constants DEF TypeOK, Past, Cutoff
  <2>2. IF Stale(g) THEN stamp[g] < Cutoff + Second ELSE Cutoff < stamp[g] + Second
      BY <1>3, <2>1, TextOrder
  <2> QED BY <1>1, <1>3, <2>1, <2>2, SecondType, Constants DEF TypeOK
<1> QED BY <1>2, <1>3

\* The same deletion as the types see it.
LEMMA DeleteStaleType ==
    ASSUME TypeOK, DeleteStale
    PROVE  stamp' \in [Groups -> Past] /\ read' \in [Groups -> Past]
BY DEF TypeOK, DeleteStale, Past

LEMMA BatchSetType ==
    ASSUME TypeOK, BatchSet
    PROVE  /\ stamp' \in [Groups -> Past] /\ read' \in [Groups -> Past]
           /\ batch' \in [Groups -> Past]
           /\ \A g \in Groups :
                /\ batch'[g] = Missing
                /\ stamp'[g] = IF batch[g] = Missing THEN stamp[g] ELSE now
                /\ read'[g] = IF batch[g] = Missing THEN read[g] ELSE batch[g]
<1>1. now \in Past /\ Missing \in Past
    BY DEF TypeOK, Past
<1> QED BY <1>1 DEF TypeOK, BatchSet, Nothing, Stamp

-------------------------------------------------------------------------------
\* The inductive invariant

\* How far the clock can have come in each phase.
Timing ==
    /\ now >= TTL
    /\ phase = "off" => left = {}
    /\ phase = "scan" => now <= since + MaxScan
    /\ phase = "fast" => /\ now <= since + MaxFast
                         /\ since <= lastSlow + SlowInterval
                         /\ left \subseteq Fast
    /\ phase = "slow" => /\ now <= since + MaxSlow
                         /\ since <= lastSlow + SlowInterval + MaxFast
                         /\ left \subseteq Slow
    /\ phase = "flush" => since = now /\ lastSlow = now

\* What the last deletion left: it was when the scan began, or at the end of
\* the last slow poll.
LeftByPurge ==
    \A g \in Groups : stamp[g] # Missing =>
        /\ phase = "scan" => stamp[g] + TTL + Second > since
        /\ Polling => stamp[g] + TTL + Second + MaxScan > lastSlow

\* A value in the batch is of this pass or cycle.
BatchIsFresh ==
    \A g \in Groups : batch[g] # Missing =>
        /\ phase # "off"
        /\ phase \in {"scan", "fast"} => batch[g] >= since
        /\ phase = "slow" => batch[g] + MaxFast >= since
        /\ phase = "flush" => batch[g] + MaxFast + MaxSlow >= since

\* A timestamp is not much later than the read of the value.
StampedSoon ==
    \A g \in Groups : stamp[g] # Missing =>
        read[g] # Missing /\ read[g] + StampDelay >= stamp[g]

\* In which phase a group was tried last.
TriedInPhase ==
    /\ phase = "scan" => \A g \in Groups \ left : tried[g] >= since
    /\ Polling => \A g \in Slow : tried[g] + Larger(MaxScan, MaxSlow) >= lastSlow
    /\ phase = "slow" => \A g \in Slow \ left : tried[g] >= since

\* A group that has not failed since the start waits in the batch once it is
\* read, or has a timestamp not older than the scan.
SteadyIsKept ==
    /\ phase = "scan" => \A g \in steady \ left :
         batch[g] # Missing \/ (stamp[g] # Missing /\ stamp[g] >= since)
    /\ phase = "fast" => \A g \in (steady \cap Fast) \ left : batch[g] # Missing
    /\ phase = "slow" => /\ \A g \in steady \cap Fast : batch[g] # Missing
                         /\ \A g \in (steady \cap Slow) \ left : batch[g] # Missing
    /\ phase = "flush" => \A g \in steady : batch[g] # Missing
    /\ phase \in {"fast", "slow"} => \A g \in steady :
         stamp[g] # Missing /\ stamp[g] + MaxScan >= lastSlow
    /\ Polling /\ TTL >= PurgeGap + Second => \A g \in steady : stamp[g] # Missing

IInv ==
    /\ TypeOK /\ Timing /\ LeftByPurge /\ BatchIsFresh /\ StampedSoon
    /\ TriedInPhase /\ SteadyIsKept

-------------------------------------------------------------------------------
\* The values of the state

\* Times and timestamps are numbers; no group is fast and slow.
LEMMA Values ==
    ASSUME TypeOK
    PROVE  /\ now \in Nat /\ since \in Nat /\ lastSlow \in Nat
           /\ since <= now /\ lastSlow <= now
           /\ \A g \in Groups :
                /\ tried[g] \in Nat /\ tried[g] <= now
                /\ stamp[g] # Missing => stamp[g] \in Nat /\ stamp[g] <= now
                /\ read[g] # Missing => read[g] \in Nat /\ read[g] <= now
                /\ batch[g] # Missing => batch[g] \in Nat /\ batch[g] <= now
           /\ left \subseteq Groups /\ redo \subseteq Groups /\ steady \subseteq Groups
           /\ now # Missing /\ Groups = Fast \cup Slow
           /\ Second \in Nat /\ Second > 0
<1>1. \A g \in Groups : tried[g] \in 0..now /\ stamp[g] \in Past /\ read[g] \in Past
                        /\ batch[g] \in Past
    BY DEF TypeOK
<1>2. now \in Nat /\ since \in 0..now /\ lastSlow \in 0..now
      /\ left \subseteq Groups /\ redo \subseteq Groups /\ steady \subseteq Groups
    BY DEF TypeOK
<1> QED BY <1>1, <1>2, SecondType DEF Past, Missing, Groups

\* How late a value can be stamped.
LEMMA Delay ==
    /\ StampDelay \in Nat /\ StampDelay >= MaxScan /\ StampDelay >= MaxFast + MaxSlow
    /\ Larger(MaxScan, MaxSlow) \in Nat
    /\ Larger(MaxScan, MaxSlow) >= MaxScan /\ Larger(MaxScan, MaxSlow) >= MaxSlow
BY Constants DEF StampDelay, Larger

LEMMA InitInv == Init => IInv
<1> SUFFICES ASSUME Init PROVE IInv
    OBVIOUS
<1>1. TypeOK
  <2>1. now \in Nat /\ since \in 0..now /\ lastSlow \in 0..now /\ 0 \in 0..now
      BY Constants DEF Init
  <2>2. batch \in [Groups -> Past]
      BY DEF Init, Nothing, Past
  <2>3. stamp \in [Groups -> Past] /\ read \in [Groups -> Past]
      BY <2>1 DEF Init, Past
  <2>4. tried \in [Groups -> 0..now]
      BY <2>1 DEF Init
  <2> QED BY <2>1, <2>2, <2>3, <2>4 DEF Init, TypeOK
<1>2. Timing /\ LeftByPurge
    BY Constants DEF Init, Timing, LeftByPurge, Polling
<1>3. BatchIsFresh
    BY DEF Init, BatchIsFresh, Nothing
<1>4. StampedSoon
    BY <1>1, Delay, Values DEF Init, StampedSoon
<1>5. TriedInPhase /\ SteadyIsKept
    BY DEF Init, TriedInPhase, SteadyIsKept, Polling
<1> QED BY <1>1, <1>2, <1>3, <1>4, <1>5 DEF IInv

-------------------------------------------------------------------------------
\* One lemma per action

LEMMA StartInv == ASSUME IInv, Start PROVE IInv'
<1> USE Constants, Values, Delay DEF IInv
<1>1. /\ phase = "off" /\ phase' = "scan" /\ since' = now /\ left' = Groups
      /\ redo' = {} /\ steady' = Groups
      /\ UNCHANGED <<now, lastSlow, batch, restarts, tried>> /\ DeleteStale
    BY DEF Start, Enter
<1>2. TypeOK'
    BY <1>1, DeleteStaleType DEF TypeOK, Past
<1>3. Timing'
    BY <1>1 DEF Timing
<1>4. LeftByPurge' /\ StampedSoon'
    BY <1>1, DeleteStaleStep DEF Timing, LeftByPurge, StampedSoon, Polling
<1>5. BatchIsFresh' /\ TriedInPhase' /\ SteadyIsKept'
    BY <1>1 DEF BatchIsFresh, TriedInPhase, SteadyIsKept, Polling
<1> QED BY <1>2, <1>3, <1>4, <1>5

LEMMA ReadOkInv == ASSUME IInv, NEW g \in Groups, ReadOk(g) PROVE IInv'
<1> USE Constants, Values, Delay DEF IInv
<1>1. /\ g \in left /\ left' = left \ {g}
      /\ batch' = [batch EXCEPT ![g] = now] /\ tried' = [tried EXCEPT ![g] = now]
      /\ UNCHANGED <<now, phase, since, redo, lastSlow, cacheVars, restarts, steady>>
    BY DEF ReadOk
<1>2. /\ stamp' = stamp /\ read' = read
      /\ batch'[g] = now /\ tried'[g] = now
      /\ \A h \in Groups : h # g => batch'[h] = batch[h] /\ tried'[h] = tried[h]
    BY <1>1 DEF TypeOK, cacheVars
<1>3. TypeOK'
    BY <1>1, <1>2 DEF TypeOK, Past
<1>4. Timing' /\ LeftByPurge' /\ StampedSoon'
    BY <1>1, <1>2 DEF Timing, LeftByPurge, StampedSoon, Polling
<1>5. BatchIsFresh'
  <2>1. phase # "off"
      BY <1>1 DEF Timing
  <2>2. ASSUME NEW h \in Groups, batch'[h] # Missing
        PROVE  /\ phase \in {"scan", "fast"} => batch'[h] >= since
               /\ phase = "slow" => batch'[h] + MaxFast >= since
               /\ phase = "flush" => batch'[h] + MaxFast + MaxSlow >= since
    <3>1. CASE h = g
        BY <1>2, <3>1
    <3>2. CASE h # g
        BY <1>2, <2>2, <3>2 DEF BatchIsFresh
    <3> QED BY <3>1, <3>2
  <2> QED BY <1>1, <2>1, <2>2 DEF BatchIsFresh
<1>6. TriedInPhase'
    BY <1>1, <1>2 DEF TriedInPhase, Polling
<1>7. SteadyIsKept'
    BY <1>1, <1>2 DEF SteadyIsKept, Polling
<1> QED BY <1>3, <1>4, <1>5, <1>6, <1>7

LEMMA ReadErrInv == ASSUME IInv, NEW g \in Groups, ReadErr(g) PROVE IInv'
<1> USE Constants, Values, Delay DEF IInv
<1>1. /\ g \in left /\ left' = left \ {g} /\ redo' \subseteq redo \cup {g}
      /\ tried' = [tried EXCEPT ![g] = now] /\ steady' = steady \ {g}
      /\ UNCHANGED <<now, phase, since, lastSlow, batch, cacheVars, restarts>>
    BY DEF ReadErr
<1>2. /\ stamp' = stamp /\ read' = read /\ tried'[g] = now
      /\ \A h \in Groups : h # g => tried'[h] = tried[h]
    BY <1>1 DEF TypeOK, cacheVars
<1>3. TypeOK'
    BY <1>1, <1>2 DEF TypeOK, Past
<1>4. Timing' /\ LeftByPurge' /\ BatchIsFresh' /\ StampedSoon'
    BY <1>1, <1>2 DEF Timing, LeftByPurge, BatchIsFresh, StampedSoon, Polling
<1>5. TriedInPhase'
    BY <1>1, <1>2 DEF TriedInPhase, Polling
<1>6. SteadyIsKept'
    BY <1>1, <1>2 DEF SteadyIsKept, Polling
<1> QED BY <1>3, <1>4, <1>5, <1>6

LEMMA NextPassInv == ASSUME IInv, NextPass PROVE IInv'
<1> USE Constants, Values, Delay DEF IInv
<1>1. /\ phase = "scan" /\ left = {} /\ left' = redo /\ redo' = {}
      /\ UNCHANGED <<now, phase, since, lastSlow, restarts, tried, steady>> /\ BatchSet
    BY DEF NextPass
<1>2. TypeOK'
    BY <1>1, BatchSetType DEF TypeOK, Past
<1>3. Timing' /\ LeftByPurge'
    BY <1>1, BatchSetType DEF Timing, LeftByPurge, Polling
<1>4. BatchIsFresh' /\ StampedSoon'
    BY <1>1, BatchSetType DEF Timing, BatchIsFresh, StampedSoon
<1>5. TriedInPhase' /\ SteadyIsKept'
    BY <1>1, BatchSetType DEF TriedInPhase, SteadyIsKept, Polling
<1> QED BY <1>2, <1>3, <1>4, <1>5

LEMMA EndScanInv == ASSUME IInv, EndScan PROVE IInv'
<1> USE Constants, Values, Delay DEF IInv
<1>1. /\ phase = "scan" /\ phase' = "fast" /\ left = {} /\ left' = Fast /\ redo' = {}
      /\ since' = now /\ lastSlow' = now
      /\ UNCHANGED <<now, restarts, tried, steady>> /\ BatchSet
    BY DEF EndScan, Enter
<1>2. TypeOK'
    BY <1>1, BatchSetType DEF TypeOK, Past
<1>3. Timing'
    BY <1>1 DEF Timing
<1>4. LeftByPurge'
    BY <1>1, BatchSetType DEF Timing, LeftByPurge, Polling
<1>5. BatchIsFresh' /\ StampedSoon'
    BY <1>1, BatchSetType DEF Timing, BatchIsFresh, StampedSoon
<1>6. TriedInPhase'
    BY <1>1 DEF Timing, TriedInPhase, Polling
<1>7. SteadyIsKept'
    BY <1>1, BatchSetType DEF Timing, SteadyIsKept, Polling
<1> QED BY <1>2, <1>3, <1>4, <1>5, <1>6, <1>7

LEMMA StartSlowInv == ASSUME IInv, StartSlow PROVE IInv'
<1> USE Constants, Values, Delay DEF IInv
<1>1. /\ phase = "fast" /\ phase' = "slow" /\ left = {} /\ left' = Slow /\ redo' = {}
      /\ since' = now
      /\ UNCHANGED <<now, lastSlow, batch, cacheVars, restarts, tried, steady>>
    BY DEF StartSlow, Enter
<1>2. stamp' = stamp /\ read' = read
    BY <1>1 DEF cacheVars
<1>3. TypeOK'
    BY <1>1, <1>2 DEF TypeOK, Past
<1>4. Timing' /\ LeftByPurge' /\ BatchIsFresh' /\ StampedSoon'
    BY <1>1, <1>2 DEF Timing, LeftByPurge, BatchIsFresh, StampedSoon, Polling
<1>5. TriedInPhase' /\ SteadyIsKept'
    BY <1>1, <1>2 DEF TriedInPhase, SteadyIsKept, Polling
<1> QED BY <1>3, <1>4, <1>5

\* A group that answers survives the deletion: its timestamp is younger than
\* the time from one deletion to the next.
LEMMA EndSlowInv == ASSUME IInv, EndSlow PROVE IInv'
<1> USE Constants, Values, Delay DEF IInv
<1>1. /\ phase = "slow" /\ phase' = "flush" /\ left = {} /\ left' = {} /\ redo' = {}
      /\ since' = now /\ lastSlow' = now
      /\ UNCHANGED <<now, batch, restarts, tried, steady>> /\ DeleteStale
    BY DEF EndSlow, Enter
<1>2. TypeOK'
    BY <1>1, DeleteStaleType DEF TypeOK, Past
<1>3. Timing' /\ BatchIsFresh'
    BY <1>1 DEF Timing, BatchIsFresh
<1>4. LeftByPurge' /\ StampedSoon'
    BY <1>1, DeleteStaleStep DEF Timing, LeftByPurge, StampedSoon, Polling
<1>5. TriedInPhase'
    BY <1>1 DEF Timing, TriedInPhase, Polling
<1>6. SteadyIsKept'
  <2>1. \A g \in steady : batch[g] # Missing
      BY <1>1 DEF SteadyIsKept
  <2>2. ASSUME TTL >= PurgeGap + Second, NEW g \in steady
        PROVE  stamp'[g] # Missing
    <3>1. stamp[g] # Missing /\ stamp[g] + MaxScan >= lastSlow
        BY <1>1 DEF SteadyIsKept
    <3>2. now <= lastSlow + SlowInterval + MaxFast + MaxSlow
        BY <1>1 DEF Timing
    <3>3. now - stamp[g] <= TTL - Second
        BY <2>2, <3>1, <3>2 DEF PurgeGap
    <3> QED BY <1>1, <3>1, <3>3, DeleteStaleStep DEF Timing
  <2> QED BY <1>1, <2>1, <2>2 DEF SteadyIsKept, Polling
<1> QED BY <1>2, <1>3, <1>4, <1>5, <1>6

LEMMA FlushInv == ASSUME IInv, Flush PROVE IInv'
<1> USE Constants, Values, Delay DEF IInv
<1>1. /\ phase' = "fast" /\ left' = Fast /\ redo' = {} /\ since' = now
      /\ UNCHANGED <<now, lastSlow, restarts, tried, steady>> /\ BatchSet
      /\ \/ phase = "flush"
         \/ phase = "fast" /\ left = {} /\ now - lastSlow < SlowInterval
    BY DEF Flush, Enter, SlowDue
<1>2. TypeOK'
    BY <1>1, BatchSetType DEF TypeOK, Past
<1>3. Timing'
    BY <1>1 DEF Timing
<1>4. LeftByPurge'
    BY <1>1, BatchSetType DEF LeftByPurge, Polling
<1>5. BatchIsFresh' /\ StampedSoon'
    BY <1>1, BatchSetType DEF Timing, BatchIsFresh, StampedSoon
<1>6. TriedInPhase'
    BY <1>1 DEF TriedInPhase, Polling
<1>7. SteadyIsKept'
    BY <1>1, BatchSetType DEF SteadyIsKept, Polling
<1> QED BY <1>2, <1>3, <1>4, <1>5, <1>6, <1>7

LEMMA HandlerStoresInv == ASSUME IInv, NEW g \in Groups, HandlerStores(g) PROVE IInv'
<1> USE Constants, Values, Delay DEF IInv
<1>1. /\ stamp' = [stamp EXCEPT ![g] = now] /\ read' = [read EXCEPT ![g] = now]
      /\ UNCHANGED <<now, loopVars, batch, restarts, tried, steady>>
    BY DEF HandlerStores, Stamp
<1>2. /\ UNCHANGED <<phase, since, left, redo, lastSlow>>
      /\ stamp'[g] = now /\ read'[g] = now
      /\ \A h \in Groups : h # g => stamp'[h] = stamp[h] /\ read'[h] = read[h]
    BY <1>1 DEF TypeOK, loopVars
<1>3. TypeOK'
    BY <1>1, <1>2 DEF TypeOK, Past
<1>4. Timing' /\ BatchIsFresh' /\ TriedInPhase'
    BY <1>1, <1>2 DEF Timing, BatchIsFresh, TriedInPhase, Polling
<1>5. LeftByPurge' /\ StampedSoon'
    BY <1>1, <1>2 DEF LeftByPurge, StampedSoon, Polling
<1>6. SteadyIsKept'
    BY <1>1, <1>2 DEF SteadyIsKept, Polling
<1> QED BY <1>3, <1>4, <1>5, <1>6

LEMMA RestartInv == ASSUME IInv, Restart PROVE IInv'
<1> USE Constants, Values, Delay DEF IInv
<1>1. /\ phase' = "off" /\ since' = now /\ left' = {} /\ redo' = {}
      /\ batch' = Nothing /\ restarts' = restarts + 1
      /\ UNCHANGED <<now, lastSlow, cacheVars, tried, steady>>
    BY DEF Restart, Enter
<1>2. stamp' = stamp /\ read' = read
    BY <1>1 DEF cacheVars
<1>3. TypeOK'
    BY <1>1, <1>2 DEF TypeOK, Past, Nothing
<1>4. Timing' /\ LeftByPurge' /\ StampedSoon' /\ TriedInPhase' /\ SteadyIsKept'
    BY <1>1, <1>2 DEF Timing, LeftByPurge, StampedSoon, TriedInPhase, SteadyIsKept, Polling
<1>5. BatchIsFresh'
    BY <1>1 DEF BatchIsFresh, Nothing
<1> QED BY <1>3, <1>4, <1>5

LEMMA TickInv == ASSUME IInv, Tick PROVE IInv'
<1> USE Constants, Values, Delay DEF IInv
<1>1. /\ now' = now + 1
      /\ \/ phase = "off"
         \/ phase = "scan" /\ now < since + MaxScan
         \/ phase = "fast" /\ now < since + MaxFast
         \/ phase = "slow" /\ now < since + MaxSlow
      /\ UNCHANGED <<phase, since, left, redo, lastSlow, batch, stamp, read, restarts,
                     tried, steady>>
    BY DEF Tick, loopVars, cacheVars
<1>2. TypeOK'
  <2>1. Past \subseteq Past' /\ 0..now \subseteq (0..now)'
      BY <1>1 DEF Past
  <2> QED BY <1>1, <2>1 DEF TypeOK
<1>3. Timing'
    BY <1>1 DEF Timing
<1>4. LeftByPurge' /\ BatchIsFresh' /\ StampedSoon' /\ TriedInPhase' /\ SteadyIsKept'
    BY <1>1 DEF LeftByPurge, BatchIsFresh, StampedSoon, TriedInPhase, SteadyIsKept, Polling
<1> QED BY <1>2, <1>3, <1>4

-------------------------------------------------------------------------------
\* The theorems

LEMMA Step == ASSUME IInv, [Next]_vars PROVE IInv'
<1>1. CASE Loop
    BY <1>1, StartInv, NextPassInv, EndScanInv, StartSlowInv, EndSlowInv, FlushInv,
       ReadOkInv, ReadErrInv DEF Loop
<1>2. CASE UNCHANGED vars
  <2> USE <1>2 DEF vars, loopVars, cacheVars
  <2>1. TypeOK' /\ Timing'
      BY DEF IInv, TypeOK, Past, Timing
  <2>2. LeftByPurge' /\ BatchIsFresh' /\ StampedSoon'
      BY DEF IInv, LeftByPurge, BatchIsFresh, StampedSoon, Polling
  <2>3. TriedInPhase' /\ SteadyIsKept'
      BY DEF IInv, TriedInPhase, SteadyIsKept, Polling
  <2> QED BY <2>1, <2>2, <2>3 DEF IInv
<1> QED BY <1>1, <1>2, TickInv, RestartInv, HandlerStoresInv DEF Next

\* The invariant holds of every run, however the reads of a group fail and
\* whenever handlers store and the process restarts.
THEOREM Inductive == Spec => []IInv
<1>1. IInv /\ [Next]_vars => IInv'
    BY Step
<1> QED BY InitInv, <1>1, PTL DEF Spec

\* No timestamp is of the future, neither in the cache nor in the batch.
THEOREM TypeCorrect == Spec => []TypeOK
<1>1. IInv => TypeOK
    BY DEF IInv
<1> QED BY Inductive, <1>1, PTL

\* How old a value can be that the cache serves, for every interval, TTL and
\* bound on the phases (cache.go:312, reader.go:263).
THEOREM AgeBound == Spec => []ServedAge
<1>1. IInv => ServedAge
  <2> SUFFICES ASSUME IInv, phase # "off", NEW g \in Groups, stamp[g] # Missing
               PROVE  now - read[g] < TTL + Second + PurgeGap + StampDelay
      BY DEF ServedAge
  <2> USE Constants, Values, Delay DEF IInv
  <2>1. read[g] \in Nat /\ stamp[g] \in Nat /\ read[g] + StampDelay >= stamp[g]
      BY DEF StampedSoon
  <2>2. now - stamp[g] < TTL + Second + PurgeGap
    <3>1. CASE phase = "scan"
        BY <3>1 DEF Timing, LeftByPurge, PurgeGap
    <3>2. CASE phase # "scan"
      <4>1. Polling
          BY <3>2 DEF TypeOK, Polling
      <4>2. now <= lastSlow + SlowInterval + MaxFast + MaxSlow
          BY <4>1 DEF Timing, Polling
      <4> QED BY <4>1, <4>2 DEF LeftByPurge, PurgeGap
    <3> QED BY <3>1, <3>2
  <2> QED BY <2>1, <2>2 DEF PurgeGap
<1> QED BY Inductive, <1>1, PTL

\* A failing slow group is tried again within an interval and the time its
\* cycles take (reader.go:204).
THEOREM TriedAgain == Spec => []SlowGroupsTried
<1>1. IInv => SlowGroupsTried
  <2> SUFFICES ASSUME IInv, Polling, NEW g \in Slow
               PROVE  now - tried[g]
                        <= SlowInterval + MaxFast + MaxSlow + Larger(MaxScan, MaxSlow)
      BY DEF SlowGroupsTried
  <2> USE Constants, Values, Delay DEF IInv
  <2>1. now <= lastSlow + SlowInterval + MaxFast + MaxSlow
      BY DEF Timing, Polling
  <2>2. tried[g] + Larger(MaxScan, MaxSlow) >= lastSlow
      BY DEF TriedInPhase
  <2> QED BY <2>1, <2>2
<1> QED BY Inductive, <1>1, PTL

\* With a TTL long enough a group that answers is always there (reader.go:266).
THEOREM AnsweringStays == Spec => []AnsweringGroupStays
<1>1. IInv => AnsweringGroupStays
    BY DEF IInv, SteadyIsKept, AnsweringGroupStays
<1> QED BY Inductive, <1>1, PTL

\* Whatever two timestamps look like as text, a deletion is right to the
\* second (cache.go:312).
THEOREM PurgeRight == Spec => PurgeExact
<1> DEFINE Right == Start \/ EndSlow =>
        \A g \in Groups : stamp[g] # Missing =>
            IF stamp'[g] = Missing THEN now - stamp[g] > TTL - Second
            ELSE now - stamp[g] < TTL + Second
<1>1. IInv /\ [Next]_vars => [Right]_vars
  <2> SUFFICES ASSUME IInv, Start \/ EndSlow, NEW g \in Groups, stamp[g] # Missing
               PROVE  IF stamp'[g] = Missing THEN now - stamp[g] > TTL - Second
                      ELSE now - stamp[g] < TTL + Second
      OBVIOUS
  <2>1. TypeOK /\ now >= TTL /\ DeleteStale
      BY DEF IInv, Timing, Start, EndSlow
  <2> QED BY <2>1, DeleteStaleStep
<1> QED BY Inductive, <1>1, PTL DEF Spec, PurgeExact

===============================================================================
