-------------------------- MODULE StatusPageProofs --------------------------
(***************************************************************************)
(* What TLAPS proves of StatusPage for all address spaces, even word       *)
(* sizes, groups, metrics and numbers of cycles.                           *)
(*                                                                         *)
(* The argument: the statistics are stored in one order and loaded in one, *)
(* so each is ahead of the next by what was counted meanwhile at most; and *)
(* the two words of the metric stay those of one answer on their way, from *)
(* the inverter to the batch or the handler, to the cache, to the page,    *)
(* where they are put together to the number they were.                    *)
(***************************************************************************)
EXTENDS StatusPage, WellFoundedInduction, TLAPS

-------------------------------------------------------------------------------
\* Arithmetic

LEMMA Constants ==
    /\ AddressSpace \in Nat /\ AddressSpace > 0
    /\ WordSize \in Nat /\ WordSize > 0 /\ WordSize % 2 = 0
    /\ Groups \in Seq([address : Address, count : Nat, poll : {"fast", "slow"}])
    /\ Metric \in Address /\ Metric + 1 \in Address /\ Metric # Metric + 1
    /\ Powers \subseteq Int /\ 0 \in Powers
    /\ ScanPasses \in Nat /\ ScanPasses >= 1
BY PageAssumption DEF Address

LEMMA Product ==
    ASSUME NEW a \in Int, NEW b \in Int, NEW n \in Nat, a <= b
    PROVE  n * a <= n * b
OBVIOUS

LEMMA Division ==
    ASSUME NEW t \in Nat, NEW n \in Nat, n > 0
    PROVE  /\ t \div n \in Nat /\ t % n \in Nat
           /\ t = n * (t \div n) + (t % n)
           /\ t % n < n
OBVIOUS

\* The remainder of a number below the divisor, and below twice the divisor.
LEMMA Remainder ==
    ASSUME NEW t \in Nat, NEW n \in Nat, n > 0, t < 2 * n
    PROVE  t % n = IF t < n THEN t ELSE t - n
<1> DEFINE d == t \div n
           m == t % n
           p == n * d
<1>1. d \in Nat /\ m \in Nat /\ t = p + m /\ m < n
    BY Division
<1>2. d >= 2 => p >= n * 2
    BY <1>1, Product
<1>3. d >= 1 => p >= n * 1
    BY <1>1, Product
<1>4. d = 0 => p = 0
    BY <1>1
<1>5. d = 1 => p = n
    BY <1>1
<1> HIDE DEF d, m, p
<1>6. m = IF t < n THEN t ELSE t - n
  <2>1. d = 0 \/ d = 1 \/ d >= 2
      BY <1>1
  <2>2. p \in Int
      BY <1>1 DEF p
  <2> QED BY <1>1, <1>2, <1>3, <1>4, <1>5, <2>1, <2>2
<1> QED BY <1>6 DEF m

\* A square is a number, and so is its half.
LEMMA Square ==
    /\ WordSize * WordSize \in Nat /\ WordSize * WordSize > 0
    /\ \E half \in Nat : WordSize = 2 * half
<1>1. WordSize * 1 <= WordSize * WordSize
    BY Constants, Product
<1>2. WordSize * WordSize \in Nat
    BY Constants
<1>3. \E half \in Nat : WordSize = 2 * half
    BY Constants
<1> QED BY <1>1, <1>2, <1>3, Constants

-------------------------------------------------------------------------------
\* Two words of a number (registers.go:437)

\* What Words makes of a number, and that each word is one.
LEMMA WordsOf ==
    ASSUME NEW v \in Powers
    PROVE  LET n   == WordSize * WordSize
               raw == IF v < 0 THEN v + n ELSE v
           IN  /\ raw \in Nat /\ raw < n
               /\ Words(v) = <<raw \div WordSize, raw % WordSize>>
               /\ raw \div WordSize \in Nat /\ raw % WordSize \in Nat
               /\ raw \div WordSize < WordSize /\ raw % WordSize < WordSize
               /\ raw = WordSize * (raw \div WordSize) + (raw % WordSize)
<1> DEFINE n   == WordSize * WordSize
           raw == IF v < 0 THEN v + n ELSE v
           q   == raw \div WordSize
<1>1. n \in Nat /\ n > 0
    BY Square
<1>2. v \in Int /\ -n <= 2 * v /\ 2 * v < n
    BY PageAssumption, Square
<1>3. (v + n) % n = raw /\ raw \in Nat /\ raw < n
  <2> HIDE DEF n
  <2>1. v + n \in Nat /\ v + n < 2 * n
      BY <1>1, <1>2
  <2>2. (v + n) % n = IF v + n < n THEN v + n ELSE v + n - n
    <3> DEFINE x == v + n
    <3>1. x \in Nat /\ x < 2 * n
        BY <2>1
    <3> HIDE DEF x
    <3>2. x % n = IF x < n THEN x ELSE x - n
        BY <1>1, <3>1, Remainder
    <3> QED BY <1>1, <1>2, <3>2 DEF x
  <2>3. IF v < 0 THEN v + n \in Nat /\ v + n < n ELSE v \in Nat /\ v < n
      BY <1>1, <1>2
  <2>4. (v + n < n) = (v < 0) /\ v + n - n = v
      BY <1>1, <1>2
  <2> QED BY <2>2, <2>3, <2>4
<1>4. Words(v) = <<raw \div WordSize, raw % WordSize>>
    BY <1>3 DEF Words
<1>5. /\ q \in Nat /\ raw % WordSize \in Nat /\ raw % WordSize < WordSize
      /\ raw = WordSize * q + (raw % WordSize)
  <2> HIDE DEF raw
  <2> QED BY <1>3, Constants, Division
<1>6. q < WordSize
  <2> DEFINE p == WordSize * q
             r == raw % WordSize
  <2>1. q >= WordSize => p >= n
      BY <1>5, Constants, Product
  <2>2. p \in Nat /\ r \in Nat /\ raw = p + r /\ raw < n
      BY <1>3, <1>5, Constants
  <2> HIDE DEF n, q, raw, p, r
  <2>3. ~(q >= WordSize)
      BY <1>1, <2>1, <2>2
  <2> QED BY <1>5, <2>3, Constants
<1> QED BY <1>3, <1>4, <1>5, <1>6

\* The page shows what the inverter sent, with its sign.
LEMMA RoundTrip ==
    ASSUME NEW v \in Powers
    PROVE  /\ Words(v)[1] \in 0..(WordSize - 1) /\ Words(v)[2] \in 0..(WordSize - 1)
           /\ Signed(Words(v)[1], Words(v)[2]) = v
<1> DEFINE n   == WordSize * WordSize
           raw == IF v < 0 THEN v + n ELSE v
           hi  == raw \div WordSize
           lo  == raw % WordSize
<1>1. /\ raw \in Nat /\ raw < n /\ Words(v)[1] = hi /\ Words(v)[2] = lo
      /\ hi \in Nat /\ lo \in Nat /\ hi < WordSize /\ lo < WordSize
      /\ raw = WordSize * hi + lo
    BY WordsOf
<1>2. v \in Int /\ -n <= 2 * v /\ 2 * v < n /\ n \in Nat
    BY PageAssumption, Square
<1>3. raw = IF v < 0 THEN v + n ELSE v
    OBVIOUS
<1> HIDE DEF n, raw, hi, lo
<1>4. PICK half \in Nat : WordSize = 2 * half
    BY Square
<1> DEFINE p == WordSize * hi
           h == WordSize * half
<1>5. p \in Nat /\ h \in Nat /\ n = 2 * h /\ raw = p + lo
    BY <1>1, <1>4, Constants DEF n
<1>6. hi >= half => p >= h
    BY <1>1, <1>4, Constants, Product
<1>7. hi < half => p <= WordSize * (half - 1)
    BY <1>1, <1>4, Constants, Product
<1>8. WordSize * (half - 1) = h - WordSize
    BY <1>4, Constants
<1>9. hi * WordSize = p
    BY <1>1, Constants
<1> HIDE DEF p, h
<1>10. v < 0 <=> hi >= half
    BY <1>1, <1>2, <1>3, <1>4, <1>5, <1>6, <1>7, <1>8, Constants
<1>11. Signed(hi, lo) = IF hi >= half THEN p + lo - n ELSE p + lo
    BY <1>1, <1>4, <1>9, Constants DEF Signed, n
<1>12. Signed(hi, lo) = v
    BY <1>1, <1>2, <1>3, <1>5, <1>10, <1>11
<1> QED BY <1>1, <1>12, Constants

\* The metric's registers while it is v, and that all are registers.
LEMMA RegistersOf ==
    ASSUME NEW v \in Powers
    PROVE  /\ Registers(v) \in [Address -> Cell]
           /\ Registers(v)[Metric] = Words(v)[1]
           /\ Registers(v)[Metric + 1] = Words(v)[2]
           /\ Words(v)[1] # Missing /\ Words(v)[2] # Missing
<1>1. /\ Words(v)[1] \in Cell /\ Words(v)[2] \in Cell /\ 0 \in Cell
      /\ Words(v)[1] # Missing /\ Words(v)[2] # Missing
    BY RoundTrip, Constants DEF Cell, Missing
<1>2. \A a \in Address :
        Registers(v)[a] = CASE a = Metric     -> Words(v)[1]
                            [] a = Metric + 1 -> Words(v)[2]
                            [] OTHER          -> 0
    BY DEF Registers
<1>3. /\ Registers(v)[Metric] = Words(v)[1]
      /\ Registers(v)[Metric + 1] = Words(v)[2]
      /\ \A a \in Address : Registers(v)[a] \in Cell
    BY <1>1, <1>2, Constants
<1>4. Registers(v) = [a \in Address |-> Registers(v)[a]]
    BY DEF Registers
<1> QED BY <1>1, <1>3, <1>4

\* What an upsert makes of each register.
LEMMA UpsertOf ==
    ASSUME NEW old \in [Address -> Cell], NEW A, NEW new \in [Address -> Cell]
    PROVE  /\ Upsert(old, A, new) \in [Address -> Cell]
           /\ \A a \in Address :
                Upsert(old, A, new)[a] = IF a \in A THEN new[a] ELSE old[a]
BY DEF Upsert

LEMMA NothingType == Nothing \in [Address -> Cell]
BY DEF Nothing, Cell

-------------------------------------------------------------------------------
\* The section a register is shown in (web.go:105)

\* A set of numbers that is not empty has a least one.
LEMMA FirstIndex ==
    ASSUME NEW fit \in SUBSET Nat, fit # {}
    PROVE  \E i \in fit : \A j \in fit : i <= j
<1> DEFINE Less == {ss \in Nat \X Nat : ss[1] < ss[2]}
<1>1. IsWellFoundedOn(Less, Nat)
    BY NatLessThanWellFounded DEF OpToRel
<1>2. \E i \in fit : \A j \in fit : ~(<<j, i>> \in Less)
  <2> HIDE DEF Less
  <2> QED BY <1>1, WFMin
<1>3. PICK i \in fit : \A j \in fit : ~(j < i)
    BY <1>2
<1> QED BY <1>3

LEMMA SectionIs ==
    ASSUME NEW a \in Address
    PROVE  IF Section(a) = 0
           THEN \A i \in 1..Len(Groups) : ~InRange(a, Groups[i])
           ELSE Section(a) \in 1..Len(Groups) /\ InRange(a, Groups[Section(a)])
<1> DEFINE fit == {i \in 1..Len(Groups) : InRange(a, Groups[i])}
<1>1. Len(Groups) \in Nat
    BY Constants
<1>2. Section(a) = IF fit = {} THEN 0 ELSE CHOOSE i \in fit : \A j \in fit : i <= j
    BY DEF Section
<1>3. CASE fit = {}
    BY <1>2, <1>3
<1>4. CASE fit # {}
  <2>1. fit \in SUBSET Nat
      BY <1>1
  <2>2. Section(a) \in fit
    <3> HIDE DEF fit
    <3> QED BY <1>2, <1>4, <2>1, FirstIndex
  <2> QED BY <1>1, <2>2
<1> QED BY <1>3, <1>4

\* The end of a group, in the width of an address, is right below the end of
\* the address space, and too low beyond.
LEMMA RangeIs ==
    ASSUME NEW a \in Address, NEW g \in [address : Address, count : Nat, poll : {"fast", "slow"}]
    PROVE  /\ InRange(a, g) => a \in AddressesOf(g)
           /\ a \in AddressesOf(g) /\ ~InRange(a, g) => g.address + g.count >= AddressSpace
<1> DEFINE end == g.address + g.count
<1>1. a \in Nat /\ g.address \in Nat /\ g.count \in Nat /\ end \in Nat
    BY Constants DEF Address
<1>2. end % AddressSpace \in Nat /\ end % AddressSpace <= end
  <2> HIDE DEF end
  <2> DEFINE d == end \div AddressSpace
             p == AddressSpace * d
  <2>1. d \in Nat /\ end % AddressSpace \in Nat /\ end = p + (end % AddressSpace)
      BY <1>1, Constants, Division
  <2> HIDE DEF d
  <2>2. p \in Nat
      BY <2>1, Constants
  <2> HIDE DEF p
  <2> QED BY <1>1, <2>1, <2>2
<1>3. end < AddressSpace => end % AddressSpace = end
  <2> HIDE DEF end
  <2> SUFFICES ASSUME end < AddressSpace PROVE end % AddressSpace = end
      OBVIOUS
  <2>1. end < 2 * AddressSpace
      BY <1>1, Constants
  <2> QED BY <1>1, <2>1, Constants, Remainder
<1>4. /\ InRange(a, g) <=> g.address <= a /\ a < end % AddressSpace
      /\ a \in AddressesOf(g) <=> g.address <= a /\ a < end
    BY <1>1 DEF InRange, AddressesOf
<1> HIDE DEF end
<1>5. /\ InRange(a, g) => a \in AddressesOf(g)
      /\ a \in AddressesOf(g) /\ ~InRange(a, g) => end >= AddressSpace
    BY <1>1, <1>2, <1>3, <1>4, Constants
<1> QED BY <1>5 DEF end

LEMMA Shown == TypeOK => ShownInPlace
<1> SUFFICES ASSUME TypeOK, NEW a \in page.table
             PROVE  LET reads == {i \in 1..Len(Groups) : a \in AddressesOf(Groups[i])} IN
                    IF Section(a) # 0
                    THEN Section(a) \in reads
                    ELSE \A i \in reads : Groups[i].address + Groups[i].count >= AddressSpace
    BY DEF ShownInPlace
<1>1. a \in Address
    BY DEF TypeOK, Pages
<1>2. \A i \in 1..Len(Groups) :
        Groups[i] \in [address : Address, count : Nat, poll : {"fast", "slow"}]
  <2> DEFINE Group == [address : Address, count : Nat, poll : {"fast", "slow"}]
  <2>1. Groups \in Seq(Group)
      BY Constants
  <2> HIDE DEF Group
  <2>2. \A i \in 1..Len(Groups) : Groups[i] \in Group
      BY <2>1
  <2> QED BY <2>2 DEF Group
<1>3. CASE Section(a) = 0
    BY <1>1, <1>2, <1>3, SectionIs, RangeIs
<1>4. CASE Section(a) # 0
    BY <1>1, <1>2, <1>4, SectionIs, RangeIs
<1> QED BY <1>3, <1>4

-------------------------------------------------------------------------------
\* The inductive invariant

\* The statistics as they are while a cycle's are stored one by one.
StatsStored ==
    /\ run # "publish" => stat = 1
    /\ stat = 1 => count = time /\ time = dur
    /\ stat = 2 => count = time + 1 /\ time = dur
    /\ stat = 3 => count = time /\ time = dur + 1

\* What the page has loaded is not ahead of what is stored, in its order, and
\* not behind it by more than the cycles counted since.
StatsLoaded ==
    /\ pagePc = "idle" => page = Empty
    /\ pagePc \notin {"count", "dur"} => ended = 0
    /\ pagePc \in {"count", "dur"} =>
         page.time <= count /\ count <= page.time + 1 + ended
    /\ pagePc = "dur" =>
         /\ page.time <= page.count
         /\ page.count <= count /\ count <= page.count + ended
    /\ StatsFit

\* Each word of the metric in c, cache or batch, is of an answer: of one of
\* the numbers H.
Halves(c, H) ==
    /\ c[Metric] # Missing => \E v \in H : c[Metric] = Words(v)[1]
    /\ c[Metric + 1] # Missing => \E v \in H : c[Metric + 1] = Words(v)[2]

Whole(c, v) == c[Metric] = Words(v)[1] /\ c[Metric + 1] = Words(v)[2]
Absent(c)   == c[Metric] = Missing /\ c[Metric + 1] = Missing

\* The metric on its way from the inverter to the cache.
MetricKnown ==
    /\ inv \in had
    /\ hpc = "fill" /\ want \cap Both # {} => got \in had
    /\ Halves(cells, had) /\ Halves(batch, had)
    /\ GroupsKeepMetric => Absent(batch) \/ \E v \in had : Whole(batch, v)
    /\ GroupsKeepMetric /\ ~halved =>
         \/ cells[Metric] = Missing \/ cells[Metric + 1] = Missing
         \/ \E v \in had : Whole(cells, v)

IInv == TypeOK /\ StatsStored /\ StatsLoaded /\ MetricKnown /\ MetricIsOneAnswer

LEMMA OrderIs ==
    Len(StoreOrder) = 3 /\ StoreOrder[1] = "count" /\ StoreOrder[2] = "time"
    /\ StoreOrder[3] = "dur"
BY DEF StoreOrder

LEMMA EmptyType == Empty \in Pages
BY DEF Empty, Pages

LEMMA PolledType == ASSUME NEW speeds PROVE Polled(speeds) \subseteq 1..Len(Groups)
BY DEF Polled

LEMMA InitInv == Init => IInv
<1> SUFFICES ASSUME Init PROVE IInv
    OBVIOUS
<1>1. PICK kept \in SUBSET Address, high \in Powers, low \in Powers :
        /\ cells = [a \in Address |-> IF a \notin kept THEN Missing
                                      ELSE IF a = Metric THEN Registers(high)[a]
                                      ELSE Registers(low)[a]]
        /\ had = {inv, high, low}
        /\ halved = (high # low)
    BY DEF Init
<1>2. inv \in Powers /\ batch = Nothing
    BY DEF Init
<1>3. TypeOK
  <2>1. cells \in [Address -> Cell]
      BY <1>1, RegistersOf DEF Cell
  <2>2. 1 \in 1..Len(StoreOrder) /\ 1 \in 1..ScanPasses
      BY OrderIs, Constants
  <2> QED BY <1>1, <1>2, <2>1, <2>2, EmptyType, NothingType, Constants
          DEF Init, TypeOK, PagePCs, Runs
<1>4. /\ cells[Metric] # Missing => cells[Metric] = Words(high)[1]
      /\ cells[Metric + 1] # Missing => cells[Metric + 1] = Words(low)[2]
    BY <1>1, RegistersOf, Constants
<1>5. Absent(batch)
    BY <1>2, Constants DEF Absent, Nothing
<1>6. MetricKnown
  <2>1. hpc # "fill"
      BY DEF Init
  <2>2. Halves(cells, had) /\ Halves(batch, had)
      BY <1>1, <1>4, <1>5 DEF Halves, Absent
  <2>3. ~halved => \/ cells[Metric] = Missing \/ cells[Metric + 1] = Missing
                   \/ Whole(cells, high)
      BY <1>1, <1>4 DEF Whole
  <2> QED BY <1>1, <1>5, <2>1, <2>2, <2>3 DEF MetricKnown
<1>7. StatsStored /\ StatsLoaded /\ MetricIsOneAnswer
    BY DEF Init, StatsStored, StatsLoaded, StatsFit, MetricIsOneAnswer
<1> QED BY <1>3, <1>6, <1>7 DEF IInv

-------------------------------------------------------------------------------
\* Types

\* What the parts of a step leave in cache and batch.
LEMMA StoreType ==
    ASSUME TypeOK, NEW A, NEW new \in [Address -> Cell], Store(A, new)
    PROVE  cells' \in [Address -> Cell] /\ halved' \in BOOLEAN
BY UpsertOf DEF TypeOK, Store

LEMMA BatchSetType ==
    ASSUME TypeOK, BatchSet
    PROVE  /\ cells' \in [Address -> Cell] /\ halved' \in BOOLEAN
           /\ batch' \in [Address -> Cell]
BY StoreType, NothingType DEF TypeOK, BatchSet

LEMMA DeleteType ==
    ASSUME TypeOK, DeleteStale
    PROVE  cells' \in [Address -> Cell] /\ halved' \in BOOLEAN
BY UpsertOf, NothingType DEF TypeOK, DeleteStale

LEMMA ReadGroupType ==
    ASSUME TypeOK, ReadGroup
    PROVE  /\ batch' \in [Address -> Cell]
           /\ todo' \subseteq 1..Len(Groups) /\ failed' \subseteq 1..Len(Groups)
<1>1. CASE ReadOk
  <2>1. PICK i \in todo :
          /\ batch' = Upsert(batch, AddressesOf(Groups[i]), Registers(inv))
          /\ todo' = todo \ {i} /\ failed' = failed
      BY <1>1 DEF ReadOk
  <2>2. batch' \in [Address -> Cell]
      BY <2>1, UpsertOf, RegistersOf DEF TypeOK
  <2> QED BY <2>1, <2>2 DEF TypeOK
<1>2. CASE ReadErr
    BY <1>2 DEF ReadErr, TypeOK
<1> QED BY <1>1, <1>2 DEF ReadGroup

LEMMA ReaderType == ASSUME TypeOK, Reader PROVE TypeOK'
<1>1. UNCHANGED <<invVars, statVars, handlerVars, pageVars>>
    BY DEF Reader
<1>2. ASSUME cells' \in [Address -> Cell], halved' \in BOOLEAN,
             batch' \in [Address -> Cell], attached' \in BOOLEAN, run' \in Runs,
             pass' \in 1..ScanPasses, todo' \subseteq 1..Len(Groups),
             failed' \subseteq 1..Len(Groups), stat' = stat
      PROVE  TypeOK'
    BY <1>1, <1>2 DEF TypeOK, invVars, statVars, handlerVars, pageVars
<1>3. CASE Purge
    BY <1>2, <1>3, DeleteType, PolledType DEF Purge, TypeOK, Runs
<1>4. CASE ReadGroup
    BY <1>2, <1>4, ReadGroupType DEF ReadGroup, TypeOK, cacheVars
<1>5. CASE EndPass
  <2>1. /\ BatchSet /\ failed' = {} /\ attached' = attached /\ stat' = stat
        /\ todo' = failed \/ todo' = todo
        /\ run' \in {run, "attach"}
        /\ \/ pass' = pass
           \/ pass < ScanPasses /\ pass' = pass + 1
      BY <1>5 DEF EndPass
  <2>2. pass' \in 1..ScanPasses
      BY <2>1, Constants DEF TypeOK
  <2> QED BY <1>2, <2>1, <2>2, BatchSetType DEF TypeOK, Runs
<1>6. CASE Attach
    BY <1>2, <1>6 DEF Attach, TypeOK, Runs, cacheVars
<1>7. CASE RunTop
    BY <1>2, <1>7, PolledType DEF RunTop, TypeOK, Runs, cacheVars
<1>8. CASE RunSlow
    BY <1>2, <1>8, PolledType DEF RunSlow, TypeOK, Runs, cacheVars
<1>9. CASE RunClean
    BY <1>2, <1>9, DeleteType DEF RunClean, TypeOK, Runs
<1>10. CASE RunFlush
    BY <1>2, <1>10, BatchSetType DEF RunFlush, TypeOK, Runs
<1> QED BY <1>3, <1>4, <1>5, <1>6, <1>7, <1>8, <1>9, <1>10 DEF Reader

LEMMA PublishType == ASSUME TypeOK, RunPublish PROVE TypeOK'
<1>1. UNCHANGED <<attached, pass, todo, failed, batch, pagePc, page,
                  cacheVars, invVars, handlerVars>>
    BY DEF RunPublish
<1>2. count' \in Nat /\ time' \in Nat /\ dur' \in Nat /\ ended' \in Nat
    BY DEF RunPublish, TypeOK
<1>3. /\ run' = run \/ run' = "top"
      /\ \/ stat' = 1
         \/ stat # Len(StoreOrder) /\ stat' = stat + 1
    BY DEF RunPublish, LastStat
<1>4. stat' \in 1..Len(StoreOrder) /\ run' \in Runs
    BY <1>3, OrderIs DEF TypeOK, Runs
<1> QED BY <1>1, <1>2, <1>4 DEF TypeOK, cacheVars, invVars, handlerVars

LEMMA HandlerType == ASSUME TypeOK, Handler PROVE TypeOK'
<1>1. UNCHANGED <<invVars, readVars, statVars, pageVars>>
    BY DEF Handler
<1>2. ASSUME cells' \in [Address -> Cell], halved' \in BOOLEAN, got' \in Powers,
             hpc' \in {"idle", "ask", "fill"}, want' \subseteq Address
      PROVE  TypeOK'
    BY <1>1, <1>2 DEF TypeOK, invVars, readVars, statVars, pageVars
<1>3. \A A \in Ranges : A \subseteq Address
    BY Constants DEF Ranges, Address
<1>4. CASE Miss
    BY <1>2, <1>3, <1>4 DEF Miss, TypeOK, cacheVars
<1>5. CASE Answer
    BY <1>2, <1>5 DEF Answer, TypeOK, cacheVars
<1>6. CASE Written
    BY <1>2, <1>3, <1>6 DEF Written, TypeOK, cacheVars
<1>7. CASE Fill
  <2>1. cells' \in [Address -> Cell]
      BY <1>7, UpsertOf, RegistersOf DEF Fill, TypeOK
  <2>2. halved' \in BOOLEAN /\ hpc' = "idle" /\ want' = {} /\ got' = 0
      BY <1>7 DEF Fill, TypeOK
  <2> QED BY <1>2, <2>1, <2>2, Constants
<1> QED BY <1>4, <1>5, <1>6, <1>7 DEF Handler

LEMMA PageType == ASSUME TypeOK, Page PROVE TypeOK'
<1>1. UNCHANGED <<cacheVars, invVars, readVars, statVars, handlerVars>>
    BY DEF Page
<1>2. ASSUME page' \in Pages, pagePc' \in PagePCs, ended' \in Nat PROVE TypeOK'
    BY <1>1, <1>2 DEF TypeOK, cacheVars, invVars, readVars, statVars, handlerVars
<1>3. page \in Pages /\ count \in Nat /\ time \in Nat /\ dur \in Nat /\ ended \in Nat
      /\ halved \in BOOLEAN
    BY DEF TypeOK
<1>4. CASE PageBegin
    BY <1>2, <1>3, <1>4 DEF PageBegin, PagePCs
<1>5. CASE LoadTime
    BY <1>2, <1>3, <1>5 DEF LoadTime, PagePCs, Pages
<1>6. CASE LoadCount
    BY <1>2, <1>3, <1>6 DEF LoadCount, PagePCs, Pages
<1>7. CASE LoadDur
    BY <1>2, <1>3, <1>7 DEF LoadDur, PagePCs, Pages
<1>8. CASE LoadTable
    BY <1>2, <1>3, <1>8, EmptyType DEF LoadTable, PagePCs, Pages
<1>9. CASE LoadMetric
  <2> DEFINE metric == IF Missing \in {cells[Metric], cells[Metric + 1]} THEN {}
                       ELSE {Signed(cells[Metric], cells[Metric + 1])}
  <2>1. cells[Metric] \in Int /\ cells[Metric + 1] \in Int
      BY Constants DEF TypeOK, Cell, Missing
  <2>2. Signed(cells[Metric], cells[Metric + 1]) \in Int
      BY <2>1, Constants, Square DEF Signed
  <2>3. metric \in SUBSET Int
      BY <2>2
  <2>4. page' = [Empty EXCEPT !.metric = metric, !.halved = halved]
      BY <1>9 DEF LoadMetric
  <2> HIDE DEF metric
  <2>5. page' \in Pages
      BY <1>3, <2>3, <2>4, EmptyType DEF Pages
  <2> QED BY <1>2, <1>3, <1>9, <2>5 DEF LoadMetric, PagePCs
<1>10. CASE PageDone
    BY <1>2, <1>3, <1>10, EmptyType DEF PageDone, PagePCs
<1> QED BY <1>4, <1>5, <1>6, <1>7, <1>8, <1>9, <1>10 DEF Page

LEMMA TypeStep == ASSUME TypeOK, [Next]_vars PROVE TypeOK'
<1>1. CASE UNCHANGED vars
    BY <1>1 DEF TypeOK, vars, cacheVars, invVars, readVars, statVars, handlerVars, pageVars
<1>2. CASE InverterChanges
    BY <1>2 DEF InverterChanges, TypeOK, cacheVars, readVars, statVars, handlerVars, pageVars
<1> QED BY <1>1, <1>2, ReaderType, PublishType, HandlerType, PageType DEF Next

-------------------------------------------------------------------------------
\* The statistics

\* A step that is not one of the page and counts no cycle.
LEMMA StatsSame ==
    ASSUME IInv, UNCHANGED statVars, UNCHANGED pageVars, UNCHANGED stat,
           run # "publish", run' # "publish" \/ run' = run \/ stat = 1
    PROVE  StatsStored' /\ StatsLoaded'
BY DEF IInv, StatsStored, StatsLoaded, StatsFit, statVars, pageVars

LEMMA PublishStats == ASSUME IInv, RunPublish PROVE StatsStored' /\ StatsLoaded'
<1>1. /\ run = "publish" /\ pagePc' = pagePc /\ page' = page
      /\ count' = IF StoreOrder[stat] = "count" THEN count + 1 ELSE count
      /\ time' = IF StoreOrder[stat] = "time" THEN time + 1 ELSE time
      /\ dur' = IF StoreOrder[stat] = "dur" THEN dur + 1 ELSE dur
      /\ ended' = IF StoreOrder[stat] = "count" /\ pagePc \in {"count", "dur"}
                  THEN ended + 1 ELSE ended
      /\ IF stat = Len(StoreOrder)
         THEN stat' = 1 /\ run' = "top"
         ELSE stat' = stat + 1 /\ run' = run
    BY DEF RunPublish, LastStat
<1>2. /\ stat \in {1, 2, 3} /\ page \in Pages
      /\ count \in Nat /\ time \in Nat /\ dur \in Nat /\ ended \in Nat
    BY OrderIs DEF IInv, TypeOK
<1>3. page.time \in Nat /\ page.count \in Nat /\ page.dur \in Nat /\ page.ended \in Nat
    BY <1>2 DEF Pages
<1>4. StatsStored'
  <2>1. CASE stat = 1
      BY <1>1, <1>2, <2>1, OrderIs DEF IInv, StatsStored
  <2>2. CASE stat = 2
      BY <1>1, <1>2, <2>2, OrderIs DEF IInv, StatsStored
  <2>3. CASE stat = 3
      BY <1>1, <1>2, <2>3, OrderIs DEF IInv, StatsStored
  <2> QED BY <1>2, <2>1, <2>2, <2>3
<1>5. StatsLoaded'
  <2>1. StatsFit'
      BY <1>1 DEF IInv, StatsLoaded, StatsFit
  <2>2. CASE count' = count
    <3>1. ended' = ended
        BY <1>1, <1>2, <2>2
    <3> QED BY <1>1, <2>1, <2>2, <3>1 DEF IInv, StatsLoaded
  <2>3. CASE count' = count + 1
    <3>1. ended' = IF pagePc \in {"count", "dur"} THEN ended + 1 ELSE ended
        BY <1>1, <1>2, <2>3
    <3> QED BY <1>1, <1>2, <1>3, <2>1, <2>3, <3>1 DEF IInv, StatsLoaded
  <2> QED BY <1>1, <2>2, <2>3
<1> QED BY <1>4, <1>5

LEMMA PageStats == ASSUME IInv, Page PROVE StatsStored' /\ StatsLoaded'
<1>1. UNCHANGED statVars /\ UNCHANGED readVars
    BY DEF Page
<1>2. StatsStored'
    BY <1>1 DEF IInv, StatsStored, statVars, readVars
<1>3. page \in Pages /\ count \in Nat /\ time \in Nat /\ dur \in Nat /\ ended \in Nat
    BY DEF IInv, TypeOK
<1>4. page.time \in Nat /\ page.count \in Nat /\ page.dur \in Nat
    BY <1>3 DEF Pages
<1>5. time <= count /\ count <= time + 1 /\ dur <= count /\ count <= dur + 1
    BY <1>3, OrderIs DEF IInv, TypeOK, StatsStored
<1>6. ASSUME PageBegin PROVE StatsLoaded'
  <2>1. /\ pagePc = "idle" /\ pagePc' \in {"time", "all"}
        /\ ended' = ended /\ page' = page
      BY <1>6 DEF PageBegin
  <2>2. page = Empty /\ ended = 0
      BY <2>1 DEF IInv, StatsLoaded
  <2>3. page'.time = 0 /\ page'.count = 0 /\ page'.dur = 0 /\ page'.ended = 0
      BY <2>1, <2>2 DEF Empty
  <2> QED BY <2>1, <2>2, <2>3 DEF StatsLoaded, StatsFit
<1>7. ASSUME LoadTime PROVE StatsLoaded'
  <2>1. /\ pagePc = "time" /\ pagePc' = "count" /\ ended' = ended /\ page'.time = time
      BY <1>3, <1>7 DEF LoadTime, Pages
  <2>2. ended = 0 /\ count' = count
      BY <1>1, <2>1 DEF IInv, StatsLoaded, statVars
  <2> QED BY <1>3, <1>5, <2>1, <2>2 DEF StatsLoaded, StatsFit
<1>8. ASSUME LoadCount PROVE StatsLoaded'
  <2>1. /\ pagePc = "count" /\ pagePc' = "dur" /\ ended' = ended
        /\ page'.time = page.time /\ page'.count = count
      BY <1>3, <1>8 DEF LoadCount, Pages
  <2>2. /\ page.time <= count /\ count <= page.time + 1 + ended
        /\ count' = count
      BY <1>1, <2>1 DEF IInv, StatsLoaded, statVars
  <2> QED BY <1>3, <1>4, <2>1, <2>2 DEF StatsLoaded, StatsFit
<1>9. ASSUME LoadDur PROVE StatsLoaded'
  <2>1. /\ pagePc = "dur" /\ pagePc' = "all" /\ ended' = 0
        /\ page'.time = page.time /\ page'.count = page.count
        /\ page'.dur = dur /\ page'.ended = ended
      BY <1>3, <1>9 DEF LoadDur, Pages
  <2>2. /\ page.time <= count /\ count <= page.time + 1 + ended
        /\ page.time <= page.count
        /\ page.count <= count /\ count <= page.count + ended
      BY <2>1 DEF IInv, StatsLoaded
  <2> QED BY <1>3, <1>4, <1>5, <2>1, <2>2 DEF StatsLoaded, StatsFit
<1>10. ASSUME LoadTable \/ LoadMetric \/ PageDone PROVE StatsLoaded'
  <2>1. /\ pagePc \in {"all", "metric", "done"} /\ pagePc' \in {"metric", "done", "idle"}
        /\ ended' = ended
        /\ pagePc' = "idle" => page' = Empty
      BY <1>10 DEF LoadTable, LoadMetric, PageDone
  <2>2. ended = 0
      BY <2>1 DEF IInv, StatsLoaded
  <2> QED BY <2>1, <2>2 DEF StatsLoaded, StatsFit
<1> QED BY <1>2, <1>6, <1>7, <1>8, <1>9, <1>10 DEF Page

LEMMA StatsStep == ASSUME IInv, [Next]_vars PROVE StatsStored' /\ StatsLoaded'
<1>1. CASE UNCHANGED vars \/ InverterChanges \/ Handler
  <2>1. UNCHANGED statVars /\ UNCHANGED pageVars /\ UNCHANGED readVars
      BY <1>1 DEF vars, InverterChanges, Handler
  <2> QED BY <2>1 DEF IInv, StatsStored, StatsLoaded, StatsFit, statVars, pageVars, readVars
<1>2. CASE Reader
  <2>1. UNCHANGED statVars /\ UNCHANGED pageVars
      BY <1>2 DEF Reader
  <2>2. run # "publish" /\ stat' = stat
      BY <1>2 DEF Reader, Purge, ReadGroup, EndPass, Attach, RunTop, RunSlow, RunClean, RunFlush
  <2>3. stat = 1
      BY <2>2 DEF IInv, StatsStored
  <2> QED BY <2>1, <2>2, <2>3, StatsSame
<1> QED BY <1>1, <1>2, PublishStats, PageStats DEF Next

-------------------------------------------------------------------------------
\* The metric

\* What an answer brings.
LEMMA RegistersWhole ==
    ASSUME NEW v \in Powers
    PROVE  /\ Whole(Registers(v), v) /\ Halves(Registers(v), {v})
           /\ Registers(v)[Metric] # Missing /\ Registers(v)[Metric + 1] # Missing
BY RegistersOf DEF Whole, Halves

\* More numbers had in the inverter disturb nothing.
LEMMA HadGrows ==
    ASSUME NEW c, NEW H, NEW K, H \subseteq K, Halves(c, H)
    PROVE  Halves(c, K)
BY DEF Halves

\* An upsert of words of answers keeps them so.
LEMMA UpsertHalves ==
    ASSUME NEW old \in [Address -> Cell], NEW A, NEW new \in [Address -> Cell], NEW H,
           Halves(old, H), A \cap Both = {} \/ Halves(new, H)
    PROVE  Halves(Upsert(old, A, new), H)
<1> DEFINE c == Upsert(old, A, new)
<1>1. /\ c[Metric] = IF Metric \in A THEN new[Metric] ELSE old[Metric]
      /\ c[Metric + 1] = IF Metric + 1 \in A THEN new[Metric + 1] ELSE old[Metric + 1]
    BY UpsertOf, Constants
<1>2. A \cap Both = {} => Metric \notin A /\ Metric + 1 \notin A
    BY DEF Both
<1> HIDE DEF c
<1>3. Halves(c, H)
    BY <1>1, <1>2 DEF Halves
<1> QED BY <1>3 DEF c

\* An upsert of both registers, or of none.
LEMMA UpsertWhole ==
    ASSUME NEW old \in [Address -> Cell], NEW A, NEW new \in [Address -> Cell], NEW v
    PROVE  /\ Both \subseteq A /\ Whole(new, v) => Whole(Upsert(old, A, new), v)
           /\ Both \cap A = {} =>
                /\ Upsert(old, A, new)[Metric] = old[Metric]
                /\ Upsert(old, A, new)[Metric + 1] = old[Metric + 1]
<1> DEFINE c == Upsert(old, A, new)
<1>1. /\ c[Metric] = IF Metric \in A THEN new[Metric] ELSE old[Metric]
      /\ c[Metric + 1] = IF Metric + 1 \in A THEN new[Metric + 1] ELSE old[Metric + 1]
    BY UpsertOf, Constants
<1> HIDE DEF c
<1>2. /\ Both \subseteq A /\ Whole(new, v) => Whole(c, v)
      /\ Both \cap A = {} => c[Metric] = old[Metric] /\ c[Metric + 1] = old[Metric + 1]
    BY <1>1 DEF Whole, Both
<1> QED BY <1>2 DEF c

\* Steps that neither read nor store.
LEMMA MetricSame ==
    ASSUME IInv, UNCHANGED <<cells, halved, batch, inv, had>>,
           hpc' = "fill" /\ want' \cap Both # {} => got' \in had
    PROVE  MetricKnown'
BY DEF IInv, MetricKnown, Halves, Whole, Absent

LEMMA ReadGroupMetric ==
    ASSUME IInv, ReadGroup, UNCHANGED <<invVars, handlerVars>>
    PROVE  MetricKnown'
<1>1. UNCHANGED <<cells, halved, inv, had, hpc, want, got>>
    BY DEF ReadGroup, cacheVars, invVars, handlerVars
<1>2. CASE ReadErr
  <2>1. batch' = batch
      BY <1>2 DEF ReadErr
  <2>2. hpc' = "fill" /\ want' \cap Both # {} => got' \in had
      BY <1>1 DEF IInv, MetricKnown
  <2> QED BY <1>1, <2>1, <2>2, MetricSame
<1>3. CASE ReadOk
  <2>1. PICK i \in todo : batch' = Upsert(batch, AddressesOf(Groups[i]), Registers(inv))
      BY <1>3 DEF ReadOk
  <2>2. /\ batch \in [Address -> Cell] /\ inv \in Powers /\ inv \in had
        /\ Registers(inv) \in [Address -> Cell] /\ i \in 1..Len(Groups)
      BY RegistersOf DEF IInv, TypeOK, MetricKnown
  <2>3. Halves(Registers(inv), had)
      BY <2>2, RegistersWhole, HadGrows
  <2>4. Halves(batch', had)
      BY <2>1, <2>2, <2>3, UpsertHalves DEF IInv, MetricKnown
  <2>5. ASSUME GroupsKeepMetric PROVE Absent(batch') \/ \E v \in had : Whole(batch', v)
    <3>1. CASE Both \subseteq AddressesOf(Groups[i])
        BY <2>1, <2>2, <3>1, UpsertWhole, RegistersWhole
    <3>2. CASE Both \cap AddressesOf(Groups[i]) = {}
      <4>1. batch'[Metric] = batch[Metric] /\ batch'[Metric + 1] = batch[Metric + 1]
          BY <2>1, <2>2, <3>2, UpsertWhole
      <4> QED BY <2>5, <4>1 DEF IInv, MetricKnown, Absent, Whole
    <3> QED BY <2>2, <2>5, <3>1, <3>2 DEF GroupsKeepMetric
  <2> QED BY <1>1, <2>4, <2>5 DEF IInv, MetricKnown, Whole, Halves
<1> QED BY <1>2, <1>3 DEF ReadGroup

LEMMA DeleteMetric ==
    ASSUME IInv, DeleteStale, UNCHANGED <<batch, invVars, handlerVars>>
    PROVE  MetricKnown'
<1>1. PICK stale \in SUBSET Address : cells' = Upsert(cells, stale, Nothing)
    BY DEF DeleteStale
<1>2. UNCHANGED <<halved, batch, inv, had, hpc, want, got>>
    BY DEF DeleteStale, invVars, handlerVars
<1>3. cells'[Metric] \in {cells[Metric], Missing}
      /\ cells'[Metric + 1] \in {cells[Metric + 1], Missing}
  <2>1. cells \in [Address -> Cell]
      BY DEF IInv, TypeOK
  <2>2. /\ cells'[Metric] = IF Metric \in stale THEN Nothing[Metric] ELSE cells[Metric]
        /\ cells'[Metric + 1] = IF Metric + 1 \in stale THEN Nothing[Metric + 1]
                                ELSE cells[Metric + 1]
      BY <1>1, <2>1, UpsertOf, NothingType, Constants
  <2>3. Nothing[Metric] = Missing /\ Nothing[Metric + 1] = Missing
      BY Constants DEF Nothing
  <2> QED BY <2>2, <2>3
<1>4. Halves(cells', had)
    BY <1>3 DEF IInv, MetricKnown, Halves
<1>5. ASSUME \/ cells[Metric] = Missing \/ cells[Metric + 1] = Missing
             \/ \E v \in had : Whole(cells, v)
      PROVE  \/ cells'[Metric] = Missing \/ cells'[Metric + 1] = Missing
             \/ \E v \in had : Whole(cells', v)
    BY <1>3, <1>5 DEF Whole
<1> QED BY <1>2, <1>4, <1>5 DEF IInv, MetricKnown, Halves, Absent, Whole

LEMMA BatchSetMetric ==
    ASSUME IInv, BatchSet, UNCHANGED <<invVars, handlerVars>>
    PROVE  MetricKnown'
<1> DEFINE A == {a \in Address : batch[a] # Missing}
<1>1. /\ cells' = Upsert(cells, A, batch)
      /\ halved' = IF Both \subseteq A THEN FALSE ELSE halved
      /\ batch' = Nothing
    BY DEF BatchSet, Store
<1>2. UNCHANGED <<inv, had, hpc, want, got>>
    BY DEF invVars, handlerVars
<1>3. cells \in [Address -> Cell] /\ batch \in [Address -> Cell]
    BY DEF IInv, TypeOK
<1>4. Absent(batch')
    BY <1>1, Constants DEF Absent, Nothing
<1>5. Halves(batch', had)
    BY <1>4 DEF Halves, Absent
<1>6. /\ Metric \in A <=> batch[Metric] # Missing
      /\ Metric + 1 \in A <=> batch[Metric + 1] # Missing
    BY Constants
<1> HIDE DEF A
<1>7. Halves(cells', had)
    BY <1>1, <1>3, UpsertHalves DEF IInv, MetricKnown
<1>8. ASSUME GroupsKeepMetric, ~halved'
      PROVE  \/ cells'[Metric] = Missing \/ cells'[Metric + 1] = Missing
             \/ \E v \in had : Whole(cells', v)
  <2>1. CASE Absent(batch)
    <3>1. Both \cap A = {} /\ ~(Both \subseteq A)
        BY <1>6, <2>1 DEF Absent, Both
    <3>2. cells'[Metric] = cells[Metric] /\ cells'[Metric + 1] = cells[Metric + 1]
        BY <1>1, <1>3, <3>1, UpsertWhole
    <3>3. ~halved
        BY <1>1, <1>8, <3>1
    <3> QED BY <1>8, <3>2, <3>3 DEF IInv, MetricKnown, Whole
  <2>2. ASSUME NEW v \in had, Whole(batch, v)
        PROVE  Whole(cells', v)
    <3>1. v \in Powers
        BY DEF IInv, TypeOK
    <3>2. batch[Metric] # Missing /\ batch[Metric + 1] # Missing
        BY <2>2, <3>1, RegistersOf DEF Whole
    <3>3. Both \subseteq A
        BY <1>6, <3>2 DEF Both
    <3> QED BY <1>1, <1>3, <2>2, <3>3, UpsertWhole
  <2> QED BY <1>8, <2>1, <2>2 DEF IInv, MetricKnown
<1> QED BY <1>2, <1>4, <1>5, <1>7, <1>8 DEF IInv, MetricKnown

LEMMA FillMetric ==
    ASSUME IInv, Fill, UNCHANGED <<batch, invVars>>
    PROVE  MetricKnown'
<1> DEFINE both == Both \subseteq want
           none == Both \cap want = {}
<1>1. /\ hpc = "fill" /\ hpc' = "idle"
      /\ cells' = Upsert(cells, want, Registers(got))
      /\ both => ~halved'
      /\ ~both /\ none => halved' = halved
      /\ ~both /\ ~none => halved'
  <2>1. hpc = "fill" /\ hpc' = "idle" /\ cells' = Upsert(cells, want, Registers(got))
      BY DEF Fill
  <2>2. halved' = CASE both -> FALSE [] none -> halved [] OTHER -> TRUE
      BY DEF Fill
  <2> HIDE DEF both, none
  <2>3. ~(both /\ none)
      BY DEF both, none, Both
  <2> QED BY <2>1, <2>2, <2>3
<1>2. UNCHANGED <<batch, inv, had>>
    BY DEF invVars
<1>3. /\ cells \in [Address -> Cell] /\ got \in Powers
      /\ Registers(got) \in [Address -> Cell]
      /\ want \cap Both # {} => got \in had
    BY <1>1, RegistersOf DEF IInv, TypeOK, MetricKnown
<1>4. want \cap Both = {} \/ Halves(Registers(got), had)
    BY <1>3, RegistersWhole, HadGrows
<1>5. Halves(cells', had)
    BY <1>1, <1>3, <1>4, UpsertHalves DEF IInv, MetricKnown
<1>6. ASSUME GroupsKeepMetric, ~halved'
      PROVE  \/ cells'[Metric] = Missing \/ cells'[Metric + 1] = Missing
             \/ \E v \in had : Whole(cells', v)
  <2>1. CASE Both \subseteq want
    <3>1. Whole(cells', got)
        BY <1>1, <1>3, <2>1, UpsertWhole, RegistersWhole
    <3>2. got \in had
        BY <1>3, <2>1 DEF Both
    <3> QED BY <3>1, <3>2
  <2>2. CASE ~(Both \subseteq want) /\ Both \cap want = {}
    <3>1. cells'[Metric] = cells[Metric] /\ cells'[Metric + 1] = cells[Metric + 1]
        BY <1>1, <1>3, <2>2, UpsertWhole
    <3> QED BY <1>1, <1>6, <2>2, <3>1 DEF IInv, MetricKnown, Whole
  <2>3. CASE ~(Both \subseteq want) /\ Both \cap want # {}
      BY <1>1, <1>6, <2>3
  <2> QED BY <2>1, <2>2, <2>3
<1> QED BY <1>1, <1>2, <1>5, <1>6 DEF IInv, MetricKnown, Halves, Absent, Whole

LEMMA MetricStep == ASSUME IInv, [Next]_vars PROVE MetricKnown'
<1>1. CASE UNCHANGED vars \/ RunPublish \/ Page
  <2>1. UNCHANGED <<cells, halved, batch, inv, had, hpc, want, got>>
      BY <1>1 DEF vars, RunPublish, Page, cacheVars, invVars, readVars, handlerVars
  <2>2. hpc' = "fill" /\ want' \cap Both # {} => got' \in had
      BY <2>1 DEF IInv, MetricKnown
  <2> QED BY <2>1, <2>2, MetricSame
<1>2. CASE InverterChanges
  <2>1. /\ had' = had \cup {inv'}
        /\ UNCHANGED <<cells, halved, batch, hpc, want, got>>
      BY <1>2 DEF InverterChanges, cacheVars, readVars, handlerVars
  <2>2. Halves(cells, had') /\ Halves(batch, had')
      BY <2>1, HadGrows DEF IInv, MetricKnown
  <2> QED BY <2>1, <2>2 DEF IInv, MetricKnown, Halves, Absent, Whole
<1>3. CASE Reader
  <2>1. UNCHANGED <<invVars, handlerVars>>
      BY <1>3 DEF Reader
  <2>2. CASE Purge \/ RunClean
    <3>1. DeleteStale /\ batch' = batch
        BY <2>2 DEF Purge, RunClean
    <3> QED BY <2>1, <3>1, DeleteMetric
  <2>3. CASE ReadGroup
      BY <2>1, <2>3, ReadGroupMetric
  <2>4. CASE EndPass \/ RunFlush
    <3>1. BatchSet
        BY <2>4 DEF EndPass, RunFlush
    <3> QED BY <2>1, <3>1, BatchSetMetric
  <2>5. CASE Attach \/ RunTop \/ RunSlow
    <3>1. UNCHANGED <<cells, halved, batch, inv, had, hpc, want, got>>
        BY <2>1, <2>5 DEF Attach, RunTop, RunSlow, cacheVars, invVars, handlerVars
    <3>2. hpc' = "fill" /\ want' \cap Both # {} => got' \in had
        BY <3>1 DEF IInv, MetricKnown
    <3> QED BY <3>1, <3>2, MetricSame
  <2> QED BY <1>3, <2>2, <2>3, <2>4, <2>5 DEF Reader
<1>4. CASE Handler
  <2>1. UNCHANGED <<batch, inv, had>> /\ UNCHANGED <<batch, invVars>>
      BY <1>4 DEF Handler, invVars, readVars
  <2>2. CASE Miss \/ Answer \/ Written
    <3>1. UNCHANGED <<cells, halved>>
        BY <2>2 DEF Miss, Answer, Written, cacheVars
    <3>2. hpc' = "fill" /\ want' \cap Both # {} => got' \in had
        BY <2>2 DEF Miss, Answer, Written, IInv, MetricKnown
    <3> QED BY <2>1, <3>1, <3>2, MetricSame
  <2> QED BY <1>4, <2>1, <2>2, FillMetric DEF Handler
<1> QED BY <1>1, <1>2, <1>3, <1>4 DEF Next

\* What the page decodes from the cache.
LEMMA LoadMetricRight == ASSUME IInv, LoadMetric, had' = had PROVE MetricIsOneAnswer'
<1> DEFINE metric == IF Missing \in {cells[Metric], cells[Metric + 1]} THEN {}
                     ELSE {Signed(cells[Metric], cells[Metric + 1])}
<1>1. page' = [Empty EXCEPT !.metric = metric, !.halved = halved]
    BY DEF LoadMetric
<1>2. \A n \in metric : \E v, w \in had : n = Signed(Words(v)[1], Words(w)[2])
    BY DEF IInv, MetricKnown, Halves
<1>3. ASSUME GroupsKeepMetric, ~halved PROVE metric \subseteq had
  <2>1. CASE \E v \in had : Whole(cells, v)
    <3>1. PICK v \in had : Whole(cells, v)
        BY <2>1
    <3>2. v \in Powers
        BY DEF IInv, TypeOK
    <3>3. Signed(cells[Metric], cells[Metric + 1]) = v
        BY <3>1, <3>2, RoundTrip DEF Whole
    <3> QED BY <3>1, <3>3
  <2>2. CASE cells[Metric] = Missing \/ cells[Metric + 1] = Missing
      BY <2>2
  <2> QED BY <1>3, <2>1, <2>2 DEF IInv, MetricKnown
<1> HIDE DEF metric
<1>4. page'.metric = metric /\ page'.halved = halved
    BY <1>1 DEF Empty
<1>5. (\A n \in metric : \E v, w \in had : n = Signed(Words(v)[1], Words(w)[2]))
      /\ (GroupsKeepMetric /\ ~halved => metric \subseteq had)
    BY <1>2, <1>3
<1> QED BY <1>4, <1>5 DEF MetricIsOneAnswer

LEMMA PageMetricStep == ASSUME IInv, [Next]_vars PROVE MetricIsOneAnswer'
<1>1. CASE UNCHANGED vars \/ Reader \/ RunPublish \/ Handler
  <2>1. page' = page /\ pagePc' = pagePc /\ had' = had
      BY <1>1 DEF vars, Reader, RunPublish, Handler, pageVars, invVars
  <2> QED BY <2>1 DEF IInv, MetricIsOneAnswer
<1>2. CASE InverterChanges
  <2>1. page' = page /\ pagePc' = pagePc /\ had \subseteq had'
      BY <1>2 DEF InverterChanges, pageVars
  <2>2. SUFFICES ASSUME pagePc = "done"
                 PROVE  /\ \A n \in page.metric :
                             \E v, w \in had' : n = Signed(Words(v)[1], Words(w)[2])
                        /\ GroupsKeepMetric /\ ~page.halved => page.metric \subseteq had'
      BY <2>1 DEF MetricIsOneAnswer
  <2> QED BY <2>1, <2>2 DEF IInv, MetricIsOneAnswer
<1>3. CASE Page
  <2>1. had' = had
      BY <1>3 DEF Page, invVars
  <2>2. ~LoadMetric => pagePc' # "done"
      BY <1>3 DEF Page, PageBegin, LoadTime, LoadCount, LoadDur, LoadTable, PageDone
  <2> QED BY <2>1, <2>2, LoadMetricRight DEF MetricIsOneAnswer
<1> QED BY <1>1, <1>2, <1>3 DEF Next

-------------------------------------------------------------------------------
\* The theorems

LEMMA Step == ASSUME IInv, [Next]_vars PROVE IInv'
BY TypeStep, StatsStep, MetricStep, PageMetricStep DEF IInv

\* IInv is an inductive invariant.
THEOREM Inductive == Spec => []IInv
<1>1. Init => IInv
    BY InitInv
<1>2. IInv /\ [Next]_vars => IInv'
    BY Step
<1> QED BY <1>1, <1>2, PTL DEF Spec

\* Cache and batch hold registers only, the page what can be loaded.
THEOREM TypeCorrect == Spec => []TypeOK
<1>1. IInv => TypeOK
    BY DEF IInv
<1> QED BY <1>1, Inductive, PTL

\* The statistics on a page are of one cycle or of neighbours, or as far apart
\* as cycles were counted while they were loaded, in both directions, although
\* nothing makes the storing or the loading of the three one step
\* (reader.go:275, 289).
THEOREM StatsFitTogether == Spec => []StatsFit
<1>1. IInv => StatsFit
    BY DEF IInv, StatsLoaded
<1> QED BY <1>1, Inductive, PTL

\* A metric on the page is a number the inverter had, through the division in
\* two words, the batch of a pass or cycle, the cache, and the decoding with
\* its sign; or, when groups or a forwarded read split it, of two halves of
\* such numbers (web.go:186, registers.go:437).
THEOREM MetricRight == Spec => []MetricIsOneAnswer
<1>1. IInv => MetricIsOneAnswer
    BY DEF IInv
<1> QED BY <1>1, Inductive, PTL

\* Each cached register is shown under a group that reads it, but for groups
\* that end with the address space (web.go:105, 145).
THEOREM SectionRight == Spec => []ShownInPlace
<1>1. IInv => ShownInPlace
    BY Shown DEF IInv
<1> QED BY <1>1, Inductive, PTL

===============================================================================
