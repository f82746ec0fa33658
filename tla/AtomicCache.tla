------------------------------ MODULE AtomicCache ------------------------------
(***************************************************************************)
(* What the register cache promises the goroutines that share it           *)
(* (cache.go): an operation takes effect at one moment between its call    *)
(* and its return, whole or, on an error, not at all.  "Readers see either *)
(* all-old or all-new data, never a mix" (BatchSet's comment); a failing   *)
(* All may return a part of the data, but of one moment.                   *)
(***************************************************************************)
EXTENDS Integers, Sequences

CONSTANTS
    Callers,    \* goroutines that use the cache
    Keys,       \* pairs of a unit ID and an address
    Vals,       \* register values
    Missing,    \* no row
    Puts,       \* what a caller may store: sequences of rows
    Gets        \* the ranges a caller may ask for: sets of keys

Row   == [key : Keys, val : Vals]
Table == [Keys -> Vals \cup {Missing}]

\* What is assumed of the constants; RegisterCache, which uses them, states it.
CacheConstants ==
    /\ Missing \notin Vals
    /\ Puts \subseteq Seq(Row)
    /\ Gets \subseteq SUBSET Keys

VARIABLES
    table,      \* the rows in the cache
    busy,       \* the caller's operation is called and has not returned
    op,         \* the caller's last operation
    result      \* what its last Get or All returned

vars == <<table, busy, op, result>>

Nil == [k \in Keys |-> Missing]
Ops == [kind : {"put"}, rows : Puts] \cup [kind : {"get"}, keys : Gets]
         \cup {[kind |-> "all", keys |-> Keys], [kind |-> "purge"]}

\* The table after rows were upserted in their order: the last one counts.
After(rows, t) ==
    [k \in Keys |->
        LET at == {i \in 1..Len(rows) : rows[i].key = k} IN
        IF at = {} THEN t[k]
        ELSE rows[CHOOSE i \in at : \A j \in at : j <= i].val]

\* All of the range, or nothing.
Lookup(range, t) ==
    IF \E k \in range : t[k] = Missing THEN Nil
    ELSE [k \in Keys |-> IF k \in range THEN t[k] ELSE Missing]

Init ==
    /\ table \in Table
    /\ busy = [c \in Callers |-> FALSE]
    /\ op = [c \in Callers |-> [kind |-> "purge"]]
    /\ result = [c \in Callers |-> Nil]

Call(c, o) ==
    /\ ~busy[c]
    /\ busy' = [busy EXCEPT ![c] = TRUE]
    /\ op' = [op EXCEPT ![c] = o]
    /\ UNCHANGED <<table, result>>

Return(c) == busy[c] /\ busy' = [busy EXCEPT ![c] = FALSE] /\ UNCHANGED op

Put(c) ==
    /\ Return(c)
    /\ op[c].kind = "put"
    /\ table' \in {After(op[c].rows, table), table}
    /\ UNCHANGED result

Get(c) ==
    /\ Return(c)
    /\ op[c].kind = "get"
    /\ result' \in {[result EXCEPT ![c] = r] : r \in {Lookup(op[c].keys, table), Nil}}
    /\ UNCHANGED table

\* The web page's snapshot of everything there is; on an error a part of it.
All(c) ==
    /\ Return(c)
    /\ op[c].kind = "all"
    /\ \E part \in SUBSET Keys :
         result' = [result EXCEPT ![c] =
                      [k \in Keys |-> IF k \in part THEN table[k] ELSE Missing]]
    /\ UNCHANGED table

\* DeleteStale; which rows are older than the cutoff is left open.
Purge(c) ==
    /\ Return(c)
    /\ op[c].kind = "purge"
    /\ \E stale \in SUBSET Keys :
         table' = [k \in Keys |-> IF k \in stale THEN Missing ELSE table[k]]
    /\ UNCHANGED result

\* The process ends; the table is on disk.
Restart ==
    /\ busy' = [c \in Callers |-> FALSE]
    /\ UNCHANGED <<table, op, result>>

Next ==
    \/ \E c \in Callers : Put(c) \/ Get(c) \/ All(c) \/ Purge(c)
    \/ \E c \in Callers, o \in Ops : Call(c, o)
    \/ Restart

Spec == Init /\ [][Next]_vars

================================================================================
