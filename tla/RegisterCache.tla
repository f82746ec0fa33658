----------------------------- MODULE RegisterCache -----------------------------
(***************************************************************************)
(* The register cache statement by statement (cache.go): the pool of one   *)
(* SQLite connection all operations share, the transaction of Set and      *)
(* BatchSet with one upsert per register, the rows Get and All scan one by *)
(* one, and the error paths.  It implements AtomicCache.                   *)
(*                                                                         *)
(* database/sql and SQLite are external: a transaction or an open cursor   *)
(* keeps the connection, a transaction's upserts are seen by others when   *)
(* it commits, and a process that dies leaves the last committed state     *)
(* (journal_mode=WAL).                                                     *)
(***************************************************************************)
EXTENDS Integers, Sequences

CONSTANTS Callers, Keys, Vals, Missing, Puts, Gets,
          None      \* nobody has the connection

VARIABLES
    table,      \* the committed rows
    work,       \* the rows as the open transaction sees them
    owner,      \* the caller that has the connection, or None
    pc,         \* where each caller is
    op,         \* its operation
    rowsLeft,   \* Set, BatchSet: rows to upsert
    keysLeft,   \* Get, All: keys the cursor has not reached
    found,      \* Get, All: the registers scanned so far
    result      \* what its last Get or All returned

vars == <<table, work, owner, pc, op, rowsLeft, keysLeft, found, result>>

A == INSTANCE AtomicCache WITH busy <- [c \in Callers |-> pc[c] # "idle"]

ASSUME PoolAssumption == A!CacheConstants /\ None \notin Callers

PCs == {"idle", "begin", "exec", "scan"}

TypeOK ==
    /\ table \in A!Table
    /\ work \in A!Table
    /\ owner \in Callers \cup {None}
    /\ pc \in [Callers -> PCs]
    /\ op \in [Callers -> A!Ops]
    /\ rowsLeft \in [Callers -> Seq(A!Row)]
    /\ keysLeft \in [Callers -> SUBSET Keys]
    /\ found \in [Callers -> A!Table]
    /\ result \in [Callers -> A!Table]

Init ==
    /\ table \in A!Table
    /\ work = table
    /\ owner = None
    /\ pc = [c \in Callers |-> "idle"]
    /\ op = [c \in Callers |-> [kind |-> "purge"]]
    /\ rowsLeft = [c \in Callers |-> <<>>]
    /\ keysLeft = [c \in Callers |-> {}]
    /\ found = [c \in Callers |-> A!Nil]
    /\ result = [c \in Callers |-> A!Nil]

Call(c, o) ==
    /\ pc[c] = "idle"
    /\ pc' = [pc EXCEPT ![c] = "begin"]
    /\ op' = [op EXCEPT ![c] = o]
    /\ UNCHANGED <<table, work, owner, rowsLeft, keysLeft, found, result>>

\* The operation ends...
Done(c) ==
    /\ pc' = [pc EXCEPT ![c] = "idle"]
    /\ rowsLeft' = [rowsLeft EXCEPT ![c] = <<>>]
    /\ keysLeft' = [keysLeft EXCEPT ![c] = {}]
    /\ found' = [found EXCEPT ![c] = A!Nil]

\* ... and the connection goes back to the pool; faulty: it does not.
Leak(c)    == Done(c) /\ UNCHANGED owner
Release(c) == Done(c) /\ owner' = None

\* The pool has the connection to give (SetMaxOpenConns(1)); faulty: it opens
\* as many as it takes.
AnyConn  == TRUE
ConnFree == owner = None

-------------------------------------------------------------------------------
\* Set and BatchSet

\* c.db.Begin() waits for the connection.
Begin(c) ==
    /\ pc[c] = "begin"
    /\ op[c].kind = "put"
    /\ ConnFree
    /\ owner' = c
    /\ work' = table
    /\ rowsLeft' = [rowsLeft EXCEPT ![c] = op[c].rows]
    /\ pc' = [pc EXCEPT ![c] = "exec"]
    /\ UNCHANGED <<table, op, keysLeft, found, result>>

\* The upsert of one register; faulty: arguments swapped.
UpsertSwapped(row) == work' = [work EXCEPT ![row.key] = row.key]
Upsert(row)        == work' = [work EXCEPT ![row.key] = row.val]

\* tx.Commit and tx.Rollback.
MakeVisible == table' = work /\ UNCHANGED work
Rollback    == work' = table /\ UNCHANGED table

ExecOk(c) ==
    /\ pc[c] = "exec"
    /\ rowsLeft[c] # <<>>
    /\ Upsert(Head(rowsLeft[c]))
    /\ rowsLeft' = [rowsLeft EXCEPT ![c] = Tail(@)]
    /\ UNCHANGED <<table, owner, pc, op, keysLeft, found, result>>

\* Exec fails.
ExecErr(c) ==
    /\ pc[c] = "exec"
    /\ rowsLeft[c] # <<>>
    /\ Release(c)
    /\ Rollback
    /\ UNCHANGED <<op, result>>

Commit(c) ==
    /\ pc[c] = "exec"
    /\ rowsLeft[c] = <<>>
    /\ Release(c)
    /\ MakeVisible
    /\ UNCHANGED <<op, result>>

CommitErr(c) ==
    /\ pc[c] = "exec"
    /\ rowsLeft[c] = <<>>
    /\ Release(c)
    /\ Rollback
    /\ UNCHANGED <<op, result>>

-------------------------------------------------------------------------------
\* Get and All

\* stmt.Query(...) waits for the connection and opens the cursor.
Query(c) ==
    /\ pc[c] = "begin"
    /\ op[c].kind \in {"get", "all"}
    /\ ConnFree
    /\ owner' = c
    /\ keysLeft' = [keysLeft EXCEPT ![c] = op[c].keys]
    /\ pc' = [pc EXCEPT ![c] = "scan"]
    /\ UNCHANGED <<table, work, op, rowsLeft, found, result>>

\* rows.Next() and rows.Scan: the cursor passes one key, with or without a row.
ScanRow(c) ==
    /\ pc[c] = "scan"
    /\ \E k \in keysLeft[c] :
         /\ found' = [found EXCEPT ![c][k] = table[k]]
         /\ keysLeft' = [keysLeft EXCEPT ![c] = @ \ {k}]
    /\ UNCHANGED <<table, work, owner, pc, op, rowsLeft, result>>

\* rows.Next() is false: at the end of the cursor or on an error, which is not
\* asked for (rows.Err).  In Get found # count makes the result nil.
EndScan(c) ==
    /\ pc[c] = "scan"
    /\ result' = [result EXCEPT ![c] =
                    IF op[c].kind = "get" /\ \E k \in op[c].keys : found[c][k] = Missing
                    THEN A!Nil ELSE found[c]]
    /\ Release(c)
    /\ UNCHANGED <<table, work, op>>

\* rows.Scan fails: nil, and the deferred rows.Close() frees the connection.
ScanErr(c) ==
    /\ pc[c] = "scan"
    /\ result' = [result EXCEPT ![c] = A!Nil]
    /\ Release(c)
    /\ UNCHANGED <<table, work, op>>

-------------------------------------------------------------------------------
\* DeleteStale: one statement, its own transaction.
DeleteStale(c) ==
    /\ pc[c] = "begin"
    /\ op[c].kind = "purge"
    /\ ConnFree
    /\ \E stale \in SUBSET Keys :
         table' = [k \in Keys |-> IF k \in stale THEN Missing ELSE table[k]]
    /\ work' = table'
    /\ Release(c)
    /\ UNCHANGED <<op, result>>

\* An operation that cannot even begin: Begin, Query or Exec returns an error.
BeginErr(c) ==
    /\ pc[c] = "begin"
    /\ ConnFree
    /\ result' = IF op[c].kind \in {"get", "all"} THEN [result EXCEPT ![c] = A!Nil]
                 ELSE result
    /\ Release(c)
    /\ UNCHANGED <<table, work, op>>

\* The process ends at any point; an open transaction is lost.
Restart ==
    /\ owner' = None
    /\ work' = table
    /\ pc' = [c \in Callers |-> "idle"]
    /\ rowsLeft' = [c \in Callers |-> <<>>]
    /\ keysLeft' = [c \in Callers |-> {}]
    /\ found' = [c \in Callers |-> A!Nil]
    /\ UNCHANGED <<table, op, result>>

-------------------------------------------------------------------------------

\* A statement on the connection, once the caller has it.
OnConn(c) ==
    \/ ExecOk(c) \/ ExecErr(c) \/ Commit(c) \/ CommitErr(c)
    \/ ScanRow(c) \/ EndScan(c) \/ ScanErr(c)

GetConn(c) == Begin(c) \/ Query(c) \/ DeleteStale(c) \/ BeginErr(c)

Next ==
    \/ \E c \in Callers : GetConn(c) \/ OnConn(c)
    \/ \E c \in Callers, o \in A!Ops : Call(c, o)
    \/ Restart

Spec == Init /\ [][Next]_vars

\* Statements end, and database/sql hands the connection to the waiting
\* callers in the order they came.
FairSpec ==
    Spec /\ \A c \in Callers : WF_vars(OnConn(c)) /\ SF_vars(GetConn(c))

-------------------------------------------------------------------------------
\* Properties

\* Every run of the cache is one of AtomicCache.
Atomic == A!Spec

\* Work in progress fits the table as it is now: the registers a Get has
\* scanned are still the current ones, and the upserts a transaction has made
\* and has yet to make give what they would give if they were made at once.
\* Nobody changes the table under a cursor or a transaction (cache.go:47, 229,
\* 254).
ProgressFitsTable ==
    \A c \in Callers :
        /\ pc[c] = "scan" =>
             \A k \in op[c].keys \ keysLeft[c] : found[c][k] = table[k]
        /\ pc[c] = "exec" =>
             A!After(rowsLeft[c], work) = A!After(op[c].rows, table)

\* Every operation ends: no error path keeps the connection, and nobody waits
\* for it while holding it.
OpsEnd == \A c \in Callers : pc[c] # "idle" ~> pc[c] = "idle"

================================================================================
