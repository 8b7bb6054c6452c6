------------------------------ MODULE SpanStore ------------------------------
(* One connection to the span store (store/sqlite.py), seen by its writer.    *)
(* write() is two calls that can each raise: execute(INSERT), which opens a   *)
(* transaction if none is open, and commit(). An INSERT that raises leaves    *)
(* nothing behind. A commit that raises (a reader holds the database longer   *)
(* than SQLite's busy timeout) leaves the row in the open transaction: the    *)
(* next commit that succeeds brings it in, close() or a crash rolls it back.  *)
EXTENDS Subsequences

CONSTANT MaxStoreErrors     \* bound: spans that may be in txn or lost at a time

ASSUME StoreAssumption == MaxStoreErrors \in Nat

VARIABLES
    rows,   \* the committed spans in commit order, what readers see
    txn,    \* spans inserted by the open transaction and not committed
    lost    \* spans that were given to write() and will never be a row

storeVars == <<rows, txn, lost>>

StoreInit == rows = <<>> /\ txn = <<>> /\ lost = <<>>

WriteOk(s) ==
    /\ rows' = rows \o Append(txn, s)
    /\ txn' = <<>>
    /\ lost' = lost

ErrorAllowed == Len(txn) + Len(lost) < MaxStoreErrors

InsertRaises(s) ==
    /\ ErrorAllowed
    /\ lost' = Append(lost, s)
    /\ UNCHANGED <<rows, txn>>

CommitRaises(s) ==
    /\ ErrorAllowed
    /\ txn' = Append(txn, s)
    /\ UNCHANGED <<rows, lost>>

WriteRaises(s) == InsertRaises(s) \/ CommitRaises(s)

(* write() raises for s, nobody catches it and the store is closed on the way *)
(* out: an INSERT that failed and one that was never committed end alike.     *)
WriteRaisesThenCloses(s) ==
    /\ ErrorAllowed
    /\ lost' = lost \o Append(txn, s)
    /\ txn' = <<>>
    /\ rows' = rows

(* SpanStore.close, or the end of the process: the open transaction is rolled *)
(* back.                                                                      *)
CloseStore ==
    /\ lost' = lost \o txn
    /\ txn' = <<>>
    /\ rows' = rows

(* Every span write() was ever called with is in exactly one of these.        *)
Written == Contents(rows) \cup Contents(txn) \cup Contents(lost)
==============================================================================
