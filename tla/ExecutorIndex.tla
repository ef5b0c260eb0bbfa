--------------------------- MODULE ExecutorIndex ---------------------------
(***************************************************************************)
(* Which derivation index each stealth account of a wallet on one chain    *)
(* gets (vault/executors.rs, executors/spare.rs).                          *)
(*                                                                         *)
(* One allocation row holds the floor of unused indices and at most one    *)
(* spare: an account allocated ahead of need and not yet claimed.  Every   *)
(* account in use, restored by discovery, or displaced from the spare has  *)
(* a record.  Row and records are separate entries of the vault's          *)
(* database, so the row may be lost or restored from an older copy while   *)
(* newer records survive; the store then rebuilds the floor from the       *)
(* records.  Two operations on one account would link them and sign the    *)
(* same nonces, so no index may be given out twice, whatever happened to   *)
(* the row.                                                                *)
(*                                                                         *)
(* Every operation holds EXECUTOR_RECORD_LOCK from its first read to its   *)
(* last write and is one step.  An account's address is a function of its  *)
(* index, so addresses are left out, and with them the branches that       *)
(* refuse an address other than the known one.                             *)
(***************************************************************************)
EXTENDS Integers, Sequences

CONSTANTS
    OpIds,           \* operations that need an account
    Delegates,       \* delegate contracts
    Interchangeable, \* pairs of delegates whose accounts may be exchanged
    PositionStart, PositionEnd,  \* indices kept for position accounts
    IndexLimit,      \* INDEX_LIMIT
    MaxRecords,      \* bound: records
    None             \* no spare, or a record of no operation

ASSUME PositionAssumption ==
    /\ PositionStart \in Nat /\ PositionEnd \in Nat
    /\ PositionStart <= PositionEnd
ASSUME LimitAssumption == IndexLimit \in Nat
ASSUME BoundAssumption == MaxRecords \in Nat
ASSUME NoneAssumption ==
    /\ None \notin OpIds
    /\ None \notin [index : 0 .. IndexLimit, delegate : Delegates]

VARIABLES
    row,      \* the stored Allocation: next_index and spare
    records,  \* the records, in the order they were written
    backup,   \* an older copy of the row, outside the program
    replaced, \* history: the row was lost or replaced
    handed    \* history: spare indices given to callers

indexVars == <<row, records, backup, replaced, handed>>

Indices == 0 .. IndexLimit - 1
Spares == [index : Indices, delegate : Delegates]
Rows == [next : 0 .. IndexLimit, spare : Spares \cup {None}]
Records == [op : OpIds \cup {None}, index : Indices, delegate : Delegates]

\* Allocation::default, which a missing row is read as.
DefaultRow == [next |-> 0, spare |-> None]

Position(i) == PositionStart <= i /\ i <= PositionEnd

\* ordinary_index, where it is below the limit.
Ordinary(i) == IF Position(i) THEN PositionEnd + 1 ELSE i

Recorded(i) == \E n \in DOMAIN records : records[n].index = i
Known(op) == \E n \in DOMAIN records : records[n].op = op

-----------------------------------------------------------------------------
(* Reading the row: allocation() *)

\* What allocation() accepts.
Valid(r) ==
    /\ r.next <= IndexLimit
    /\ r.spare # None => r.spare.index < r.next /\ Ordinary(r.spare.index) = r.spare.index

\* The floor once the retained records raised it.
FloorOfRow(m) == m = row.next
Floor(m) ==
    /\ m >= row.next
    /\ \A n \in DOMAIN records : records[n].index < m
    /\ m = row.next \/ \E n \in DOMAIN records : m = records[n].index + 1

\* A spare at or below a record belongs to an older row: it was claimed, or a
\* newer account was allocated after it.
Stale(r) == r.spare # None /\ \E n \in DOMAIN records : records[n].index >= r.spare.index

\* retain_spare: a displaced spare becomes a retired record.
RetainNothing(recs, spare) == recs
Retain(recs, spare) ==
    IF spare = None THEN recs
    ELSE Append(recs, [op |-> None, index |-> spare.index, delegate |-> spare.delegate])

LoadedSpare == IF Stale(row) THEN None ELSE row.spare
LoadedRecords ==
    IF Stale(row) /\ ~Recorded(row.spare.index) THEN Retain(records, row.spare) ELSE records

Commit(r, recs) ==
    /\ Len(recs) <= MaxRecords
    /\ row' = r
    /\ records' = recs
    /\ UNCHANGED <<backup, replaced>>

\* next_index; also what is left of an operation that fails after it read the
\* row (an exhausted index space, a mismatched delegate or index) and of one
\* that finds nothing to change.
NextIndex ==
    \E m \in 0 .. IndexLimit :
      /\ Valid(row) /\ Floor(m)
      /\ Stale(row)
      /\ Commit([next |-> m, spare |-> None], LoadedRecords)
      /\ UNCHANGED handed

-----------------------------------------------------------------------------
(* Operations *)

\* reserve, allocate_record: claim the spare if it has the right delegate,
\* else take the next ordinary index.
Reserve(op, d) ==
    \E m \in 0 .. IndexLimit :
      /\ ~Known(op)
      /\ Valid(row) /\ Floor(m)
      /\ \/ /\ LoadedSpare # None /\ LoadedSpare.delegate = d
            /\ Commit([next |-> m, spare |-> None],
                      Append(LoadedRecords, [op |-> op, index |-> LoadedSpare.index, delegate |-> d]))
         \/ /\ LoadedSpare # None => LoadedSpare.delegate # d
            /\ Ordinary(m) < IndexLimit
            /\ Commit([next |-> Ordinary(m) + 1, spare |-> None],
                      Append(Retain(LoadedRecords, LoadedSpare),
                             [op |-> op, index |-> Ordinary(m), delegate |-> d]))
      /\ UNCHANGED handed

\* reserve of a known operation, or retarget_delegate: the account moves to
\* another delegate of the same capability.
Retarget(op, d) ==
    \E n \in DOMAIN records :
      /\ records[n].op = op
      /\ <<records[n].delegate, d>> \in Interchangeable
      /\ records' = [records EXCEPT ![n].delegate = d]
      /\ UNCHANGED <<row, backup, replaced, handed>>

\* reserve_spare, when the spare is missing or has another delegate.
ReserveSpare(d) ==
    \E m \in 0 .. IndexLimit :
      /\ Valid(row) /\ Floor(m)
      /\ LoadedSpare # None => LoadedSpare.delegate # d
      /\ Ordinary(m) < IndexLimit
      /\ Commit([next |-> Ordinary(m) + 1, spare |-> [index |-> Ordinary(m), delegate |-> d]],
                Retain(LoadedRecords, LoadedSpare))
      /\ handed' = handed \cup {Ordinary(m)}

\* bind_spare_address: the row is written back with the raised floor.
BindSpareAddress(i) ==
    \E m \in 0 .. IndexLimit :
      /\ Valid(row) /\ Floor(m)
      /\ LoadedSpare # None /\ LoadedSpare.index = i
      /\ Commit([next |-> m, spare |-> LoadedSpare], LoadedRecords)
      /\ UNCHANGED handed

\* The larger of two floors.
Raised(m, n) == IF m < n THEN n ELSE m

\* restore_index of an index without a record; the spare itself may be the
\* account found, and a spare below it is retained.
RestoreIndex(i, d) ==
    \E m \in 0 .. IndexLimit :
      /\ Valid(row) /\ Floor(m)
      /\ \A n \in DOMAIN LoadedRecords : LoadedRecords[n].index # i
      /\ LET s == LoadedSpare
         IN \/ /\ s # None /\ s.index = i
               /\ s.delegate = d \/ <<s.delegate, d>> \in Interchangeable
               /\ Commit([next |-> Raised(m, i + 1), spare |-> None],
                         Append(LoadedRecords, [op |-> None, index |-> i, delegate |-> s.delegate]))
            \/ /\ s # None => i < s.index
               /\ Commit([next |-> Raised(m, i + 1), spare |-> s],
                         Append(LoadedRecords, [op |-> None, index |-> i, delegate |-> d]))
            \/ /\ s # None /\ s.index < i
               /\ Commit([next |-> Raised(m, i + 1), spare |-> None],
                         Append(Retain(LoadedRecords, s),
                                [op |-> None, index |-> i, delegate |-> d]))
      /\ UNCHANGED handed

\* raise_floor: discovery reports indices in use below f.
RaiseFloor(f) ==
    \E m \in 0 .. IndexLimit :
      /\ Valid(row) /\ Floor(m)
      /\ LET s == LoadedSpare
         IN \/ /\ s # None /\ s.index < f
               /\ Commit([next |-> Raised(m, f), spare |-> None], Retain(LoadedRecords, s))
            \/ /\ s # None => f <= s.index
               /\ Commit([next |-> Raised(m, f), spare |-> s], LoadedRecords)
      /\ UNCHANGED handed

-----------------------------------------------------------------------------
(* The database, outside the program *)

\* A copy of the row is kept.
KeepCopy ==
    /\ backup' = row
    /\ UNCHANGED <<row, records, replaced, handed>>

\* The row is lost, or replaced by the older copy; the records survive.
ReplaceRow ==
    /\ row' \in {DefaultRow, backup}
    /\ replaced' = TRUE
    /\ UNCHANGED <<records, backup, handed>>

IndexInit ==
    /\ row = DefaultRow
    /\ records = <<>>
    /\ backup = DefaultRow
    /\ replaced = FALSE
    /\ handed = {}

IndexNext ==
    \/ NextIndex
    \/ \E op \in OpIds, d \in Delegates : Reserve(op, d) \/ Retarget(op, d)
    \/ \E d \in Delegates : ReserveSpare(d)
    \/ \E i \in Indices : BindSpareAddress(i)
    \/ \E i \in Indices, d \in Delegates : RestoreIndex(i, d)
    \/ \E f \in 0 .. IndexLimit : RaiseFloor(f)
    \/ KeepCopy
    \/ ReplaceRow

IndexSpec == IndexInit /\ [][IndexNext]_indexVars

-----------------------------------------------------------------------------
(* Properties *)

\* The type invariant.
IndexTypeOK ==
    /\ row \in Rows
    /\ records \in Seq(Records)
    /\ Len(records) <= MaxRecords
    /\ backup \in Rows
    /\ replaced \in BOOLEAN
    /\ handed \subseteq Indices

\* No two records are of one account, however often the row was lost or
\* replaced by an older one in between.
UniqueIndex ==
    \A n, k \in DOMAIN records : records[n].index = records[k].index => n = k

\* The store accepts whatever row it finds, an older one included: allocation()
\* never locks a wallet out with InvalidRecord.
RowAccepted == Valid(row) /\ Valid(backup)

\* Operations and spares stay out of the position accounts' indices.
OrdinaryOnly ==
    /\ \A n \in DOMAIN records : records[n].op # None => ~Position(records[n].index)
    /\ row.spare # None => ~Position(row.spare.index)

\* An account shown to a caller as the spare stays recoverable: until the row
\* was replaced from outside, it is the spare or has a record.
HandedKept ==
    ~replaced => \A i \in handed :
        Recorded(i) \/ (row.spare # None /\ row.spare.index = i)
=============================================================================
