------------------------- MODULE AccountStoreProofs -------------------------
(***************************************************************************)
(* The stealth account store: the indices its accounts are derived from    *)
(* (ExecutorIndex) and the notes reserved for them (NoteReservation).      *)
(***************************************************************************)
EXTENDS ExecutorIndex, NoteReservation, FiniteSetTheorems, SequenceTheorems,
        WellFoundedInduction, TLAPS

-----------------------------------------------------------------------------
(* For every set of operations and delegates, every index space and every  *)
(* history of lost or replaced allocation rows: no two records have one    *)
(* index, the row is always accepted, operations stay out of the position  *)
(* indices, and no spare shown to a caller is lost by the program itself.  *)
(*                                                                         *)
(* The argument: what allocation() returns is safe to allocate from even   *)
(* though the row it read may be older than the records.  The floor lies   *)
(* above every record (Loading), and a spare survives the load only if it  *)
(* lies above every record too, so a new record taken from either is new.  *)

\* A list of records that may be stored, all below b.
Sound(recs, b) ==
    /\ recs \in Seq(Records)
    /\ \A n, k \in DOMAIN recs : recs[n].index = recs[k].index => n = k
    /\ \A n \in DOMAIN recs : recs[n].index < b
    /\ \A n \in DOMAIN recs : recs[n].op # None => ~Position(recs[n].index)

\* A spare that may be claimed beside recs and below b.
Free(s, recs, b) ==
    /\ s \in Spares \cup {None}
    /\ s # None => /\ s.index < b
                   /\ ~Position(s.index)
                   /\ \A n \in DOMAIN recs : recs[n].index < s.index

IndexIInv ==
    /\ Sound(records, IndexLimit)
    /\ row \in Rows /\ Valid(row)
    /\ backup \in Rows /\ Valid(backup)

\* ordinary_index moves up and out of the position indices.
LEMMA OrdinaryFacts ==
    ASSUME NEW i \in Nat
    PROVE  /\ Ordinary(i) \in Nat
           /\ Ordinary(i) >= i
           /\ ~Position(Ordinary(i))
           /\ Ordinary(i) = i <=> ~Position(i)
           /\ ~Position(i) => Ordinary(i) = i
           /\ Ordinary(Ordinary(i)) = Ordinary(i)
  BY PositionAssumption DEF Ordinary, Position

\* The records of a list are records, with integer indices.
LEMMA Elements ==
    ASSUME NEW recs \in Seq(Records)
    PROVE  \A n \in DOMAIN recs : recs[n] \in Records /\ recs[n].index \in Int
  <1>1. \A n \in DOMAIN recs : recs[n] \in Records
    OBVIOUS
  <1>2. \A r \in Records : r.index \in Int
    BY LimitAssumption DEF Records, Indices
  <1> QED
    BY <1>1, <1>2

\* Appending a record with a new index keeps a list sound.
LEMMA Adding ==
    ASSUME NEW recs, NEW b \in Nat, Sound(recs, b),
           NEW r \in Records, NEW c \in Nat, b <= c, r.index < c,
           \A n \in DOMAIN recs : recs[n].index # r.index,
           r.op # None => ~Position(r.index)
    PROVE  Sound(Append(recs, r), c)
  <1>1. /\ recs \in Seq(Records)
        /\ Append(recs, r) \in Seq(Records)
        /\ DOMAIN Append(recs, r) = 1 .. Len(recs) + 1
        /\ DOMAIN recs = 1 .. Len(recs)
        /\ Len(recs) \in Nat
        /\ \A n \in 1 .. Len(recs) : Append(recs, r)[n] = recs[n]
        /\ Append(recs, r)[Len(recs) + 1] = r
    BY DEF Sound
  <1>2. \A n \in 1 .. Len(recs) : recs[n] \in Records /\ recs[n].index \in Int
    BY <1>1, Elements
  <1>3. \A n \in 1 .. Len(recs) + 1 : n \in 1 .. Len(recs) \/ n = Len(recs) + 1
    BY <1>1
  <1>4. \A n, k \in DOMAIN Append(recs, r) :
          Append(recs, r)[n].index = Append(recs, r)[k].index => n = k
    BY <1>1, <1>3 DEF Sound
  <1>5. \A n \in DOMAIN Append(recs, r) : Append(recs, r)[n].index < c
    BY <1>1, <1>2, <1>3 DEF Sound
  <1>6. \A n \in DOMAIN Append(recs, r) :
          Append(recs, r)[n].op # None => ~Position(Append(recs, r)[n].index)
    BY <1>1, <1>3 DEF Sound
  <1> QED
    BY <1>1, <1>4, <1>5, <1>6 DEF Sound

\* A sound list is sound below any larger bound.
LEMMA Widening ==
    ASSUME NEW recs, NEW b \in Nat, NEW c \in Nat, b <= c, Sound(recs, b)
    PROVE  Sound(recs, c)
  <1>1. \A n \in DOMAIN recs : recs[n].index \in Int
    BY Elements DEF Sound
  <1> QED
    BY <1>1 DEF Sound

\* retain_spare keeps a list sound.
LEMMA Retaining ==
    ASSUME NEW recs, NEW b \in Nat, Sound(recs, b), NEW s, Free(s, recs, b)
    PROVE  Sound(Retain(recs, s), b)
  <1>1. CASE s = None
    BY <1>1 DEF Retain
  <1>2. CASE s # None
    <2> DEFINE r == [op |-> None, index |-> s.index, delegate |-> s.delegate]
    <2>1. s \in Spares
      BY <1>2 DEF Free
    <2>2. r \in Records /\ r.op = None /\ r.index = s.index /\ s.index \in Int
      BY <2>1, LimitAssumption DEF Spares, Records, Indices
    <2>3. \A n \in DOMAIN recs : recs[n].index \in Int /\ recs[n].index # s.index
      <3>1. \A n \in DOMAIN recs : recs[n].index \in Int
        BY Elements DEF Sound
      <3> QED BY <1>2, <2>2, <3>1 DEF Free
    <2>4. Sound(Append(recs, r), b)
      <3> HIDE DEF r
      <3> QED BY <1>2, <2>2, <2>3, Adding DEF Free
    <2> QED
      BY <1>2, <2>4 DEF Retain
  <1> QED
    BY <1>1, <1>2

\* allocation(): the floor, the records and the spare it returns are safe to
\* allocate from, whatever row it read.
LEMMA Loading ==
    ASSUME IndexIInv, NEW m \in 0 .. IndexLimit, Floor(m)
    PROVE  /\ m \in Nat
           /\ Sound(LoadedRecords, m)
           /\ Free(LoadedSpare, LoadedRecords, m)
  <1>0. m \in Nat /\ row.next \in Nat /\ row.next <= m
    BY LimitAssumption DEF IndexIInv, Rows, Floor
  <1>1. Sound(records, m)
    BY DEF IndexIInv, Sound, Floor
  <1>2. CASE row.spare = None
    BY <1>0, <1>1, <1>2 DEF LoadedRecords, LoadedSpare, Stale, Free
  <1>3. CASE row.spare # None
    <2>1. /\ row.spare \in Spares /\ row.spare.index \in Nat
          /\ row.spare.index < m /\ ~Position(row.spare.index)
      <3>1. row.spare \in Spares /\ row.spare.index \in Nat
        BY <1>3, LimitAssumption DEF IndexIInv, Rows, Spares, Indices
      <3>2. row.spare.index < row.next /\ Ordinary(row.spare.index) = row.spare.index
        BY <1>3 DEF IndexIInv, Valid
      <3> QED BY <1>0, <3>1, <3>2, OrdinaryFacts
    <2>2. \A n \in DOMAIN records : records[n].index \in Int
      BY Elements DEF IndexIInv, Sound
    <2>3. CASE ~Stale(row)
      <3>1. LoadedRecords = records /\ LoadedSpare = row.spare
        BY <2>3 DEF LoadedRecords, LoadedSpare
      <3>2. \A n \in DOMAIN records : records[n].index < row.spare.index
        BY <1>3, <2>1, <2>2, <2>3 DEF Stale
      <3> QED BY <1>0, <1>1, <2>1, <3>1, <3>2 DEF Free
    <2>4. CASE Stale(row) /\ Recorded(row.spare.index)
      <3>1. LoadedRecords = records /\ LoadedSpare = None
        BY <2>4 DEF LoadedRecords, LoadedSpare
      <3> QED BY <1>0, <1>1, <3>1 DEF Free
    <2>5. CASE Stale(row) /\ ~Recorded(row.spare.index)
      <3> DEFINE r == [op |-> None, index |-> row.spare.index, delegate |-> row.spare.delegate]
      <3>1. LoadedRecords = Append(records, r) /\ LoadedSpare = None
        BY <1>3, <2>5 DEF LoadedRecords, LoadedSpare, Retain
      <3>2. r \in Records /\ r.op = None /\ r.index = row.spare.index
        BY <2>1 DEF Spares, Records
      <3>3. \A n \in DOMAIN records : records[n].index # r.index
        BY <2>5, <3>2 DEF Recorded
      <3>4. Sound(Append(records, r), m)
        <4> HIDE DEF r
        <4> QED BY <1>0, <1>1, <2>1, <3>2, <3>3, Adding
      <3> QED BY <1>0, <3>1, <3>4 DEF Free
    <2> QED BY <2>3, <2>4, <2>5
  <1> QED
    BY <1>2, <1>3

\* What an operation writes keeps the invariant.
LEMMA Written ==
    ASSUME IndexIInv, NEW r, NEW recs, NEW b \in Nat, b <= IndexLimit, Sound(recs, b),
           r \in Rows, Valid(r), Commit(r, recs)
    PROVE  IndexIInv'
  <1>1. Sound(recs, IndexLimit)
    BY Widening, LimitAssumption
  <1>2. row' = r /\ records' = recs /\ backup' = backup
    BY DEF Commit
  <1>3. Sound(records, IndexLimit)'
    BY <1>1, <1>2 DEF Sound, Position
  <1> QED
    BY <1>2, <1>3 DEF IndexIInv, Valid, Ordinary, Position

\* The rows an operation may write: without a spare, with the spare it loaded,
\* or with the index it just took as the spare.
LEMMA RowsWritten ==
    ASSUME NEW next \in Nat, next <= IndexLimit
    PROVE  /\ [next |-> next, spare |-> None] \in Rows
           /\ Valid([next |-> next, spare |-> None])
           /\ \A s \in Spares \cup {None} :
                (s # None => s.index < next /\ ~Position(s.index)) =>
                   /\ [next |-> next, spare |-> s] \in Rows
                   /\ Valid([next |-> next, spare |-> s])
  <1>1. \A s \in Spares \cup {None} : [next |-> next, spare |-> s] \in Rows
    BY LimitAssumption DEF Rows
  <1>2. \A s \in Spares : s.index \in Nat
    BY LimitAssumption DEF Spares, Indices
  <1>3. \A s \in Spares \cup {None} :
          (s # None => s.index < next /\ ~Position(s.index)) => Valid([next |-> next, spare |-> s])
    BY <1>2, OrdinaryFacts DEF Valid
  <1> QED
    BY <1>1, <1>3 DEF Valid

\* A load that drops or retains a stale spare keeps the invariant.
LEMMA NextIndexStep ==
    ASSUME IndexIInv, NextIndex
    PROVE  IndexIInv'
  <1>1. PICK m \in 0 .. IndexLimit :
          Floor(m) /\ Commit([next |-> m, spare |-> None], LoadedRecords)
    BY DEF NextIndex
  <1>2. m \in Nat /\ m <= IndexLimit /\ Sound(LoadedRecords, m)
    BY <1>1, Loading, LimitAssumption
  <1> QED
    BY <1>1, <1>2, Written, RowsWritten

\* reserve takes an index no record has: the spare's or one above the floor.
LEMMA ReserveStep ==
    ASSUME IndexIInv, NEW op \in OpIds, NEW d \in Delegates, Reserve(op, d)
    PROVE  IndexIInv'
  <1>1. PICK m \in 0 .. IndexLimit :
          /\ Floor(m)
          /\ \/ /\ LoadedSpare # None /\ LoadedSpare.delegate = d
                /\ Commit([next |-> m, spare |-> None],
                          Append(LoadedRecords,
                                 [op |-> op, index |-> LoadedSpare.index, delegate |-> d]))
             \/ /\ Ordinary(m) < IndexLimit
                /\ Commit([next |-> Ordinary(m) + 1, spare |-> None],
                          Append(Retain(LoadedRecords, LoadedSpare),
                                 [op |-> op, index |-> Ordinary(m), delegate |-> d]))
    BY DEF Reserve
  <1>2. /\ m \in Nat /\ m <= IndexLimit
        /\ Sound(LoadedRecords, m) /\ Free(LoadedSpare, LoadedRecords, m)
    BY <1>1, Loading, LimitAssumption
  <1>3. CASE /\ LoadedSpare # None
             /\ Commit([next |-> m, spare |-> None],
                       Append(LoadedRecords,
                              [op |-> op, index |-> LoadedSpare.index, delegate |-> d]))
    <2> DEFINE r == [op |-> op, index |-> LoadedSpare.index, delegate |-> d]
    <2>1. LoadedSpare \in Spares /\ LoadedSpare.index \in Int
      BY <1>2, <1>3, LimitAssumption DEF Free, Spares, Indices
    <2>2. r \in Records /\ r.index = LoadedSpare.index
      BY <2>1 DEF Spares, Records
    <2>3. \A n \in DOMAIN LoadedRecords : LoadedRecords[n].index # r.index
      <3>1. \A n \in DOMAIN LoadedRecords : LoadedRecords[n].index \in Int
        BY <1>2, Elements DEF Sound
      <3> QED BY <1>2, <1>3, <2>1, <2>2, <3>1 DEF Free
    <2>4. Sound(Append(LoadedRecords, r), m)
      <3>1. r.index < m /\ ~Position(r.index)
        BY <1>2, <1>3, <2>2 DEF Free
      <3> HIDE DEF r
      <3> QED BY <1>2, <2>2, <2>3, <3>1, Adding
    <2> QED
      BY <1>2, <1>3, <2>4, Written, RowsWritten
  <1>4. CASE /\ Ordinary(m) < IndexLimit
             /\ Commit([next |-> Ordinary(m) + 1, spare |-> None],
                       Append(Retain(LoadedRecords, LoadedSpare),
                              [op |-> op, index |-> Ordinary(m), delegate |-> d]))
    <2> DEFINE r == [op |-> op, index |-> Ordinary(m), delegate |-> d]
               recs == Retain(LoadedRecords, LoadedSpare)
    <2>1. Ordinary(m) \in Nat /\ m <= Ordinary(m) /\ ~Position(Ordinary(m))
      BY <1>2, OrdinaryFacts
    <2>2. Sound(recs, m)
      BY <1>2, Retaining
    <2>3. r \in Records /\ r.index = Ordinary(m)
      BY <1>4, <2>1, LimitAssumption DEF Records, Indices
    <2>4. Sound(Append(recs, r), Ordinary(m) + 1)
      <3>1. \A n \in DOMAIN recs : recs[n].index # r.index
        <4>1. \A n \in DOMAIN recs : recs[n].index \in Int /\ recs[n].index < m
          <5> HIDE DEF recs
          <5> QED BY <2>2, Elements DEF Sound
        <4> QED BY <1>2, <2>1, <2>3, <4>1
      <3> HIDE DEF r, recs
      <3> QED BY <1>2, <2>1, <2>2, <2>3, <3>1, Adding
    <2>5. Ordinary(m) + 1 \in Nat /\ Ordinary(m) + 1 <= IndexLimit
      BY <1>4, <2>1, LimitAssumption
    <2> QED
      BY <1>4, <2>4, <2>5, Written, RowsWritten
  <1> QED
    BY <1>1, <1>3, <1>4

\* A delegate change leaves every index alone.
LEMMA RetargetStep ==
    ASSUME IndexIInv, NEW op \in OpIds, NEW d \in Delegates, Retarget(op, d)
    PROVE  IndexIInv'
  <1>1. PICK n \in DOMAIN records : records' = [records EXCEPT ![n].delegate = d]
    BY DEF Retarget
  <1>2. records \in Seq(Records) /\ DOMAIN records = 1 .. Len(records) /\ Len(records) \in Nat
    BY DEF IndexIInv, Sound
  <1>3. \A k \in DOMAIN records :
          /\ records'[k] \in Records
          /\ records'[k].index = records[k].index
          /\ records'[k].op = records[k].op
    <2>1. \A k \in DOMAIN records : records[k] \in Records
      BY <1>2
    <2> QED BY <1>1, <2>1 DEF Records
  <1>4. DOMAIN records' = DOMAIN records
    BY <1>1
  <1>5. records' \in Seq(Records)
    <2>1. records' \in [1 .. Len(records) -> Records]
      BY <1>1, <1>2, <1>3
    <2> QED BY <1>2, <2>1
  <1>6. Sound(records, IndexLimit)'
    BY <1>3, <1>4, <1>5 DEF IndexIInv, Sound, Position
  <1>7. row' = row /\ backup' = backup
    BY DEF Retarget
  <1> QED
    BY <1>6, <1>7 DEF IndexIInv, Valid, Ordinary, Position

\* reserve_spare takes an index above every record and retains the old spare.
LEMMA ReserveSpareStep ==
    ASSUME IndexIInv, NEW d \in Delegates, ReserveSpare(d)
    PROVE  IndexIInv'
  <1>1. PICK m \in 0 .. IndexLimit :
          /\ Floor(m)
          /\ Ordinary(m) < IndexLimit
          /\ Commit([next |-> Ordinary(m) + 1, spare |-> [index |-> Ordinary(m), delegate |-> d]],
                    Retain(LoadedRecords, LoadedSpare))
    BY DEF ReserveSpare
  <1>2. /\ m \in Nat /\ m <= IndexLimit
        /\ Sound(LoadedRecords, m) /\ Free(LoadedSpare, LoadedRecords, m)
    BY <1>1, Loading, LimitAssumption
  <1>3. Sound(Retain(LoadedRecords, LoadedSpare), m)
    BY <1>2, Retaining
  <1> DEFINE s == [index |-> Ordinary(m), delegate |-> d]
  <1>4. Ordinary(m) \in Nat /\ ~Position(Ordinary(m))
    BY <1>2, OrdinaryFacts
  <1>5. s \in Spares /\ s.index = Ordinary(m)
    BY <1>1, <1>4, LimitAssumption DEF Spares, Indices
  <1>6. Ordinary(m) + 1 \in Nat /\ Ordinary(m) + 1 <= IndexLimit
    BY <1>1, <1>4, LimitAssumption
  <1>7. /\ [next |-> Ordinary(m) + 1, spare |-> s] \in Rows
        /\ Valid([next |-> Ordinary(m) + 1, spare |-> s])
    <2>1. s.index < Ordinary(m) + 1 /\ ~Position(s.index)
      BY <1>4, <1>5
    <2> HIDE DEF s
    <2> QED BY <1>5, <1>6, <2>1, RowsWritten
  <1> QED
    BY <1>1, <1>2, <1>3, <1>7, Written

\* bind_spare_address writes back the spare it loaded.
LEMMA BindStep ==
    ASSUME IndexIInv, NEW i \in Indices, BindSpareAddress(i)
    PROVE  IndexIInv'
  <1>1. PICK m \in 0 .. IndexLimit :
          Floor(m) /\ Commit([next |-> m, spare |-> LoadedSpare], LoadedRecords)
    BY DEF BindSpareAddress
  <1>2. /\ m \in Nat /\ m <= IndexLimit
        /\ Sound(LoadedRecords, m) /\ Free(LoadedSpare, LoadedRecords, m)
    BY <1>1, Loading, LimitAssumption
  <1>3. /\ [next |-> m, spare |-> LoadedSpare] \in Rows
        /\ Valid([next |-> m, spare |-> LoadedSpare])
    BY <1>2, RowsWritten DEF Free
  <1> QED
    BY <1>1, <1>2, <1>3, Written

\* Raised is the larger floor.
LEMMA RaisedFacts ==
    ASSUME NEW m \in Nat, NEW n \in Nat, m <= IndexLimit, n <= IndexLimit
    PROVE  /\ Raised(m, n) \in Nat /\ Raised(m, n) <= IndexLimit
           /\ m <= Raised(m, n) /\ n <= Raised(m, n)
  BY DEF Raised

\* restore_index adds a record only for an index without one.
LEMMA RestoreStep ==
    ASSUME IndexIInv, NEW i \in Indices, NEW d \in Delegates, RestoreIndex(i, d)
    PROVE  IndexIInv'
  <1> DEFINE s == LoadedSpare
             found(e) == [op |-> None, index |-> i, delegate |-> e]
  <1>1. PICK m \in 0 .. IndexLimit :
          /\ Floor(m)
          /\ \A n \in DOMAIN LoadedRecords : LoadedRecords[n].index # i
          /\ \/ /\ s # None /\ s.index = i
                /\ Commit([next |-> Raised(m, i + 1), spare |-> None],
                          Append(LoadedRecords, found(s.delegate)))
             \/ /\ s # None => i < s.index
                /\ Commit([next |-> Raised(m, i + 1), spare |-> s],
                          Append(LoadedRecords, found(d)))
             \/ /\ s # None /\ s.index < i
                /\ Commit([next |-> Raised(m, i + 1), spare |-> None],
                          Append(Retain(LoadedRecords, s), found(d)))
    BY DEF RestoreIndex
  <1>2. /\ m \in Nat /\ m <= IndexLimit
        /\ Sound(LoadedRecords, m) /\ Free(s, LoadedRecords, m)
    BY <1>1, Loading, LimitAssumption
  <1> DEFINE f == Raised(m, i + 1)
  <1>3. i \in Nat /\ i + 1 \in Nat /\ i + 1 <= IndexLimit
    BY LimitAssumption DEF Indices
  <1>4. f \in Nat /\ f <= IndexLimit /\ m <= f /\ i < f
    BY <1>2, <1>3, RaisedFacts
  <1>5. \A e \in Delegates : found(e) \in Records /\ found(e).index = i /\ found(e).op = None
    BY DEF Records
  <1> HIDE DEF f, found, s
  <1>6. CASE /\ s # None
             /\ Commit([next |-> f, spare |-> None], Append(LoadedRecords, found(s.delegate)))
    <2>1. s.delegate \in Delegates
      BY <1>2, <1>6 DEF Free, Spares
    <2>2. Sound(Append(LoadedRecords, found(s.delegate)), f)
      BY <1>1, <1>2, <1>4, <1>5, <2>1, Adding
    <2> QED
      BY <1>4, <1>6, <2>2, Written, RowsWritten
  <1>7. CASE Commit([next |-> f, spare |-> s], Append(LoadedRecords, found(d)))
    <2>1. Sound(Append(LoadedRecords, found(d)), f)
      BY <1>1, <1>2, <1>4, <1>5, Adding
    <2>2. s \in Spares \cup {None} /\ (s # None => s.index < f /\ ~Position(s.index))
      <3>1. s # None => s.index \in Int
        BY <1>2, LimitAssumption DEF Free, Spares, Indices
      <3> QED BY <1>2, <1>4, <3>1 DEF Free
    <2>3. [next |-> f, spare |-> s] \in Rows /\ Valid([next |-> f, spare |-> s])
      BY <1>4, <2>2, RowsWritten
    <2> QED
      BY <1>4, <1>7, <2>1, <2>3, Written
  <1>8. CASE /\ s # None /\ s.index < i
             /\ Commit([next |-> f, spare |-> None], Append(Retain(LoadedRecords, s), found(d)))
    <2>1. Sound(Retain(LoadedRecords, s), m)
      BY <1>2, Retaining
    <2>2. \A n \in DOMAIN Retain(LoadedRecords, s) : Retain(LoadedRecords, s)[n].index # i
      <3> DEFINE r == [op |-> None, index |-> s.index, delegate |-> s.delegate]
      <3>1. Retain(LoadedRecords, s) = Append(LoadedRecords, r)
        BY <1>8 DEF Retain
      <3>2. r.index # i
        <4>1. s.index \in Int
          BY <1>2, <1>8, LimitAssumption DEF Free, Spares, Indices
        <4> QED BY <1>3, <1>8, <4>1
      <3>3. LoadedRecords \in Seq(Records)
        BY <1>2 DEF Sound
      <3>4. /\ DOMAIN Append(LoadedRecords, r) = 1 .. Len(LoadedRecords) + 1
            /\ DOMAIN LoadedRecords = 1 .. Len(LoadedRecords)
            /\ Len(LoadedRecords) \in Nat
            /\ \A n \in 1 .. Len(LoadedRecords) : Append(LoadedRecords, r)[n] = LoadedRecords[n]
            /\ Append(LoadedRecords, r)[Len(LoadedRecords) + 1] = r
        <4> HIDE DEF r
        <4> QED BY <3>3
      <3> HIDE DEF r
      <3> QED BY <1>1, <3>1, <3>2, <3>4
    <2>3. Sound(Append(Retain(LoadedRecords, s), found(d)), f)
      BY <1>2, <1>4, <1>5, <2>1, <2>2, Adding
    <2> QED
      BY <1>4, <1>8, <2>3, Written, RowsWritten
  <1> QED
    BY <1>1, <1>6, <1>7, <1>8 DEF f

\* raise_floor keeps the floor above every record and spare.
LEMMA RaiseFloorStep ==
    ASSUME IndexIInv, NEW f \in 0 .. IndexLimit, RaiseFloor(f)
    PROVE  IndexIInv'
  <1> DEFINE s == LoadedSpare
  <1>1. PICK m \in 0 .. IndexLimit :
          /\ Floor(m)
          /\ \/ Commit([next |-> Raised(m, f), spare |-> None], Retain(LoadedRecords, s))
             \/ Commit([next |-> Raised(m, f), spare |-> s], LoadedRecords)
    BY DEF RaiseFloor
  <1>2. /\ m \in Nat /\ m <= IndexLimit
        /\ Sound(LoadedRecords, m) /\ Free(s, LoadedRecords, m)
    BY <1>1, Loading, LimitAssumption
  <1>3. /\ Raised(m, f) \in Nat /\ Raised(m, f) <= IndexLimit /\ m <= Raised(m, f)
    BY <1>2, RaisedFacts, LimitAssumption
  <1>4. Sound(Retain(LoadedRecords, s), m)
    BY <1>2, Retaining
  <1> HIDE DEF s
  <1>5. s \in Spares \cup {None} /\ (s # None => s.index < Raised(m, f) /\ ~Position(s.index))
    <2>1. s # None => s.index \in Int
      BY <1>2, LimitAssumption DEF Free, Spares, Indices
    <2> QED BY <1>2, <1>3, <2>1 DEF Free
  <1>6. /\ [next |-> Raised(m, f), spare |-> s] \in Rows
        /\ Valid([next |-> Raised(m, f), spare |-> s])
    BY <1>3, <1>5, RowsWritten
  <1>7. /\ [next |-> Raised(m, f), spare |-> None] \in Rows
        /\ Valid([next |-> Raised(m, f), spare |-> None])
    BY <1>3, RowsWritten
  <1> QED
    BY <1>1, <1>2, <1>4, <1>6, <1>7, Written

\* A row that was lost or replaced is one the store wrote earlier.
LEMMA DatabaseStep ==
    ASSUME IndexIInv, KeepCopy \/ ReplaceRow
    PROVE  IndexIInv'
  <1>1. DefaultRow \in Rows /\ Valid(DefaultRow)
    BY LimitAssumption, RowsWritten DEF DefaultRow
  <1>2. records' = records
    BY DEF KeepCopy, ReplaceRow
  <1>3. row' \in Rows /\ Valid(row)' /\ backup' \in Rows /\ Valid(backup)'
    BY <1>1 DEF IndexIInv, KeepCopy, ReplaceRow, Valid, Ordinary, Position
  <1> QED
    BY <1>2, <1>3 DEF IndexIInv, Sound, Position

\* The invariant of the store.
THEOREM Invariance == IndexSpec => []IndexIInv
  <1>1. IndexInit => IndexIInv
    <2> SUFFICES ASSUME IndexInit PROVE IndexIInv
      OBVIOUS
    <2>1. DefaultRow \in Rows /\ Valid(DefaultRow)
      BY LimitAssumption, RowsWritten DEF DefaultRow
    <2>2. Sound(records, IndexLimit)
      BY DEF IndexInit, Sound
    <2> QED BY <2>1, <2>2 DEF IndexInit, IndexIInv
  <1>2. IndexIInv /\ [IndexNext]_indexVars => IndexIInv'
    <2> SUFFICES ASSUME IndexIInv, [IndexNext]_indexVars PROVE IndexIInv'
      OBVIOUS
    <2>1. CASE UNCHANGED indexVars
      BY <2>1 DEF indexVars, IndexIInv, Sound, Valid, Ordinary, Position
    <2>2. CASE IndexNext
      BY <2>2, NextIndexStep, ReserveStep, RetargetStep, ReserveSpareStep, BindStep,
         RestoreStep, RaiseFloorStep, DatabaseStep DEF IndexNext
    <2> QED BY <2>1, <2>2
  <1> QED
    BY <1>1, <1>2, PTL DEF IndexSpec

\* No two records are ever of one account: allocate_record, restore_index and
\* retain_spare never repeat an index, whatever happened to the row.
THEOREM IndexNeverReused == IndexSpec => []UniqueIndex
  <1>1. IndexIInv => UniqueIndex
    BY DEF IndexIInv, Sound, UniqueIndex
  <1> QED
    BY <1>1, Invariance, PTL

\* allocation() always accepts the stored row, an older copy included.
THEOREM RowAlwaysAccepted == IndexSpec => []RowAccepted
  <1>1. IndexIInv => RowAccepted
    BY DEF IndexIInv, RowAccepted
  <1> QED
    BY <1>1, Invariance, PTL

\* ordinary_index keeps operations and spares out of the position indices.
THEOREM PositionsKept == IndexSpec => []OrdinaryOnly
  <1>1. IndexIInv => OrdinaryOnly
    <2> SUFFICES ASSUME IndexIInv PROVE OrdinaryOnly
      OBVIOUS
    <2>1. row.spare # None => ~Position(row.spare.index)
      <3> SUFFICES ASSUME row.spare # None PROVE ~Position(row.spare.index)
        OBVIOUS
      <3>1. row.spare.index \in Nat
        BY LimitAssumption DEF IndexIInv, Rows, Spares, Indices
      <3>2. Ordinary(row.spare.index) = row.spare.index
        BY DEF IndexIInv, Valid
      <3> QED BY <3>1, <3>2, OrdinaryFacts
    <2> QED BY <2>1 DEF IndexIInv, Sound, OrdinaryOnly
  <1> QED
    BY <1>1, Invariance, PTL

-----------------------------------------------------------------------------
(* Types, and the accounts shown to callers *)

\* An account is kept if it has a record or is the spare.
Kept(i, recs, s) ==
    \/ \E n \in DOMAIN recs : recs[n].index = i
    \/ s # None /\ s.index = i

\* A longer list keeps what the shorter one kept, and the new record's index.
LEMMA AddingKeeps ==
    ASSUME NEW recs \in Seq(Records), NEW r \in Records, NEW i, NEW s,
           Kept(i, recs, None) \/ r.index = i
    PROVE  Kept(i, Append(recs, r), s)
  <1>1. /\ DOMAIN Append(recs, r) = 1 .. Len(recs) + 1
        /\ DOMAIN recs = 1 .. Len(recs)
        /\ Len(recs) \in Nat
        /\ \A n \in 1 .. Len(recs) : Append(recs, r)[n] = recs[n]
        /\ Append(recs, r)[Len(recs) + 1] = r
    OBVIOUS
  <1> QED
    BY <1>1 DEF Kept

\* retain_spare turns the spare into a record.
LEMMA RetainingKeeps ==
    ASSUME NEW recs \in Seq(Records), NEW s \in Spares \cup {None}, NEW i, NEW t,
           Kept(i, recs, s)
    PROVE  Kept(i, Retain(recs, s), t) /\ Retain(recs, s) \in Seq(Records)
  <1>1. CASE s = None
    BY <1>1 DEF Retain, Kept
  <1>2. CASE s # None
    <2> DEFINE r == [op |-> None, index |-> s.index, delegate |-> s.delegate]
    <2>1. r \in Records /\ r.index = s.index
      BY <1>2 DEF Spares, Records
    <2>2. Retain(recs, s) = Append(recs, r)
      BY <1>2 DEF Retain
    <2>3. Kept(i, recs, None) \/ r.index = i
      BY <2>1 DEF Kept
    <2> HIDE DEF r
    <2> QED BY <2>1, <2>2, <2>3, AddingKeeps
  <1> QED
    BY <1>1, <1>2

\* allocation() forgets no account.
LEMMA LoadingKeeps ==
    ASSUME IndexIInv, NEW i, Kept(i, records, row.spare)
    PROVE  Kept(i, LoadedRecords, LoadedSpare)
  <1>0. records \in Seq(Records) /\ row.spare \in Spares \cup {None}
    BY DEF IndexIInv, Sound, Rows
  <1>1. CASE ~Stale(row)
    BY <1>1 DEF LoadedRecords, LoadedSpare
  <1>2. CASE Stale(row) /\ Recorded(row.spare.index)
    BY <1>2 DEF LoadedRecords, Recorded, Kept
  <1>3. CASE Stale(row) /\ ~Recorded(row.spare.index)
    BY <1>0, <1>3, RetainingKeeps DEF LoadedRecords
  <1> QED
    BY <1>1, <1>2, <1>3

\* What allocation() returns is of the right type.
LEMMA LoadedTypes ==
    ASSUME IndexIInv, NEW m \in 0 .. IndexLimit, Floor(m)
    PROVE  /\ LoadedRecords \in Seq(Records)
           /\ LoadedSpare \in Spares \cup {None}
           /\ m \in Nat /\ m <= IndexLimit
  BY Loading, LimitAssumption DEF Sound, Free

\* No step loses an account that has a record or is the spare, except the
\* replacement of the row from outside.
LEMMA StepKeeps ==
    ASSUME IndexIInv, IndexNext, ~ReplaceRow, NEW i, Kept(i, records, row.spare)
    PROVE  Kept(i, records', row'.spare)
  <1> DEFINE recs == LoadedRecords
             s == LoadedSpare
  <1>0. Kept(i, recs, s)
    BY LoadingKeeps
  <1>1. CASE NextIndex
    <2>1. records' = recs /\ row'.spare = None /\ s = None
      BY <1>1 DEF NextIndex, Commit, LoadedSpare
    <2> QED BY <1>0, <2>1
  <1>2. ASSUME NEW op \in OpIds, NEW d \in Delegates, Reserve(op, d)
        PROVE  Kept(i, records', row'.spare)
    <2>1. PICK m \in 0 .. IndexLimit :
            /\ Floor(m)
            /\ \/ /\ s # None
                  /\ records' = Append(recs, [op |-> op, index |-> s.index, delegate |-> d])
               \/ /\ Ordinary(m) < IndexLimit
                  /\ records' = Append(Retain(recs, s),
                                       [op |-> op, index |-> Ordinary(m), delegate |-> d])
      BY <1>2 DEF Reserve, Commit
    <2>2. recs \in Seq(Records) /\ s \in Spares \cup {None} /\ m \in Nat
      BY <2>1, LoadedTypes
    <2> HIDE DEF recs, s
    <2>3. CASE s # None /\ records' = Append(recs, [op |-> op, index |-> s.index, delegate |-> d])
      <3> DEFINE r == [op |-> op, index |-> s.index, delegate |-> d]
      <3>1. r \in Records /\ r.index = s.index
        BY <2>2, <2>3 DEF Spares, Records
      <3>2. Kept(i, recs, None) \/ r.index = i
        BY <1>0, <3>1 DEF Kept
      <3>3. records' = Append(recs, r)
        BY <2>3
      <3> HIDE DEF r
      <3> QED BY <2>2, <3>1, <3>2, <3>3, AddingKeeps
    <2>4. CASE /\ Ordinary(m) < IndexLimit
               /\ records' = Append(Retain(recs, s),
                                    [op |-> op, index |-> Ordinary(m), delegate |-> d])
      <3> DEFINE r == [op |-> op, index |-> Ordinary(m), delegate |-> d]
      <3>1. r \in Records
        BY <2>2, <2>4, OrdinaryFacts, LimitAssumption DEF Records, Indices
      <3>2. Kept(i, Retain(recs, s), None) /\ Retain(recs, s) \in Seq(Records)
        BY <1>0, <2>2, RetainingKeeps
      <3>3. records' = Append(Retain(recs, s), r)
        BY <2>4
      <3> HIDE DEF r
      <3> QED BY <3>1, <3>2, <3>3, AddingKeeps
    <2> QED BY <2>1, <2>3, <2>4
  <1>3. ASSUME NEW op \in OpIds, NEW d \in Delegates, Retarget(op, d)
        PROVE  Kept(i, records', row'.spare)
    <2>1. PICK n \in DOMAIN records : records' = [records EXCEPT ![n].delegate = d]
      BY <1>3 DEF Retarget
    <2>2. \A k \in DOMAIN records : records[k] \in Records
      BY DEF IndexIInv, Sound
    <2>3. DOMAIN records' = DOMAIN records
      BY <2>1
    <2>4. \A k \in DOMAIN records : records'[k].index = records[k].index
      BY <2>1, <2>2 DEF Records
    <2>5. row' = row
      BY <1>3 DEF Retarget
    <2> QED BY <2>3, <2>4, <2>5 DEF Kept
  <1>4. ASSUME NEW d \in Delegates, ReserveSpare(d)
        PROVE  Kept(i, records', row'.spare)
    <2>1. PICK m \in 0 .. IndexLimit : Floor(m) /\ records' = Retain(recs, s)
      BY <1>4 DEF ReserveSpare, Commit
    <2>2. recs \in Seq(Records) /\ s \in Spares \cup {None}
      BY <2>1, LoadedTypes
    <2> HIDE DEF recs, s
    <2> QED BY <1>0, <2>1, <2>2, RetainingKeeps
  <1>5. ASSUME NEW j \in Indices, BindSpareAddress(j)
        PROVE  Kept(i, records', row'.spare)
    <2>1. records' = recs /\ row'.spare = s
      BY <1>5 DEF BindSpareAddress, Commit
    <2> QED BY <1>0, <2>1
  <1>6. ASSUME NEW j \in Indices, NEW d \in Delegates, RestoreIndex(j, d)
        PROVE  Kept(i, records', row'.spare)
    <2> DEFINE found(e) == [op |-> None, index |-> j, delegate |-> e]
    <2>1. PICK m \in 0 .. IndexLimit :
            /\ Floor(m)
            /\ \/ /\ s # None /\ s.index = j
                  /\ records' = Append(recs, found(s.delegate))
               \/ /\ row'.spare = s
                  /\ records' = Append(recs, found(d))
               \/ records' = Append(Retain(recs, s), found(d))
      BY <1>6 DEF RestoreIndex, Commit
    <2>2. recs \in Seq(Records) /\ s \in Spares \cup {None}
      BY <2>1, LoadedTypes
    <2>3. \A e \in Delegates : found(e) \in Records /\ found(e).index = j
      BY DEF Records
    <2> HIDE DEF recs, s, found
    <2>4. CASE s # None /\ s.index = j /\ records' = Append(recs, found(s.delegate))
      <3>1. s.delegate \in Delegates
        BY <2>2, <2>4 DEF Spares
      <3>2. Kept(i, recs, None) \/ found(s.delegate).index = i
        BY <1>0, <2>3, <2>4, <3>1 DEF Kept
      <3> QED BY <2>2, <2>3, <2>4, <3>1, <3>2, AddingKeeps
    <2>5. CASE row'.spare = s /\ records' = Append(recs, found(d))
      <3>1. CASE Kept(i, recs, None)
        BY <2>2, <2>3, <2>5, <3>1, AddingKeeps
      <3>2. CASE s # None /\ s.index = i
        BY <2>5, <3>2 DEF Kept
      <3> QED BY <1>0, <3>1, <3>2 DEF Kept
    <2>6. CASE records' = Append(Retain(recs, s), found(d))
      <3>1. Kept(i, Retain(recs, s), None) /\ Retain(recs, s) \in Seq(Records)
        BY <1>0, <2>2, RetainingKeeps
      <3> QED BY <2>3, <2>6, <3>1, AddingKeeps
    <2> QED BY <2>1, <2>4, <2>5, <2>6
  <1>7. ASSUME NEW f \in 0 .. IndexLimit, RaiseFloor(f)
        PROVE  Kept(i, records', row'.spare)
    <2>1. PICK m \in 0 .. IndexLimit :
            /\ Floor(m)
            /\ records' = Retain(recs, s) \/ (records' = recs /\ row'.spare = s)
      BY <1>7 DEF RaiseFloor, Commit
    <2>2. recs \in Seq(Records) /\ s \in Spares \cup {None}
      BY <2>1, LoadedTypes
    <2> HIDE DEF recs, s
    <2> QED BY <1>0, <2>1, <2>2, RetainingKeeps
  <1>8. CASE KeepCopy
    BY <1>8 DEF KeepCopy
  <1> QED
    BY <1>1, <1>2, <1>3, <1>4, <1>5, <1>6, <1>7, <1>8 DEF IndexNext

\* Until the row is replaced from outside, reserve, restore_index, raise_floor
\* and a changed delegate lose no spare that a caller was shown.
THEOREM SparesKept == IndexSpec => []HandedKept
  <1>1. IndexInit => HandedKept
    BY DEF IndexInit, HandedKept
  <1>2. IndexIInv /\ HandedKept /\ [IndexNext]_indexVars => HandedKept'
    <2> SUFFICES ASSUME IndexIInv, HandedKept, [IndexNext]_indexVars, ~replaced', NEW i \in handed'
                 PROVE  Kept(i, records', row'.spare)
      BY DEF HandedKept, Kept, Recorded
    <2>1. CASE UNCHANGED indexVars
      BY <2>1 DEF indexVars, HandedKept, Kept, Recorded
    <2>2. CASE IndexNext
      <3>1. ~ReplaceRow
        BY DEF ReplaceRow
      <3>2. ~replaced
        BY <2>2, <3>1 DEF IndexNext, NextIndex, Reserve, Retarget, ReserveSpare,
           BindSpareAddress, RestoreIndex, RaiseFloor, KeepCopy, Commit
      <3>3. CASE i \in handed
        <4>1. Kept(i, records, row.spare)
          BY <3>2, <3>3 DEF HandedKept, Kept, Recorded
        <4> QED BY <2>2, <3>1, <4>1, StepKeeps
      <3>4. CASE i \notin handed
        <4>1. PICK d \in Delegates : ReserveSpare(d)
          BY <2>2, <3>4 DEF IndexNext, NextIndex, Reserve, Retarget, BindSpareAddress,
             RestoreIndex, RaiseFloor, KeepCopy, ReplaceRow
        <4>2. PICK m \in 0 .. IndexLimit :
                /\ row'.spare = [index |-> Ordinary(m), delegate |-> d]
                /\ handed' = handed \cup {Ordinary(m)}
                /\ Ordinary(m) < IndexLimit
          BY <4>1 DEF ReserveSpare, Commit
        <4>3. i = Ordinary(m) /\ row'.spare # None
          <5>1. Ordinary(m) \in 0 .. IndexLimit
            BY <4>2, OrdinaryFacts, LimitAssumption
          <5> QED BY <3>4, <4>2, <5>1, NoneAssumption
        <4> QED BY <4>2, <4>3 DEF Kept
      <3> QED BY <3>3, <3>4
    <2> QED BY <2>1, <2>2
  <1> QED
    BY <1>1, <1>2, Invariance, PTL DEF IndexSpec

\* The store's state keeps its type: every index given out is below the limit,
\* and no write passes the bound on the records.
THEOREM TypeCorrect == IndexSpec => []IndexTypeOK
  <1> DEFINE T == Len(records) <= MaxRecords /\ replaced \in BOOLEAN /\ handed \subseteq Indices
  <1>1. IndexInit => T
    <2> SUFFICES ASSUME IndexInit PROVE T
      OBVIOUS
    <2>1. Len(records) = 0
      BY DEF IndexInit
    <2>2. Len(records) <= MaxRecords
      BY <2>1, BoundAssumption
    <2>3. replaced \in BOOLEAN /\ handed \subseteq Indices
      BY DEF IndexInit
    <2> QED BY <2>2, <2>3
  <1>2. IndexIInv /\ T /\ [IndexNext]_indexVars => T'
    <2> SUFFICES ASSUME IndexIInv, T, [IndexNext]_indexVars PROVE T'
      OBVIOUS
    <2>1. CASE UNCHANGED indexVars
      BY <2>1 DEF indexVars
    <2>2. ASSUME Len(records') <= MaxRecords, UNCHANGED <<replaced, handed>> PROVE T'
      BY <2>2
    <2>3. CASE \E op \in OpIds, d \in Delegates : Retarget(op, d)
      <3>1. PICK d \in Delegates, n \in DOMAIN records :
              records' = [records EXCEPT ![n].delegate = d] /\ UNCHANGED <<replaced, handed>>
        BY <2>3 DEF Retarget
      <3>2. records \in Seq(Records)
        BY DEF IndexIInv, Sound
      <3>3. Len(records') = Len(records)
        BY <3>1, <3>2
      <3> QED BY <2>2, <3>1, <3>3
    <2>4. CASE \E d \in Delegates : ReserveSpare(d)
      <3>1. PICK m \in 0 .. IndexLimit :
              /\ Ordinary(m) < IndexLimit /\ handed' = handed \cup {Ordinary(m)}
              /\ Len(records') <= MaxRecords /\ replaced' = replaced
        BY <2>4 DEF ReserveSpare, Commit
      <3>2. Ordinary(m) \in Indices
        BY <3>1, OrdinaryFacts, LimitAssumption DEF Indices
      <3> QED BY <3>1, <3>2
    <2>5. CASE KeepCopy \/ ReplaceRow
      BY <2>5 DEF KeepCopy, ReplaceRow
    <2>6. CASE NextIndex \/ \E op \in OpIds, d \in Delegates : Reserve(op, d)
      <3>1. Len(records') <= MaxRecords /\ UNCHANGED <<replaced, handed>>
        BY <2>6 DEF NextIndex, Reserve, Commit
      <3> QED BY <2>2, <3>1
    <2>7. CASE \/ \E j \in Indices : BindSpareAddress(j)
               \/ \E j \in Indices, d \in Delegates : RestoreIndex(j, d)
               \/ \E f \in 0 .. IndexLimit : RaiseFloor(f)
      <3>1. Len(records') <= MaxRecords /\ UNCHANGED <<replaced, handed>>
        BY <2>7 DEF BindSpareAddress, RestoreIndex, RaiseFloor, Commit
      <3> QED BY <2>2, <3>1
    <2> QED BY <2>1, <2>3, <2>4, <2>5, <2>6, <2>7 DEF IndexNext
  <1>3. IndexIInv /\ T => IndexTypeOK
    BY DEF IndexIInv, Sound, IndexTypeOK
  <1> QED
    BY <1>1, <1>2, <1>3, Invariance, PTL DEF IndexSpec

-----------------------------------------------------------------------------
(* Note reservations, for any operations, payloads, notes and nonces, and  *)
(* a chain of any length: no note is reserved for two operations, a note   *)
(* that looks free is unspent, and a payload that can still run keeps its  *)
(* notes reserved.                                                         *)

Evidence == [nonce : Nat, block : Nat]
Block == Payloads \cup {Nothing}

TypeInv ==
    /\ chain \in Seq(Block)
    /\ orphan \in Seq(Block)
    /\ scanned \in Nat /\ scanned <= Tip
    /\ reorgs \in Nat
    /\ issued \subseteq Payloads
    /\ mark \in [Operations -> Evidence]
    /\ settled \in [Operations -> Nat]
    /\ current \subseteq Operations

\* Every block that executes a payload consumed exactly the nonce it was signed at.
ChainInv ==
    \A h \in 1 .. Tip : chain[h] # Nothing =>
        /\ chain[h] \in issued
        /\ NonceOf[chain[h]] = NonceAt(Owner[chain[h]], h - 1)

\* The watermark of an account read since the last reorganisation is no higher than
\* its nonce.
ReadInv == \A o \in current : mark[o].nonce <= NonceAt(o, Tip)

\* Without reorganisations the watermark is no higher than the nonce at its own block,
\* and the settled nonce no higher than the watermark and what sync has scanned.
MarkInv(o) ==
    /\ mark[o].block <= Tip
    /\ mark[o].nonce <= NonceAt(o, mark[o].block)
    /\ settled[o] <= mark[o].nonce
    /\ settled[o] <= NonceAt(o, scanned)

StraightInv == reorgs = 0 => orphan = <<>> /\ \A o \in Operations : MarkInv(o)

IInv == TypeInv /\ ChainInv /\ ReadInv /\ StraightInv /\ OneReservation

-----------------------------------------------------------------------------
(* Nonces                                                                  *)

LEMMA NonceNat ==
    ASSUME NEW ch, NEW o, NEW b \in Nat
    PROVE  /\ IsFiniteSet({h \in 1 .. b : ch[h] \in Of(o)})
           /\ NonceIn(ch, o, b) \in Nat
<1>1. IsFiniteSet(1 .. b)
  BY FS_Interval
<1>2. IsFiniteSet({h \in 1 .. b : ch[h] \in Of(o)})
  BY <1>1, FS_Subset
<1>. QED BY <1>2, FS_CardinalityType DEF NonceIn

\* An account's nonce never falls along a chain.
LEMMA NonceMonotone ==
    ASSUME NEW ch, NEW o, NEW a \in Nat, NEW b \in Nat, a <= b
    PROVE  NonceIn(ch, o, a) <= NonceIn(ch, o, b)
<1>. DEFINE A == {h \in 1 .. a : ch[h] \in Of(o)}
            B == {h \in 1 .. b : ch[h] \in Of(o)}
<1>1. A \subseteq B /\ IsFiniteSet(B)
  BY NonceNat
<1>2. Cardinality(A) <= Cardinality(B)
  <2>. HIDE DEF A, B
  <2>. QED BY <1>1, FS_Subset
<1>. QED BY <1>2 DEF NonceIn

\* A block that executes a payload of the account raises its nonce by one.
LEMMA NonceNext ==
    ASSUME NEW ch, NEW o, NEW b \in Nat, b > 0, ch[b] \in Of(o)
    PROVE  NonceIn(ch, o, b) = NonceIn(ch, o, b - 1) + 1
<1>. DEFINE A == {h \in 1 .. b - 1 : ch[h] \in Of(o)}
            B == {h \in 1 .. b : ch[h] \in Of(o)}
<1>1. B = A \cup {b} /\ b \notin A /\ b - 1 \in Nat
  OBVIOUS
<1>2. IsFiniteSet(A)
  BY <1>1, NonceNat
<1>3. Cardinality(B) = Cardinality(A) + 1
  <2>. HIDE DEF A, B
  <2>. QED BY <1>1, <1>2, FS_AddElement
<1>. QED BY <1>3 DEF NonceIn

\* Chains that agree up to a block show the same nonces up to it.
LEMMA NonceAgree ==
    ASSUME NEW ch, NEW dh, NEW o, NEW b \in Nat, \A h \in 1 .. b : ch[h] = dh[h]
    PROVE  NonceIn(ch, o, b) = NonceIn(dh, o, b)
<1>1. {h \in 1 .. b : ch[h] \in Of(o)} = {h \in 1 .. b : dh[h] \in Of(o)}
  OBVIOUS
<1>. QED BY <1>1 DEF NonceIn

\* A nonempty set of numbers that has a bound has a greatest one.
LEMMA Greatest ==
    ASSUME NEW S \in SUBSET Nat, S # {}, NEW n \in Nat, \A x \in S : x <= n
    PROVE  \E x \in S : \A y \in S : y <= x
<1>. DEFINE R == OpToRel(<, Nat)
            T == {n - x : x \in S}
<1>0. \A x \in S : x \in Nat /\ n - x \in Nat
  <2>. SUFFICES ASSUME NEW x \in S PROVE x \in Nat /\ n - x \in Nat
    OBVIOUS
  <2>1. x \in Nat /\ x <= n
    OBVIOUS
  <2>. QED BY <2>1
<1>1. T \subseteq Nat /\ T # {}
  BY <1>0
<1>2. PICK t \in T : \A u \in T : ~(<<u, t>> \in R)
  <2>. HIDE DEF T
  <2>. QED BY <1>1, NatLessThanWellFounded, WFMin, Zenon
<1>3. PICK x \in S : t = n - x
  OBVIOUS
<1>4. ASSUME NEW y \in S, x < y PROVE FALSE
  <2>1. n - y \in T /\ n - y < t /\ n - y \in Nat /\ t \in Nat
    BY <1>0, <1>3, <1>4
  <2>. DEFINE u == n - y
  <2>. HIDE DEF u, T
  <2>2. u \in T /\ u < t /\ u \in Nat /\ t \in Nat
    BY <2>1 DEF u
  <2>3. <<u, t>> \in R
    BY <2>2, Zenon DEF OpToRel
  <2>. QED BY <1>2, <2>2, <2>3, Zenon
<1>5. ASSUME NEW y \in S PROVE y <= x
  <2>1. x \in Nat /\ y \in Nat
    BY <1>0
  <2>2. ~(x < y)
    BY <1>4
  <2>. QED BY <2>1, <2>2
<1>. QED BY <1>5

-----------------------------------------------------------------------------
(* Reservations                                                            *)

LEMMA InReserved ==
    ASSUME NEW o
    PROVE  \A n : n \in Reserved(o) <=>
                    \E p \in Payloads : Owner[p] = o /\ Reserving(p) /\ n \in Inputs[p]
BY DEF Reserved, Of

\* Where nothing new is reserved, no note gets a second reservation.
LEMMA KeepsOne ==
    ASSUME OneReservation, reorgs' = 0 => reorgs = 0, resent \subseteq resent',
           \A p \in Payloads : Reserving(p)' => Reserving(p)
    PROVE  OneReservation'
<1>. SUFFICES ASSUME reorgs' = 0, NEW o \in Operations, NEW q \in Operations, o # q,
                     NEW n \in Reserved(o)', n \in Reserved(q)'
              PROVE  n \in resent'
  BY DEF OneReservation
<1>1. PICK p \in Payloads : Owner[p] = o /\ Reserving(p)' /\ n \in Inputs[p]
  BY DEF Reserved, Of
<1>2. PICK r \in Payloads : Owner[r] = q /\ Reserving(r)' /\ n \in Inputs[r]
  BY DEF Reserved, Of
<1>3. n \in Reserved(o) /\ n \in Reserved(q)
  BY <1>1, <1>2, InReserved
<1>. QED BY <1>3 DEF OneReservation

\* One payload may reserve its notes if nobody else holds them, or if it was sent.
LEMMA AddsOne ==
    ASSUME OneReservation, reorgs' = reorgs, resent \subseteq resent', NEW p \in Payloads,
           \A r \in Payloads \ {p} : Reserving(r)' => Reserving(r),
           Unreserved(p) \/ Inputs[p] \subseteq resent'
    PROVE  OneReservation'
<1>. SUFFICES ASSUME reorgs = 0, NEW o \in Operations, NEW q \in Operations, o # q,
                     NEW n \in Reserved(o)', n \in Reserved(q)'
              PROVE  n \in resent'
  BY DEF OneReservation
<1>1. PICK a \in Payloads : Owner[a] = o /\ Reserving(a)' /\ n \in Inputs[a]
  BY DEF Reserved, Of
<1>2. PICK b \in Payloads : Owner[b] = q /\ Reserving(b)' /\ n \in Inputs[b]
  BY DEF Reserved, Of
<1>3. CASE a # p /\ b # p
  <2>1. n \in Reserved(o) /\ n \in Reserved(q)
    BY <1>1, <1>2, <1>3, InReserved
  <2>. QED BY <2>1 DEF OneReservation
<1>4. CASE a = p
  <2>1. n \in Reserved(q) /\ q # Owner[p]
    BY <1>1, <1>2, <1>4, InReserved
  <2>. QED BY <1>1, <1>4, <2>1 DEF Unreserved
<1>5. CASE b = p
  <2>1. n \in Reserved(o) /\ o # Owner[p]
    BY <1>1, <1>2, <1>5, InReserved
  <2>. QED BY <1>2, <1>5, <2>1 DEF Unreserved
<1>. QED BY <1>3, <1>4, <1>5

-----------------------------------------------------------------------------
(* Evidence                                                                *)

\* What a block shows of an account's nonce.
Shows(o, m) ==
    /\ m \in Evidence
    /\ m.block <= Tip
    /\ m.nonce = NonceAt(o, m.block)

\* Sync only ever raises the watermark, and to what some block shows.
LEMMA SyncedShows ==
    ASSUME TypeInv, ChainInv, NEW o \in Operations, NEW s, NEW safe,
           Resolutions(o, s, safe) # {}
    PROVE  LET m == Highest(Resolutions(o, s, safe))
           IN  Shows(o, m) /\ mark[o].nonce < m.nonce
<1>. DEFINE found == Resolutions(o, s, safe)
<1>1. ASSUME NEW m \in found PROVE Shows(o, m) /\ mark[o].nonce < m.nonce
  <2>1. PICK h \in 1 .. Tip : /\ m = [nonce |-> NonceOf[chain[h]] + 1, block |-> h]
                              /\ chain[h] \in Of(o)
                              /\ ~Resolved(chain[h])
    BY DEF Resolutions
  <2>. DEFINE p == chain[h]
  <2>2. p \in Payloads /\ Owner[p] = o /\ p # Nothing
    BY <2>1, ReservationAssumption DEF Of
  <2>3. NonceOf[p] = NonceIn(chain, o, h - 1)
    BY <2>2 DEF ChainInv, NonceAt
  <2>4. h \in Nat /\ h > 0 /\ h <= Tip
    BY LenProperties DEF TypeInv, Tip
  <2>5. NonceIn(chain, o, h) = NonceOf[p] + 1
    BY <2>1, <2>3, <2>4, NonceNext
  <2>6. NonceOf[p] \in Nat /\ mark[o] \in Evidence
    BY <2>2, ReservationAssumption DEF TypeInv
  <2>7. mark[o].nonce <= NonceOf[p]
    BY <2>1, <2>2, <2>6 DEF Resolved, Evidence
  <2>8. m.nonce = NonceOf[p] + 1 /\ m.block = h /\ m \in Evidence
    BY <2>1, <2>4, <2>6 DEF Evidence
  <2>. HIDE DEF p
  <2>9. mark[o].nonce < m.nonce
    BY <2>6, <2>7, <2>8 DEF Evidence
  <2>. QED BY <2>4, <2>5, <2>8, <2>9 DEF Shows, NonceAt
<1>. HIDE DEF found
<1>2. \E m \in found : \A n \in found : n.nonce <= m.nonce
  <2>. DEFINE S == {m.nonce : m \in found}
              top == NonceAt(o, Tip)
  <2>1. Tip \in Nat /\ top \in Nat
    BY LenProperties, NonceNat DEF TypeInv, Tip, NonceAt
  <2>2. ASSUME NEW m \in found PROVE m.nonce \in Nat /\ m.nonce <= top
    <3>1. Shows(o, m)
      BY <1>1
    <3>2. m.block \in Nat /\ m.block <= Tip /\ m.nonce \in Nat
      BY <3>1 DEF Shows, Evidence
    <3>. QED BY <2>1, <3>1, <3>2, NonceMonotone DEF Shows, NonceAt
  <2>3. S \in SUBSET Nat /\ S # {} /\ \A x \in S : x <= top
    BY <2>2 DEF found
  <2>4. PICK x \in S : \A y \in S : y <= x
    <3>. HIDE DEF S, top
    <3>. QED BY <2>1, <2>3, Greatest
  <2>. QED BY <2>4
<1>3. Highest(found) \in found
  BY <1>2 DEF Highest
<1>. QED BY <1>1, <1>3 DEF found

\* New evidence of one account that is no lower than the old, on the same chain.
LEMMA MarkRises ==
    ASSUME TypeInv, StraightInv, OneReservation, NEW o \in Operations, NEW m \in Evidence,
           NEW s \in Nat, reorgs = 0 => /\ m.block <= Tip
                                        /\ m.nonce <= NonceAt(o, m.block)
                                        /\ mark[o].nonce <= m.nonce
                                        /\ settled[o] <= s /\ s <= m.nonce
                                        /\ s <= NonceAt(o, scanned),
           mark' = [mark EXCEPT ![o] = m], settled' = [settled EXCEPT ![o] = s],
           UNCHANGED <<chain, scanned, reorgs, orphan, issued, released, resent>>
    PROVE  StraightInv' /\ OneReservation'
<1>1. CASE reorgs # 0
  BY <1>1 DEF StraightInv, OneReservation
<1>2. CASE reorgs = 0
  <2>1. ASSUME NEW q \in Operations
        PROVE  /\ MarkInv(q)'
               /\ mark[q].nonce <= mark'[q].nonce /\ settled[q] <= settled'[q]
    <3>1. MarkInv(q)
      BY <1>2 DEF StraightInv
    <3>2. CASE q = o
      <4>1. mark'[o] = m /\ settled'[o] = s
        BY DEF TypeInv
      <4>. QED BY <1>2, <3>1, <3>2, <4>1 DEF MarkInv, Tip, NonceAt
    <3>3. CASE q # o
      <4>1. mark'[q] = mark[q] /\ settled'[q] = settled[q]
        BY <3>3 DEF TypeInv
      <4>2. mark[q] \in Evidence /\ settled[q] \in Nat
        BY DEF TypeInv
      <4>3. mark[q].nonce <= mark'[q].nonce /\ settled[q] <= settled'[q]
        BY <4>1, <4>2 DEF Evidence
      <4>4. MarkInv(q)'
        BY <3>1, <4>1 DEF MarkInv, Tip, NonceAt
      <4>. QED BY <4>3, <4>4
    <3>. QED BY <3>2, <3>3
  <2>2. StraightInv'
    BY <1>2, <2>1 DEF StraightInv
  <2>3. ASSUME NEW p \in Payloads, Reserving(p)' PROVE Reserving(p)
    <3>. DEFINE q == Owner[p]
    <3>1. q \in Operations /\ NonceOf[p] \in Nat
      BY ReservationAssumption
    <3>2. /\ mark[q].nonce \in Nat /\ mark'[q].nonce \in Nat
          /\ settled[q] \in Nat /\ settled'[q] \in Nat
      BY <3>1 DEF TypeInv, Evidence
    <3>3. mark[q].nonce <= mark'[q].nonce /\ settled[q] <= settled'[q]
      BY <2>1, <3>1
    <3>4. Settled(p) => Settled(p)'
      BY <3>1, <3>2, <3>3 DEF Settled, Resolved
    <3>. QED BY <2>3, <3>4 DEF Reserving
  <2>4. OneReservation'
    BY <2>3, KeepsOne
  <2>. QED BY <2>2, <2>4
<1>. QED BY <1>1, <1>2

-----------------------------------------------------------------------------
(* The steps                                                               *)

\* Steps that touch neither the chain nor the evidence only have to keep the notes
\* apart.
LEMMA StoreStep ==
    ASSUME IInv, UNCHANGED <<chain, scanned, reorgs, orphan, mark, settled, current>>,
           issued \subseteq issued', issued' \subseteq Payloads, OneReservation'
    PROVE  IInv'
<1>1. TypeInv' /\ ReadInv'
  BY DEF IInv, TypeInv, ReadInv, Tip, NonceAt
<1>2. ChainInv'
  BY DEF IInv, ChainInv, Tip, NonceAt
<1>3. StraightInv'
  BY DEF IInv, StraightInv, MarkInv, Tip, NonceAt
<1>. QED BY <1>1, <1>2, <1>3 DEF IInv

LEMMA RecordIssuedStep ==
    ASSUME IInv, NEW p \in Payloads, RecordIssued(p)
    PROVE  IInv'
<1>1. /\ UNCHANGED <<chain, scanned, reorgs, orphan, mark, settled, current, resent>>
      /\ Unreserved(p) /\ issued' = issued \cup {p} /\ released' = released \ {p}
  BY DEF RecordIssued
<1>2. \A r \in Payloads \ {p} : Reserving(r)' => Reserving(r)
  BY <1>1 DEF Reserving, Settled, Resolved
<1>3. OneReservation'
  BY <1>1, <1>2, AddsOne DEF IInv
<1>. QED BY <1>1, <1>3, StoreStep DEF IInv, TypeInv

LEMMA RecordSubmissionStep ==
    ASSUME IInv, NEW p \in Payloads, RecordSubmission(p)
    PROVE  IInv'
<1>1. /\ UNCHANGED <<chain, scanned, reorgs, orphan, mark, settled, current, issued>>
      /\ released' = released \ {p}
      /\ resent' = IF p \in released THEN resent \cup Inputs[p] ELSE resent
  BY DEF RecordSubmission
<1>2. \A r \in Payloads : r # p \/ p \notin released => (Reserving(r)' => Reserving(r))
  BY <1>1 DEF Reserving, Settled, Resolved
<1>3. OneReservation'
  <2>1. CASE p \in released
    BY <1>1, <1>2, <2>1, AddsOne DEF IInv
  <2>2. CASE p \notin released
    BY <1>1, <1>2, <2>2, KeepsOne DEF IInv
  <2>. QED BY <2>1, <2>2
<1>. QED BY <1>1, <1>3, StoreStep DEF IInv, TypeInv

LEMMA ReserveReleasedStep ==
    ASSUME IInv, NEW p \in Payloads, ReserveReleased(p)
    PROVE  IInv'
<1>1. /\ UNCHANGED <<chain, scanned, reorgs, orphan, mark, settled, current, issued, resent>>
      /\ Unreserved(p) /\ released' = released \ {p}
  BY DEF ReserveReleased
<1>2. \A r \in Payloads \ {p} : Reserving(r)' => Reserving(r)
  BY <1>1 DEF Reserving, Settled, Resolved
<1>3. OneReservation'
  BY <1>1, <1>2, AddsOne DEF IInv
<1>. QED BY <1>1, <1>3, StoreStep DEF IInv, TypeInv

\* Reading a record, releasing payloads and dropping an observation reserve nothing.
LEMMA QuietStep ==
    ASSUME IInv, released \subseteq released',
           UNCHANGED <<chain, scanned, reorgs, orphan, mark, settled, current, issued, resent>>
    PROVE  IInv'
<1>1. \A r \in Payloads : Reserving(r)' => Reserving(r)
  BY DEF Reserving, Settled, Resolved
<1>2. OneReservation'
  BY <1>1, KeepsOne DEF IInv
<1>. QED BY <1>2, StoreStep DEF IInv, TypeInv

LEMMA ChainLength == TypeInv => Tip \in Nat
BY LenProperties DEF TypeInv, Tip

LEMMA RecordAccountReadStep ==
    ASSUME IInv, NEW o \in Operations, NEW ch \in {chain, orphan}, NEW b \in 0 .. Len(ch),
           RecordAccountRead(o, ch, b)
    PROVE  IInv'
<1>. DEFINE seen == [nonce |-> NonceIn(ch, o, b), block |-> b]
<1>1. /\ UNCHANGED <<chain, scanned, reorgs, orphan, issued, released, resent>>
      /\ \/ /\ Newest(o, b)
            /\ SetNonceWatermark(o, seen)
            /\ current' = IF ch = chain THEN current \cup {o} ELSE current \ {o}
         \/ UNCHANGED <<mark, settled, current>>
  BY DEF RecordAccountRead
<1>2. TypeInv /\ ChainInv /\ ReadInv /\ StraightInv /\ OneReservation
  BY DEF IInv
<1>3. CASE UNCHANGED <<mark, settled, current>>
  BY <1>1, <1>3, QuietStep
<1>4. CASE /\ Newest(o, b)
           /\ SetNonceWatermark(o, seen)
           /\ current' = IF ch = chain THEN current \cup {o} ELSE current \ {o}
  <2>1. b \in Nat /\ Tip \in Nat /\ Len(ch) \in Nat /\ b <= Len(ch)
    BY <1>2, LenProperties DEF TypeInv, Tip
  <2>2. seen \in Evidence /\ seen.nonce = NonceIn(ch, o, b) /\ seen.block = b
    BY <2>1, NonceNat DEF Evidence
  <2>3. mark[o] \in Evidence /\ settled[o] \in Nat
    BY <1>2 DEF TypeInv
  <2>. DEFINE s == SettledUnder(settled[o], seen.nonce)
  <2>4. mark' = [mark EXCEPT ![o] = seen] /\ settled' = [settled EXCEPT ![o] = s]
    BY <1>4 DEF SetNonceWatermark
  <2>5. s \in Nat
    BY <2>2, <2>3 DEF SettledUnder, Evidence
  <2>. HIDE DEF seen
  <2>6. ASSUME reorgs = 0
        PROVE  /\ seen.block <= Tip
               /\ seen.nonce <= NonceAt(o, seen.block)
               /\ mark[o].nonce <= seen.nonce
               /\ settled[o] <= s /\ s <= seen.nonce
               /\ s <= NonceAt(o, scanned)
    <3>1. MarkInv(o) /\ orphan = <<>>
      BY <1>2, <2>6 DEF StraightInv
    <3>2. b <= Tip /\ seen.nonce = NonceIn(chain, o, b)
      <4>1. CASE ch = chain
        BY <2>1, <2>2, <4>1 DEF Tip
      <4>2. CASE ch = orphan
        <5>1. b = 0
          BY <2>1, <3>1, <4>2
        <5>2. NonceIn(ch, o, b) = NonceIn(chain, o, b)
          BY <5>1, NonceAgree
        <5>. QED BY <2>1, <2>2, <5>1, <5>2
      <4>. QED BY <4>1, <4>2
    <3>3. mark[o].block \in Nat /\ mark[o].block <= b /\ mark[o].nonce \in Nat
      BY <1>4, <2>3 DEF Newest, Evidence
    <3>4. NonceIn(chain, o, mark[o].block) <= NonceIn(chain, o, b)
      BY <2>1, <3>3, NonceMonotone
    <3>5. /\ NonceIn(chain, o, b) \in Nat /\ NonceIn(chain, o, mark[o].block) \in Nat
          /\ NonceIn(chain, o, scanned) \in Nat
      BY <1>2, <2>1, <3>3, NonceNat DEF TypeInv
    <3>6. mark[o].nonce <= seen.nonce /\ settled[o] <= seen.nonce
      BY <2>3, <3>1, <3>2, <3>3, <3>4, <3>5 DEF MarkInv, NonceAt
    <3>7. s = settled[o]
      BY <2>3, <3>2, <3>5, <3>6 DEF SettledUnder
    <3>. HIDE DEF s
    <3>. QED BY <2>2, <2>3, <3>1, <3>2, <3>5, <3>6, <3>7 DEF MarkInv, NonceAt
  <2>. HIDE DEF s
  <2>7. StraightInv' /\ OneReservation'
    BY <1>1, <1>2, <2>2, <2>4, <2>5, <2>6, MarkRises
  <2>8. TypeInv'
    BY <1>1, <1>2, <1>4, <2>2, <2>4, <2>5 DEF TypeInv, Tip
  <2>9. ChainInv'
    BY <1>1, <1>2 DEF ChainInv, Tip, NonceAt
  <2>10. ASSUME NEW q \in current' PROVE mark'[q].nonce <= NonceAt(q, Tip)'
    <3>1. CASE q = o
      <4>1. ch = chain
        BY <1>4, <2>10, <3>1
      <4>2. NonceIn(chain, o, b) <= NonceIn(chain, o, Tip)
        BY <2>1, <4>1, NonceMonotone DEF Tip
      <4>3. mark'[q] = seen
        BY <1>2, <2>4, <3>1 DEF TypeInv
      <4>. QED BY <1>1, <2>2, <3>1, <4>1, <4>2, <4>3 DEF NonceAt, Tip
    <3>2. CASE q # o
      <4>1. q \in current /\ q \in Operations
        BY <1>2, <1>4, <2>10, <3>2 DEF TypeInv
      <4>2. mark'[q] = mark[q]
        BY <1>2, <2>4, <3>2, <4>1 DEF TypeInv
      <4>. QED BY <1>1, <1>2, <4>1, <4>2 DEF ReadInv, NonceAt, Tip
    <3>. QED BY <3>1, <3>2
  <2>. QED BY <2>7, <2>8, <2>9, <2>10 DEF IInv, ReadInv
<1>. QED BY <1>1, <1>3, <1>4

LEMMA RecordSyncedStep ==
    ASSUME IInv, NEW o \in Operations, NEW s \in 0 .. scanned, NEW safe,
           RecordSynced(o, s, safe)
    PROVE  IInv'
<1>. DEFINE found == Resolutions(o, s, safe)
            m == IF found = {} THEN mark[o] ELSE Highest(found)
            t == SettledBy(settled[o], m, s)
<1>1. /\ UNCHANGED <<chain, scanned, reorgs, orphan, issued, released, resent, current>>
      /\ mark' = [mark EXCEPT ![o] = m]
      /\ settled' = [settled EXCEPT ![o] = t]
  BY DEF RecordSynced
<1>2. TypeInv /\ ChainInv /\ ReadInv /\ StraightInv /\ OneReservation
  BY DEF IInv
<1>3. mark[o] \in Evidence /\ settled[o] \in Nat /\ s \in Nat /\ s <= scanned
      /\ Tip \in Nat /\ scanned \in Nat
  BY <1>2, ChainLength DEF TypeInv
<1>4. m \in Evidence /\ (m = mark[o] \/ (Shows(o, m) /\ mark[o].nonce < m.nonce))
  <2>1. CASE found = {}
    BY <1>3, <2>1
  <2>2. CASE found # {}
    BY <1>2, <2>2, SyncedShows DEF Shows
  <2>. QED BY <2>1, <2>2
<1>. HIDE DEF m
<1>5. m.nonce \in Nat /\ m.block \in Nat /\ mark[o].nonce \in Nat /\ mark[o].nonce <= m.nonce
  BY <1>3, <1>4 DEF Evidence
<1>6. t \in Nat /\ t \in {settled[o], m.nonce} /\ settled[o] <= t
      /\ (t # settled[o] => t = m.nonce /\ m.block <= s)
  BY <1>3, <1>5 DEF SettledBy
<1>. HIDE DEF t
<1>7. ASSUME reorgs = 0
      PROVE  /\ m.block <= Tip
             /\ m.nonce <= NonceAt(o, m.block)
             /\ mark[o].nonce <= m.nonce
             /\ settled[o] <= t /\ t <= m.nonce
             /\ t <= NonceAt(o, scanned)
  <2>1. MarkInv(o)
    BY <1>2, <1>7 DEF StraightInv
  <2>2. m.block <= Tip /\ m.nonce <= NonceAt(o, m.block)
    <3>1. NonceAt(o, m.block) \in Nat
      BY <1>5, NonceNat DEF NonceAt
    <3>. QED BY <1>4, <1>5, <2>1, <3>1 DEF MarkInv, Shows
  <2>3. settled[o] <= m.nonce
    BY <1>3, <1>5, <2>1 DEF MarkInv
  <2>4. CASE t = settled[o]
    BY <1>5, <1>6, <2>1, <2>2, <2>3, <2>4 DEF MarkInv
  <2>5. CASE t # settled[o]
    <3>1. t = m.nonce /\ m.block <= scanned
      BY <1>3, <1>5, <1>6, <2>5
    <3>2. NonceAt(o, m.block) <= NonceAt(o, scanned)
      BY <1>3, <1>5, <3>1, NonceMonotone DEF NonceAt
    <3>3. NonceAt(o, m.block) \in Nat /\ NonceAt(o, scanned) \in Nat
      BY <1>3, <1>5, NonceNat DEF NonceAt
    <3>. QED BY <1>5, <1>6, <2>2, <3>1, <3>2, <3>3
  <2>. QED BY <2>4, <2>5
<1>8. StraightInv' /\ OneReservation'
  BY <1>1, <1>2, <1>4, <1>6, <1>7, MarkRises
<1>9. TypeInv'
  BY <1>1, <1>2, <1>4, <1>6 DEF TypeInv, Tip
<1>10. ChainInv'
  BY <1>1, <1>2 DEF ChainInv, Tip, NonceAt
<1>11. ASSUME NEW q \in current PROVE mark'[q].nonce <= NonceAt(q, Tip)'
  <2>1. q \in Operations /\ mark[q].nonce <= NonceAt(q, Tip)
    BY <1>2 DEF TypeInv, ReadInv
  <2>2. mark'[q].nonce <= NonceAt(q, Tip)
    <3>1. CASE q = o /\ m # mark[o]
      <4>1. Shows(o, m) /\ mark'[q] = m
        BY <1>1, <1>2, <1>4, <3>1 DEF TypeInv
      <4>2. NonceAt(o, m.block) <= NonceAt(o, Tip)
        BY <1>3, <1>5, <4>1, NonceMonotone DEF NonceAt, Shows
      <4>. QED BY <3>1, <4>1, <4>2 DEF Shows
    <3>2. CASE ~(q = o /\ m # mark[o])
      <4>1. mark'[q] = mark[q]
        BY <1>1, <1>2, <2>1, <3>2 DEF TypeInv
      <4>. QED BY <2>1, <4>1
    <3>. QED BY <3>1, <3>2
  <2>. QED BY <1>1, <2>2 DEF NonceAt, Tip
<1>. QED BY <1>1, <1>8, <1>9, <1>10, <1>11 DEF IInv, ReadInv

LEMMA MineStep ==
    ASSUME IInv, NEW p \in Payloads \cup {Nothing}, Mine(p)
    PROVE  IInv'
<1>1. /\ UNCHANGED <<scanned, reorgs, orphan, issued, released, mark, settled, resent, current>>
      /\ p # Nothing => p \in issued /\ NonceOf[p] = NonceAt(Owner[p], Tip)
      /\ chain' = Append(chain, p)
  BY DEF Mine, record
<1>2. TypeInv /\ ChainInv /\ ReadInv /\ StraightInv /\ OneReservation
  BY DEF IInv
<1>3. Tip \in Nat /\ p \in Block
  BY <1>2, ChainLength DEF Block
<1>4. /\ chain' \in Seq(Block) /\ Tip' = Tip + 1
      /\ chain'[Tip + 1] = p
      /\ \A h \in 1 .. Tip : chain'[h] = chain[h]
  BY <1>1, <1>2, <1>3, AppendProperties DEF TypeInv, Tip
<1>5. ASSUME NEW o, NEW b \in Nat, b <= Tip PROVE NonceAt(o, b)' = NonceAt(o, b)
  <2>1. \A h \in 1 .. b : chain'[h] = chain[h]
    BY <1>3, <1>4, <1>5
  <2>2. NonceIn(chain', o, b) = NonceIn(chain, o, b)
    BY <2>1, NonceAgree
  <2>. QED BY <2>2 DEF NonceAt
<1>6. ASSUME NEW o PROVE /\ NonceAt(o, Tip) <= NonceIn(chain', o, Tip')
                         /\ NonceAt(o, Tip) \in Nat /\ NonceIn(chain', o, Tip') \in Nat
  <2>1. NonceIn(chain', o, Tip) <= NonceIn(chain', o, Tip + 1)
    BY <1>3, NonceMonotone
  <2>2. NonceIn(chain', o, Tip) = NonceIn(chain, o, Tip)
    BY <1>3, <1>4, NonceAgree
  <2>3. NonceIn(chain', o, Tip + 1) \in Nat /\ NonceIn(chain, o, Tip) \in Nat
    <3>1. Tip + 1 \in Nat
      BY <1>3
    <3>. QED BY <1>3, <3>1, NonceNat
  <2>. QED BY <1>4, <2>1, <2>2, <2>3 DEF NonceAt
<1>7. TypeInv'
  BY <1>1, <1>2, <1>3, <1>4 DEF TypeInv
<1>8. ASSUME NEW h \in 1 .. Tip', chain'[h] # Nothing
      PROVE  /\ chain'[h] \in issued'
             /\ NonceOf[chain'[h]] = NonceIn(chain', Owner[chain'[h]], h - 1)
  <2>1. h \in Nat /\ h - 1 \in Nat /\ h - 1 <= Tip
    BY <1>3, <1>4
  <2>2. NonceIn(chain', Owner[chain'[h]], h - 1) = NonceIn(chain, Owner[chain'[h]], h - 1)
    BY <1>5, <2>1 DEF NonceAt
  <2>3. CASE h = Tip + 1
    <3>1. chain'[h] = p /\ h - 1 = Tip
      BY <1>3, <1>4, <2>3
    <3>. QED BY <1>1, <1>8, <2>2, <3>1 DEF NonceAt
  <2>4. CASE h # Tip + 1
    <3>1. h \in 1 .. Tip /\ chain'[h] = chain[h]
      BY <1>3, <1>4, <2>4
    <3>. QED BY <1>1, <1>2, <1>8, <2>2, <3>1 DEF ChainInv, NonceAt
  <2>. QED BY <2>3, <2>4
<1>9. ChainInv'
  BY <1>8 DEF ChainInv, NonceAt
<1>10. ASSUME NEW o \in current PROVE mark[o].nonce <= NonceIn(chain', o, Tip')
  <2>1. mark[o].nonce \in Nat /\ mark[o].nonce <= NonceAt(o, Tip)
    BY <1>2 DEF TypeInv, ReadInv, Evidence
  <2>. QED BY <1>6, <2>1
<1>11. ReadInv'
  BY <1>1, <1>10 DEF ReadInv, NonceAt
<1>12. ASSUME reorgs = 0, NEW o \in Operations PROVE MarkInv(o)'
  <2>1. MarkInv(o) /\ mark[o].block \in Nat
    BY <1>2, <1>12 DEF StraightInv, TypeInv, Evidence
  <2>2. NonceAt(o, mark[o].block)' = NonceIn(chain, o, mark[o].block)
    <3>1. NonceIn(chain', o, mark[o].block) = NonceIn(chain, o, mark[o].block)
      BY <1>5, <2>1 DEF MarkInv, NonceAt
    <3>. QED BY <1>1, <3>1 DEF NonceAt
  <2>3. NonceAt(o, scanned)' = NonceIn(chain, o, scanned)
    <3>1. NonceIn(chain', o, scanned) = NonceIn(chain, o, scanned)
      BY <1>2, <1>5 DEF TypeInv, NonceAt
    <3>. QED BY <1>1, <3>1 DEF NonceAt
  <2>4. mark[o].block <= Tip'
    BY <1>3, <1>4, <2>1 DEF MarkInv
  <2>. QED BY <1>1, <2>1, <2>2, <2>3, <2>4 DEF MarkInv, NonceAt
<1>13. StraightInv'
  BY <1>1, <1>2, <1>12 DEF StraightInv
<1>14. OneReservation'
  <2>1. \A r \in Payloads : Reserving(r)' => Reserving(r)
    BY <1>1 DEF Reserving, Settled, Resolved
  <2>. QED BY <1>1, <1>2, <2>1, KeepsOne
<1>. QED BY <1>7, <1>9, <1>11, <1>13, <1>14 DEF IInv

LEMMA ScanStep ==
    ASSUME IInv, Scan
    PROVE  IInv'
<1>1. /\ UNCHANGED <<chain, reorgs, orphan, issued, released, mark, settled, resent, current>>
      /\ scanned < Tip /\ scanned' = scanned + 1
  BY DEF Scan, record
<1>2. TypeInv /\ ChainInv /\ ReadInv /\ StraightInv /\ OneReservation
  BY DEF IInv
<1>3. Tip \in Nat /\ scanned \in Nat
  BY <1>2, ChainLength DEF TypeInv
<1>4. TypeInv' /\ ReadInv'
  BY <1>1, <1>2, <1>3 DEF TypeInv, ReadInv, Tip, NonceAt
<1>5. ChainInv'
  BY <1>1, <1>2 DEF ChainInv, Tip, NonceAt
<1>6. ASSUME reorgs = 0, NEW o \in Operations PROVE MarkInv(o)'
  <2>1. MarkInv(o) /\ settled[o] \in Nat
    BY <1>2, <1>6 DEF StraightInv, TypeInv
  <2>2. NonceIn(chain, o, scanned) <= NonceIn(chain, o, scanned + 1)
    BY <1>3, NonceMonotone
  <2>3. NonceIn(chain, o, scanned) \in Nat /\ NonceIn(chain, o, scanned + 1) \in Nat
    <3>1. scanned + 1 \in Nat
      BY <1>3
    <3>. QED BY <1>3, <3>1, NonceNat
  <2>4. settled[o] <= NonceIn(chain, o, scanned + 1)
    BY <2>1, <2>2, <2>3 DEF MarkInv, NonceAt
  <2>. QED BY <1>1, <2>1, <2>4 DEF MarkInv, Tip, NonceAt
<1>7. StraightInv'
  BY <1>1, <1>2, <1>6 DEF StraightInv
<1>8. OneReservation'
  <2>1. \A r \in Payloads : Reserving(r)' => Reserving(r)
    BY <1>1 DEF Reserving, Settled, Resolved
  <2>. QED BY <1>1, <1>2, <2>1, KeepsOne
<1>. QED BY <1>4, <1>5, <1>7, <1>8 DEF IInv

\* A reorganisation takes the last block away, and every account has to be read anew.
LEMMA ReorgStep ==
    ASSUME IInv, Reorg
    PROVE  IInv'
<1>1. /\ UNCHANGED <<issued, mark, settled>>
      /\ Tip > 0
      /\ chain' = Front(chain) /\ orphan' = chain /\ current' = {}
      /\ scanned' = IF scanned = Tip THEN Tip - 1 ELSE scanned
      /\ reorgs' = reorgs + 1
  BY DEF Reorg, record
<1>2. TypeInv /\ ChainInv
  BY DEF IInv
<1>3. Tip \in Nat /\ scanned \in Nat /\ scanned <= Tip
  BY <1>2, ChainLength DEF TypeInv
<1>4. /\ chain' \in Seq(Block) /\ Tip' = Tip - 1
      /\ \A h \in 1 .. Tip - 1 : chain'[h] = chain[h]
  <2>1. chain' = SubSeq(chain, 1, Tip - 1)
    BY <1>1 DEF Front, Tip
  <2>2. \A h \in 1 .. Tip - 1 : chain[h] \in Block
    BY <1>2, <1>3 DEF TypeInv, Tip
  <2>3. Tip - 1 \in Nat
    BY <1>1, <1>3
  <2>. DEFINE n == Tip - 1
  <2>4. chain' = SubSeq(chain, 1, n) /\ n \in Nat /\ \A h \in 1 .. n : chain[h] \in Block
    BY <2>1, <2>2, <2>3
  <2>. HIDE DEF n
  <2>5. /\ chain' \in Seq(Block) /\ Len(chain') = n
        /\ \A h \in 1 .. n : chain'[h] = chain[h]
    BY <2>4, SubSeqProperties
  <2>. QED BY <2>5 DEF n, Tip
<1>5. TypeInv'
  BY <1>1, <1>2, <1>3, <1>4 DEF TypeInv
<1>6. ASSUME NEW h \in 1 .. Tip', chain'[h] # Nothing
      PROVE  /\ chain'[h] \in issued'
             /\ NonceOf[chain'[h]] = NonceIn(chain', Owner[chain'[h]], h - 1)
  <2>1. h \in 1 .. Tip /\ h - 1 \in Nat /\ chain'[h] = chain[h]
    BY <1>3, <1>4
  <2>2. \A k \in 1 .. h - 1 : chain'[k] = chain[k]
    BY <1>3, <1>4, <2>1
  <2>3. NonceIn(chain', Owner[chain'[h]], h - 1) = NonceIn(chain, Owner[chain'[h]], h - 1)
    BY <2>1, <2>2, NonceAgree
  <2>. QED BY <1>1, <1>2, <1>6, <2>1, <2>3 DEF ChainInv, NonceAt
<1>7. ChainInv'
  BY <1>6 DEF ChainInv, NonceAt
<1>8. reorgs' # 0
  BY <1>1, <1>2 DEF TypeInv
<1>9. ReadInv' /\ StraightInv' /\ OneReservation'
  BY <1>1, <1>8 DEF ReadInv, StraightInv, OneReservation
<1>. QED BY <1>5, <1>7, <1>9 DEF IInv

-----------------------------------------------------------------------------
(* The theorems                                                            *)

LEMMA InitInv == Init => IInv
<1>. SUFFICES ASSUME Init PROVE IInv
  OBVIOUS
<1>1. /\ chain = <<>> /\ orphan = <<>> /\ scanned = 0 /\ reorgs = 0 /\ issued = {}
      /\ mark = [o \in Operations |-> [nonce |-> 0, block |-> 0]]
      /\ settled = [o \in Operations |-> 0] /\ current = Operations
  BY DEF Init
<1>2. Tip = 0
  BY <1>1 DEF Tip
<1>3. TypeInv
  BY <1>1, <1>2 DEF TypeInv, Evidence
<1>4. ChainInv
  BY <1>2 DEF ChainInv
<1>5. ASSUME NEW o \in Operations
      PROVE  MarkInv(o) /\ mark[o].nonce <= NonceAt(o, Tip)
  <2>1. NonceAt(o, 0) \in Nat
    BY NonceNat DEF NonceAt
  <2>2. mark[o].nonce = 0 /\ mark[o].block = 0 /\ settled[o] = 0
    BY <1>1
  <2>. QED BY <1>1, <1>2, <2>1, <2>2 DEF MarkInv
<1>6. ReadInv /\ StraightInv
  BY <1>1, <1>5 DEF ReadInv, StraightInv
<1>7. OneReservation
  BY <1>1 DEF OneReservation, Reserved, Reserving, Of
<1>. QED BY <1>3, <1>4, <1>6, <1>7 DEF IInv

LEMMA NextInv == IInv /\ [Next]_vars => IInv'
<1>. SUFFICES ASSUME IInv, [Next]_vars PROVE IInv'
  OBVIOUS
<1>1. ASSUME NEW p \in Payloads, RecordIssued(p) \/ RecordSubmission(p) \/ ReserveReleased(p)
      PROVE  IInv'
  BY <1>1, RecordIssuedStep, RecordSubmissionStep, ReserveReleasedStep
<1>2. ASSUME NEW o \in Operations, ReleaseInputLock(o) \/ InvalidateObservation(o)
      PROVE  IInv'
  BY <1>2, QuietStep DEF ReleaseInputLock, InvalidateObservation, record
<1>3. CASE ReleasePayloads
  BY <1>3, QuietStep DEF ReleasePayloads
<1>4. ASSUME NEW o \in Operations, NEW ch \in {chain, orphan}, NEW b \in 0 .. Len(ch),
             RecordAccountRead(o, ch, b)
      PROVE  IInv'
  BY <1>4, RecordAccountReadStep
<1>5. ASSUME NEW o \in Operations, NEW s \in 0 .. scanned, NEW safe \in 0 .. Tip,
             RecordSynced(o, s, safe)
      PROVE  IInv'
  BY <1>5, RecordSyncedStep
<1>6. ASSUME NEW p \in Payloads \cup {Nothing}, Mine(p) PROVE IInv'
  BY <1>6, MineStep
<1>7. CASE Scan \/ Reorg
  BY <1>7, ScanStep, ReorgStep
<1>8. CASE UNCHANGED vars
  BY <1>8, QuietStep DEF vars, record
<1>. QED BY <1>1, <1>2, <1>3, <1>4, <1>5, <1>6, <1>7, <1>8 DEF Next

LEMMA ReservationInvariant == Spec => []IInv
BY InitInv, NextInv, PTL DEF Spec

\* As long as the chain keeps its blocks, no note is reserved for two operations, unless
\* record_submission reserved a released payload's notes again.
THEOREM NotesReservedOnce == Spec => []OneReservation
<1>1. IInv => OneReservation
  BY DEF IInv
<1>. QED BY <1>1, ReservationInvariant, PTL

\* A signed payload that can still run keeps its notes reserved until the user releases
\* it; after a reorganisation, from the account's next accepted read of the new chain.
THEOREM RunnableKeepsNotes == Spec => []RunnableReserved
<1>1. IInv => RunnableReserved
  <2>. SUFFICES ASSUME IInv, NEW p \in issued \ released, Owner[p] \in current,
                       NonceOf[p] >= NonceAt(Owner[p], Tip), NEW n \in Inputs[p]
                PROVE  n \in Reserved(Owner[p])
    BY DEF RunnableReserved
  <2>1. p \in Payloads /\ NonceOf[p] \in Nat /\ Tip \in Nat /\ mark[Owner[p]].nonce \in Nat
    BY ReservationAssumption, ChainLength DEF IInv, TypeInv, Evidence
  <2>2. mark[Owner[p]].nonce <= NonceAt(Owner[p], Tip) /\ NonceAt(Owner[p], Tip) \in Nat
    BY <2>1, NonceNat DEF IInv, ReadInv, NonceAt
  <2>3. ~Resolved(p)
    BY <2>1, <2>2 DEF Resolved
  <2>4. Reserving(p)
    BY <2>3 DEF Reserving, Settled
  <2>. QED BY <2>1, <2>4, InReserved
<1>. QED BY <1>1, ReservationInvariant, PTL

\* A note that no payload reserves and sync does not show spent is unspent, unless a
\* payload the user released spent it; as long as the chain keeps its blocks.
THEOREM FreeMeansUnspent == Spec => []FreeNotesUnspent
<1>1. IInv => FreeNotesUnspent
  <2>. SUFFICES ASSUME IInv, reorgs = 0, NEW h \in 1 .. Tip, chain[h] # Nothing,
                       chain[h] \notin released, ~(h <= scanned), NEW n \in Inputs[chain[h]]
                PROVE  n \in Reserved(Owner[chain[h]])
    BY DEF FreeNotesUnspent
  <2>. DEFINE p == chain[h]
              o == Owner[p]
  <2>1. Tip \in Nat /\ scanned \in Nat
    BY ChainLength DEF IInv, TypeInv
  <2>2. h \in Nat /\ h - 1 \in Nat /\ scanned <= h - 1
    BY <2>1
  <2>3. p \in issued /\ p \in Payloads /\ NonceOf[p] = NonceAt(o, h - 1)
    BY DEF IInv, ChainInv, TypeInv
  <2>4. o \in Operations /\ settled[o] \in Nat
    BY <2>3, ReservationAssumption DEF IInv, TypeInv
  <2>5. settled[o] <= NonceAt(o, scanned)
    BY <2>4 DEF IInv, StraightInv, MarkInv
  <2>6. NonceAt(o, scanned) <= NonceAt(o, h - 1)
    BY <2>1, <2>2, NonceMonotone DEF NonceAt
  <2>7. NonceAt(o, scanned) \in Nat /\ NonceAt(o, h - 1) \in Nat
    BY <2>1, <2>2, NonceNat DEF NonceAt
  <2>8. ~Settled(p)
    BY <2>3, <2>4, <2>5, <2>6, <2>7 DEF Settled
  <2>9. Reserving(p)
    BY <2>3, <2>8 DEF Reserving
  <2>. QED BY <2>3, <2>9, InReserved
<1>. QED BY <1>1, ReservationInvariant, PTL
=============================================================================
