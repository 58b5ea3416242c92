-------------------------- MODULE DBStorage_proofs --------------------------
(***************************************************************************)
(* What the table of storage/db.go still guarantees when calls, single and *)
(* batch, interleave, fail, are cancelled or aborted: for any callers,     *)
(* names, requests and floats.                                             *)
(***************************************************************************)
EXTENDS DBStorage, MetricValues_proofs, FiniteSetTheorems

Items == Singles \cup UNION {Range(b) : b \in Batches}

OnlyType(n, t) == \A d \in Items : d.id = n => d.value.type \in {t, "nil"}

(* The column of a row's own type is never NULL. *)
Filled(row) ==
    /\ row.mtype = "gauge" => row.gauge # Null
    /\ row.mtype = "counter" => row.counter # Null

OneColumn(row, t) ==
    /\ row.mtype = t
    /\ t = "gauge" => row.counter = Null
    /\ t = "counter" => row.gauge = Null

CallsAreGiven == \A c \in Callers : \A i \in DOMAIN call[c] : call[c][i] \in Items

(* Whoever holds a lock is a batch under way that has written the row, and *)
(* owes deltas only for rows it has locked.                                *)
LocksAreHeld ==
    /\ \A c \in Callers, n \in Names :
        lock[n] = c => tx[c] /\ pc[c] # "idle" /\ draft[n] # Absent
    /\ \A c \in Callers, n \in Names : lock[n] # c => owed[c][n] = 0

UpdateFindsRow ==
    \A c \in Callers : pc[c] = "update" => Visible(c, Name(c)) # Absent

GoodRow(n, row) ==
    row # Absent => Filled(row) /\ \A t \in {"gauge", "counter"} : OnlyType(n, t) => OneColumn(row, t)

(* Rows that are and rows that will be; a row keeps its type. *)
RowsAreWhole ==
    \A n \in Names :
        /\ GoodRow(n, table[n]) /\ GoodRow(n, draft[n])
        /\ table[n] # Absent /\ lock[n] # NoCaller => draft[n].mtype = table[n].mtype

(* What a transaction will commit is what is counted and what it owes. *)
DraftsAddUp ==
    \A c \in Callers : \A n \in Names \ clash :
        lock[n] = c /\ draft[n].mtype = "counter"
            => draft[n].counter = Wrap(sum[n] + owed[c][n])

NothingBeforeTheRow == \A n \in Names : table[n] = Absent => sum[n] = 0

DBInv ==
    /\ TypeOK
    /\ CallsAreGiven
    /\ LocksAreHeld
    /\ UpdateFindsRow
    /\ RowsAreWhole
    /\ OnlyClashesLose
    /\ DraftsAddUp
    /\ NothingBeforeTheRow

-----------------------------------------------------------------------------
(* The values and rows that statements work on. *)
LEMMA ItemFacts ==
  ASSUME TypeOK, CallsAreGiven, NEW c \in Callers, pc[c] # "idle"
  PROVE  Item(c) \in DTO /\ Item(c) \in Items /\ Name(c) \in Names /\ Given(c) \in Value
<1>1. at[c] \in DOMAIN call[c] /\ call[c] \in Seq(DTO)
  BY DEF TypeOK
<1>2. call[c][at[c]] \in DTO
  BY <1>1
<1> QED
  BY <1>1, <1>2 DEF CallsAreGiven, Item, Name, Given, DTO

LEMMA NewRowFacts ==
  ASSUME NEW v \in Metric
  PROVE  /\ NewRow(v) \in Row /\ NewRow(v) # Absent /\ Filled(NewRow(v))
         /\ OneColumn(NewRow(v), v.type)
         /\ NewRow(v).mtype = "counter" => v.type = "counter" /\ NewRow(v).counter = v.val
<1>1. CASE v \in Counter
  BY <1>1, NullAssumption, HalfAssumption
     DEF Counter, NewRow, Row, Absent, Filled, OneColumn, Int64
<1>2. CASE v \in Gauge
  BY <1>2, NullAssumption DEF Gauge, NewRow, Row, Absent, Filled, OneColumn
<1> QED
  BY <1>1, <1>2 DEF Metric

(* A statement on a row keeps its type, leaves no column NULL that was not, *)
(* and fills no column but that of the value's type.                        *)
LEMMA TouchedFacts ==
  ASSUME NEW row \in Row, Filled(row), NEW v \in Metric, Fits(Touched(row, v))
  PROVE  /\ Touched(row, v) \in Row /\ Touched(row, v) # Absent
         /\ Touched(row, v).mtype = row.mtype
         /\ Filled(Touched(row, v))
         /\ OneColumn(row, v.type) => OneColumn(Touched(row, v), v.type)
         /\ row.mtype = "counter" =>
              Touched(row, v).counter =
                 IF v.type = "counter" THEN row.counter + v.val ELSE row.counter
<1>1. CASE v \in Counter
  <2>1. v.type = "counter" /\ v.val \in Int
    BY <1>1, HalfAssumption DEF Counter, Int64
  <2>2. CASE row.counter = Null
    <3>1. Touched(row, v) = row
      BY <2>1, <2>2 DEF Touched, Row
    <3> QED
      BY <2>1, <2>2, <3>1 DEF Row, Absent, Filled, OneColumn
  <2>3. CASE row.counter # Null
    <3>1. row.counter + v.val \in Int
      BY <2>1, <2>3, HalfAssumption DEF Row, Int64
    <3>2. Touched(row, v) = [row EXCEPT !.counter = row.counter + v.val]
      BY <2>1, <2>3 DEF Touched, Row
    <3>3. row.counter + v.val \in Int64 /\ row.counter + v.val # Null
      BY <3>1, <3>2, NullAssumption DEF Fits, Row
    <3> QED
      BY <2>1, <2>3, <3>2, <3>3 DEF Row, Absent, Filled, OneColumn
  <2> QED
    BY <2>2, <2>3
<1>2. CASE v \in Gauge
  <2>1. v.type = "gauge" /\ v.val \in Floats /\ v.val # Null
    BY <1>2, NullAssumption DEF Gauge
  <2>2. Touched(row, v) = [row EXCEPT !.gauge = v.val]
    BY <2>1 DEF Touched
  <2> QED
    BY <2>1, <2>2 DEF Row, Absent, Filled, OneColumn
<1> QED
  BY <1>1, <1>2 DEF Metric

LEMMA ClashedFacts ==
  ASSUME NEW row \in Row, Filled(row), NEW v \in Metric, Fits(Clashed(row, v))
  PROVE  /\ Clashed(row, v) \in Row /\ Clashed(row, v) # Absent
         /\ Clashed(row, v).mtype = row.mtype
         /\ Filled(Clashed(row, v))
         /\ OneColumn(row, v.type) => OneColumn(Clashed(row, v), v.type)
<1>1. CASE v \in Counter
  <2>1. v.type = "counter" /\ v.val + v.val \in Int
    BY <1>1, HalfAssumption DEF Counter, Int64
  <2>2. Clashed(row, v) = [row EXCEPT !.counter = v.val + v.val]
    BY <2>1 DEF Clashed
  <2>3. v.val + v.val \in Int64 /\ v.val + v.val # Null
    BY <2>1, <2>2, NullAssumption DEF Fits, Row
  <2> QED
    BY <2>1, <2>2, <2>3 DEF Row, Absent, Filled, OneColumn
<1>2. CASE v \in Gauge
  <2>1. v.type = "gauge" /\ v.val \in Floats /\ v.val # Null
    BY <1>2, NullAssumption DEF Gauge
  <2>2. Clashed(row, v) = [row EXCEPT !.gauge = v.val]
    BY <2>1 DEF Clashed
  <2> QED
    BY <2>1, <2>2 DEF Row, Absent, Filled, OneColumn
<1> QED
  BY <1>1, <1>2 DEF Metric

(* What Get returns of a row is a metric. *)
LEMMA AnswerFacts ==
  ASSUME NEW row \in Row, Filled(row)
  PROVE  Answer(row) \in Metric
  BY DEF Row, Filled, Answer, Metric, Counter, Gauge

LEMMA VisibleFacts ==
  ASSUME DBInv, NEW c \in Callers, NEW n \in Names
  PROVE  /\ Visible(c, n) \in Row \cup {Absent}
         /\ GoodRow(n, Visible(c, n))
         /\ lock[n] = c => Visible(c, n) # Absent
  BY DEF DBInv, TypeOK, RowsAreWhole, LocksAreHeld, Visible

-----------------------------------------------------------------------------
LEMMA InitDBInv == Init => DBInv
<1> SUFFICES ASSUME Init PROVE DBInv
  OBVIOUS
<1>1. \A n \in Names : table[n] = Absent /\ draft[n] = Absent /\ lock[n] = NoCaller
  BY DEF Init
<1>2. TypeOK
  BY ZeroIsInt64 DEF Init, TypeOK, Nothing
<1>3. CallsAreGiven /\ UpdateFindsRow
  BY DEF Init, CallsAreGiven, UpdateFindsRow
<1>4. LocksAreHeld /\ DraftsAddUp
  BY <1>1, DBCallersAssumption DEF Init, LocksAreHeld, DraftsAddUp, Nothing
<1>5. RowsAreWhole /\ OnlyClashesLose /\ NothingBeforeTheRow
  BY <1>1 DEF Init, RowsAreWhole, GoodRow, OnlyClashesLose, NothingBeforeTheRow, Nothing
<1> QED
  BY <1>2, <1>3, <1>4, <1>5 DEF DBInv

(* A step of c that touches no row: what it must still show. *)
LEMMA CallStep ==
  ASSUME DBInv, NEW c \in Callers, UNCHANGED <<rowVars, sum, owed, clash>>,
         TypeOK', CallsAreGiven',
         \A d \in Callers : d # c =>
            pc'[d] = pc[d] /\ call'[d] = call[d] /\ at'[d] = at[d] /\ tx'[d] = tx[d],
         \A n \in Names : lock[n] = c => tx'[c] /\ pc'[c] # "idle",
         pc'[c] = "update" => Visible(c, Name(c)')  # Absent
  PROVE  DBInv'
<1>1. UNCHANGED <<table, lock, draft, sum, owed, clash>>
  BY DEF rowVars
<1>2. \A d \in Callers : \A n : Visible(d, n)' = Visible(d, n)
  BY <1>1 DEF Visible
<1>3. LocksAreHeld'
  BY <1>1 DEF DBInv, LocksAreHeld
<1>4. UpdateFindsRow'
  <2> SUFFICES ASSUME NEW d \in Callers, pc'[d] = "update"
               PROVE  (Visible(d, Name(d)) # Absent)'
    BY DEF UpdateFindsRow
  <2>1. CASE d = c
    BY <1>1, <2>1 DEF Visible
  <2>2. CASE d # c
    <3>1. Name(d)' = Name(d) /\ pc[d] = "update"
      BY <2>2 DEF Name, Item
    <3> QED
      BY <1>1, <3>1 DEF DBInv, UpdateFindsRow, Visible
  <2> QED
    BY <2>1, <2>2
<1>5. RowsAreWhole' /\ OnlyClashesLose' /\ DraftsAddUp' /\ NothingBeforeTheRow'
  BY <1>1 DEF DBInv, RowsAreWhole, GoodRow, OnlyClashesLose, DraftsAddUp, NothingBeforeTheRow
<1> QED
  BY <1>3, <1>4, <1>5 DEF DBInv

LEMMA BeginWith ==
  ASSUME DBInv, NEW c \in Callers, NEW items \in Seq(DTO), NEW batch \in BOOLEAN,
         1 \in DOMAIN items, \A i \in DOMAIN items : items[i] \in Items,
         Begin(c, items, batch)
  PROVE  DBInv'
<1>1. pc[c] = "idle" /\ UNCHANGED <<table, lock, draft, sum, owed, clash, ctx, seen>>
  BY DEF Begin, rowVars
<1>2. /\ call' = [call EXCEPT ![c] = items] /\ at' = [at EXCEPT ![c] = 1]
      /\ tx' = [tx EXCEPT ![c] = batch] /\ pc' = [pc EXCEPT ![c] = "look"]
  BY DEF Begin, GoTo
<1>3. TypeOK'
  <2>1. call' \in [Callers -> Seq(DTO)] /\ tx' \in [Callers -> BOOLEAN]
    BY <1>2 DEF DBInv, TypeOK
  <2>2. \A d \in Callers : pc'[d] # "idle" => at'[d] \in DOMAIN call'[d]
    <3> SUFFICES ASSUME NEW d \in Callers, pc'[d] # "idle" PROVE at'[d] \in DOMAIN call'[d]
      OBVIOUS
    <3>1. CASE d = c
      <4>1. call'[d] = items /\ at'[d] = 1
        BY <1>2, <3>1 DEF DBInv, TypeOK
      <4> QED
        BY <4>1
    <3>2. CASE d # c
      <4>1. call'[d] = call[d] /\ at'[d] = at[d] /\ pc'[d] = pc[d]
        BY <1>2, <3>2 DEF DBInv, TypeOK
      <4> QED
        BY <4>1 DEF DBInv, TypeOK
    <3> QED
      BY <3>1, <3>2
  <2> QED
    BY <1>1, <1>2, <2>1, <2>2 DEF DBInv, TypeOK
<1>4. CallsAreGiven'
  BY <1>2 DEF DBInv, CallsAreGiven, TypeOK
<1>5. \A d \in Callers : d # c =>
            pc'[d] = pc[d] /\ call'[d] = call[d] /\ at'[d] = at[d] /\ tx'[d] = tx[d]
  BY <1>2 DEF DBInv, TypeOK
<1>6. pc'[c] = "look" /\ \A n \in Names : lock[n] # c
  BY <1>1, <1>2 DEF DBInv, TypeOK, LocksAreHeld
<1> QED
  BY <1>1, <1>3, <1>4, <1>5, <1>6, CallStep DEF rowVars

LEMMA BeginStep ==
  ASSUME DBInv, NEW c \in Callers,
         \/ \E d \in Singles : Begin(c, <<d>>, FALSE)
         \/ \E b \in Batches : Begin(c, b, TRUE)
  PROVE  DBInv'
<1>1. ASSUME NEW d \in Singles, Begin(c, <<d>>, FALSE) PROVE DBInv'
  <2>1. <<d>> \in Seq(DTO) /\ 1 \in DOMAIN <<d>> /\ \A i \in DOMAIN <<d>> : <<d>>[i] \in Items
    BY SinglesAssumption DEF Items
  <2> QED
    BY <1>1, <2>1, BeginWith
<1>2. ASSUME NEW b \in Batches, Begin(c, b, TRUE) PROVE DBInv'
  <2>1. b \in Seq(DTO) /\ 1 \in DOMAIN b /\ \A i \in DOMAIN b : b[i] \in Items
    BY DBBatchesAssumption DEF Items, Range
  <2> QED
    BY <1>2, <2>1, BeginWith
<1> QED
  BY <1>1, <1>2

(* The steps that only look, or give up. *)
LEMMA NoRowStep ==
  ASSUME DBInv, NEW c \in Callers,
         \/ Cancel(c) \/ Look(c) \/ GetMisread(c)
         \/ Fail(c) \/ DeadlockAbort(c) \/ LoseConnection(c)
  PROVE  DBInv'
<1>1. UNCHANGED <<rowVars, sum, owed, clash, call, at, tx>>
  BY DEF Cancel, Look, GetMisread, Fail, DeadlockAbort, LoseConnection, Abort
<1>2. pc[c] # "idle"
  BY DEF Cancel, Look, GetMisread, Fail, DeadlockAbort, LoseConnection, Working,
         Deadlocked, Blocked
<1>3. Name(c) \in Names /\ Name(c)' = Name(c)
  BY <1>1, <1>2, ItemFacts DEF DBInv, Name, Item
<1>4. Visible(c, Name(c)) # Absent => Answer(Visible(c, Name(c))) \in Metric
  BY <1>3, VisibleFacts, AnswerFacts DEF GoodRow
<1>5. \E p \in {"look", "misled", "update", "insert", "failing", pc[c]} :
        /\ pc' = [pc EXCEPT ![c] = p]
        /\ p = "update" => pc[c] = "update" \/ Visible(c, Name(c)) # Absent
  BY DEF Cancel, Look, GetMisread, Fail, DeadlockAbort, LoseConnection, Abort, GoTo,
         DBInv, TypeOK
<1>6. ctx' \in [Callers -> BOOLEAN] /\ seen' \in [Callers -> Metric \cup {Absent}]
  <2>1. UNCHANGED seen \/ \E m \in Metric \cup {Absent} : seen' = [seen EXCEPT ![c] = m]
    BY <1>4 DEF Cancel, Look, GetMisread, Fail, DeadlockAbort, LoseConnection, Abort
  <2>2. UNCHANGED ctx \/ ctx' = [ctx EXCEPT ![c] = FALSE]
    BY DEF Cancel, Look, GetMisread, Fail, DeadlockAbort, LoseConnection, Abort
  <2> QED
    BY <2>1, <2>2 DEF DBInv, TypeOK
<1>7. TypeOK'
  BY <1>1, <1>2, <1>5, <1>6 DEF rowVars, DBInv, TypeOK
<1>8. CallsAreGiven'
  BY <1>1 DEF DBInv, CallsAreGiven
<1>9. \A d \in Callers : d # c => pc'[d] = pc[d]
  BY <1>5 DEF DBInv, TypeOK
<1>10. pc'[c] # "idle" /\ (pc'[c] = "update" => Visible(c, Name(c)) # Absent)
  BY <1>2, <1>5 DEF DBInv, TypeOK, UpdateFindsRow
<1>11. \A n \in Names : lock[n] = c => tx'[c] /\ pc'[c] # "idle"
  BY <1>1, <1>10 DEF DBInv, LocksAreHeld
<1> QED
  BY <1>1, <1>3, <1>7, <1>8, <1>9, <1>10, <1>11, CallStep

-----------------------------------------------------------------------------
(* A statement of c that writes `row` for the row it sees. *)
LEMMA PutStep ==
  ASSUME DBInv, NEW c \in Callers, pc[c] # "idle", NEW row \in Row,
         Mine(c, Name(c)), Put(c, row), Given(c) \in Metric,
         row # Absent, Filled(row),
         \A t \in {"gauge", "counter"} : OnlyType(Name(c), t) => OneColumn(row, t),
         Visible(c, Name(c)) # Absent => row.mtype = Visible(c, Name(c)).mtype,
         Name(c) \notin clash' /\ row.mtype = "counter" =>
            row.counter = IF Visible(c, Name(c)) = Absent THEN Delta(c)
                          ELSE Visible(c, Name(c)).counter + Delta(c),
         clash \subseteq clash' /\ clash' \subseteq Names,
         UNCHANGED <<call, tx, ctx, seen>>,
         NEW p \in {"look", "commit", "done", "failing"}, pc' = [pc EXCEPT ![c] = p],
         \A d \in Callers : d # c => at'[d] = at[d],
         TypeOK' 
  PROVE  DBInv'
<1> DEFINE n == Name(c)
<1>1. n \in Names /\ Delta(c) \in Int64 /\ Delta(c) \in Int
  <2>1. Delta(c) \in Int64
    BY ZeroIsInt64 DEF Delta, Metric, Counter, Gauge
  <2> QED
    BY <2>1, ItemFacts, HalfAssumption DEF DBInv, Int64
<1>2. CallsAreGiven'
  BY DEF DBInv, CallsAreGiven
<1>3. pc'[c] = p /\ \A d \in Callers : d # c => pc'[d] = pc[d]
  BY DEF DBInv, TypeOK
<1>4. \A d \in Callers : d # c => Name(d)' = Name(d)
  BY DEF Name, Item
<1>5. CASE tx[c]
  <2>1. /\ draft' = [draft EXCEPT ![n] = row]
        /\ lock' = [lock EXCEPT ![n] = c]
        /\ owed' = [owed EXCEPT ![c][n] = Wrap(@ + Delta(c))]
        /\ UNCHANGED <<table, sum>>
    BY <1>5 DEF Put
  <2>2. draft'[n] = row /\ lock'[n] = c /\ owed'[c][n] = Wrap(owed[c][n] + Delta(c))
    BY <1>1, <2>1 DEF DBInv, TypeOK
  <2>3. \A m \in Names : m # n => draft'[m] = draft[m] /\ lock'[m] = lock[m]
    BY <2>1 DEF DBInv, TypeOK
  <2>4. \A d \in Callers, m \in Names : d # c \/ m # n => owed'[d][m] = owed[d][m]
    BY <2>1 DEF DBInv, TypeOK
  <2>5. \A d \in Callers : d # c => lock[n] # d
    BY DBCallersAssumption DEF Mine
  <2>6. LocksAreHeld'
    BY <1>3, <1>5, <2>2, <2>3, <2>4, <2>5 DEF DBInv, LocksAreHeld
  <2>7. UpdateFindsRow'
    <3>1. \A d \in Callers : d # c => \A m \in Names : Visible(d, m)' = Visible(d, m)
      BY <2>1, <2>2, <2>3, <2>5 DEF Visible
    <3>2. \A d \in Callers : pc'[d] = "update" => d # c /\ pc[d] = "update" /\ Name(d) \in Names
      BY <1>3, ItemFacts DEF DBInv
    <3>3. ASSUME NEW d \in Callers, pc'[d] = "update" PROVE (Visible(d, Name(d)) # Absent)'
      BY <1>4, <3>1, <3>2, <3>3 DEF DBInv, UpdateFindsRow, Visible
    <3> QED
      BY <3>3 DEF UpdateFindsRow
  <2>8. RowsAreWhole'
    <3>1. table[n] # Absent => row.mtype = table[n].mtype
      BY <1>1, DBCallersAssumption DEF DBInv, RowsAreWhole, LocksAreHeld, Visible, Mine
    <3> QED
      BY <2>1, <2>2, <2>3, <3>1 DEF DBInv, RowsAreWhole, GoodRow
  <2>9. OnlyClashesLose' /\ NothingBeforeTheRow'
    BY <2>1 DEF DBInv, OnlyClashesLose, NothingBeforeTheRow
  <2>10. DraftsAddUp'
    <3>1. ASSUME n \notin clash', row.mtype = "counter"
          PROVE  row.counter = Wrap(sum[n] + Wrap(owed[c][n] + Delta(c)))
      <4>1. sum[n] \in Int /\ owed[c][n] \in Int /\ row.counter \in Int64
        BY <1>1, <3>1, HalfAssumption DEF DBInv, TypeOK, Int64, Row, Filled
      <4>2. Wrap(sum[n] + Wrap(owed[c][n] + Delta(c))) = Wrap((sum[n] + owed[c][n]) + Delta(c))
        <5>1. sum[n] + Wrap(owed[c][n] + Delta(c)) = Wrap(owed[c][n] + Delta(c)) + sum[n]
          BY <1>1, <4>1, WrapType, HalfAssumption DEF Int64
        <5>2. Wrap(Wrap(owed[c][n] + Delta(c)) + sum[n]) = Wrap((owed[c][n] + Delta(c)) + sum[n])
          <6>1. owed[c][n] + Delta(c) \in Int
            BY <1>1, <4>1
          <6> QED
            BY <4>1, <6>1, WrapAbsorbs
        <5>3. (owed[c][n] + Delta(c)) + sum[n] = (sum[n] + owed[c][n]) + Delta(c)
          BY <1>1, <4>1
        <5> QED
          BY <5>1, <5>2, <5>3
      <4>3. CASE Visible(c, n) = Absent
        <5>1. lock[n] # c /\ table[n] = Absent
          BY <1>1, <4>3 DEF Visible, DBInv, LocksAreHeld
        <5>2. sum[n] = 0 /\ owed[c][n] = 0
          BY <1>1, <5>1 DEF DBInv, LocksAreHeld, NothingBeforeTheRow
        <5> QED
          BY <1>1, <3>1, <4>2, <4>3, <5>2, WrapIdentity
      <4>4. CASE Visible(c, n) # Absent
        <5>1. Visible(c, n).mtype = "counter" /\ n \notin clash
          BY <3>1, <4>4
        <5>2. Visible(c, n).counter = Wrap(sum[n] + owed[c][n])
          <6>1. CASE lock[n] = c
            BY <1>1, <5>1, <6>1 DEF Visible, DBInv, DraftsAddUp
          <6>2. CASE lock[n] # c
            <7>1. Visible(c, n).counter = sum[n] /\ owed[c][n] = 0
              BY <1>1, <4>4, <5>1, <6>2 DEF Visible, DBInv, LocksAreHeld, OnlyClashesLose
            <7>2. sum[n] \in Int64
              BY <1>1 DEF DBInv, TypeOK
            <7> QED
              BY <4>1, <7>1, <7>2, WrapIdentity
          <6> QED
            BY <6>1, <6>2
        <5>3. row.counter = Wrap(sum[n] + owed[c][n]) + Delta(c)
          BY <3>1, <4>4, <5>2
        <5>4. Wrap(row.counter) = row.counter
          BY <4>1, WrapIdentity
        <5>5. Wrap(Wrap(sum[n] + owed[c][n]) + Delta(c)) = Wrap((sum[n] + owed[c][n]) + Delta(c))
          <6>1. sum[n] + owed[c][n] \in Int
            BY <4>1
          <6> QED
            BY <1>1, <6>1, WrapAbsorbs
        <5> QED
          BY <4>2, <5>3, <5>4, <5>5
      <4> QED
        BY <4>3, <4>4
    <3> QED
      BY <2>1, <2>2, <2>3, <2>4, <2>5, <3>1 DEF DBInv, DraftsAddUp
  <2> QED
    BY <1>2, <2>6, <2>7, <2>8, <2>9, <2>10 DEF DBInv
<1>6. CASE ~tx[c]
  <2>1. /\ table' = [table EXCEPT ![n] = row]
        /\ sum' = [sum EXCEPT ![n] = Wrap(@ + Delta(c))]
        /\ UNCHANGED <<draft, lock, owed>>
    BY <1>6 DEF Put
  <2>2. table'[n] = row /\ sum'[n] = Wrap(sum[n] + Delta(c))
    BY <1>1, <2>1 DEF DBInv, TypeOK
  <2>3. \A m \in Names : m # n => table'[m] = table[m] /\ sum'[m] = sum[m]
    BY <2>1 DEF DBInv, TypeOK
  <2>4. lock[n] = NoCaller /\ Visible(c, n) = table[n]
    BY <1>1, <1>6, DBCallersAssumption DEF Mine, DBInv, LocksAreHeld, Visible
  <2>5. LocksAreHeld'
    BY <1>3, <1>6, <2>1 DEF DBInv, LocksAreHeld
  <2>6. UpdateFindsRow'
    <3>1. \A d \in Callers : pc'[d] = "update" => d # c /\ pc[d] = "update" /\ Name(d) \in Names
      BY <1>3, ItemFacts DEF DBInv
    <3>2. \A d \in Callers, m \in Names : Visible(d, m) # Absent => Visible(d, m)' # Absent
      BY <2>1, <2>2, <2>3 DEF Visible
    <3>3. ASSUME NEW d \in Callers, pc'[d] = "update" PROVE (Visible(d, Name(d)) # Absent)'
      BY <1>4, <3>1, <3>2, <3>3 DEF DBInv, UpdateFindsRow, Visible
    <3> QED
      BY <3>3 DEF UpdateFindsRow
  <2>7. RowsAreWhole'
    BY <2>1, <2>2, <2>3, <2>4 DEF DBInv, RowsAreWhole, GoodRow
  <2>8. OnlyClashesLose'
    <3>1. ASSUME n \notin clash', row.mtype = "counter"
          PROVE  row.counter = Wrap(sum[n] + Delta(c))
      <4>1. sum[n] \in Int /\ row.counter \in Int64
        BY <1>1, <3>1, HalfAssumption DEF DBInv, TypeOK, Int64, Row, Filled
      <4>2. row.counter = sum[n] + Delta(c)
        <5>1. CASE table[n] = Absent
          BY <1>1, <2>4, <3>1, <4>1, <5>1 DEF DBInv, NothingBeforeTheRow
        <5>2. CASE table[n] # Absent
          BY <1>1, <2>4, <3>1, <4>1, <5>2 DEF DBInv, OnlyClashesLose
        <5> QED
          BY <5>1, <5>2
      <4> QED
        BY <4>1, <4>2, WrapIdentity
    <3> QED
      BY <2>2, <2>3, <3>1 DEF DBInv, OnlyClashesLose
  <2>9. DraftsAddUp'
    BY <2>1, <2>3, <2>4, DBCallersAssumption DEF DBInv, DraftsAddUp
  <2>10. NothingBeforeTheRow'
    BY <2>2, <2>3 DEF DBInv, NothingBeforeTheRow
  <2> QED
    BY <1>2, <2>5, <2>6, <2>7, <2>8, <2>9, <2>10 DEF DBInv
<1> QED
  BY <1>5, <1>6

(* After a statement c is at its next item, or before its commit, or its    *)
(* call is done or has failed.                                              *)
LEMMA AdvanceFacts ==
  ASSUME TypeOK, NEW c \in Callers, pc[c] # "idle",
         Advance(c) \/ (GoTo(c, "failing") /\ UNCHANGED at), UNCHANGED call
  PROVE  /\ \E p \in {"look", "commit", "done", "failing"} : pc' = [pc EXCEPT ![c] = p]
         /\ \A d \in Callers : d # c => at'[d] = at[d]
         /\ \A d \in Callers : pc'[d] # "idle" => at'[d] \in DOMAIN call'[d]
         /\ at' \in [Callers -> Nat]
         /\ pc' \in [Callers -> {"idle", "look", "misled", "update", "insert",
                                  "commit", "done", "failing"}]
<1>1. PICK p \in {"look", "commit", "done", "failing"} :
        /\ pc' = [pc EXCEPT ![c] = p]
        /\ UNCHANGED at \/ (at' = [at EXCEPT ![c] = @ + 1] /\ at[c] # Len(call[c]))
  BY DEF Advance, GoTo
<1>2. at[c] \in DOMAIN call[c] /\ call[c] \in Seq(DTO) /\ DOMAIN call[c] = 1 .. Len(call[c])
      /\ Len(call[c]) \in Nat
  BY DEF TypeOK
<1>3. \A d \in Callers : d # c => at'[d] = at[d] /\ pc'[d] = pc[d]
  BY <1>1 DEF TypeOK
<1>4. at'[c] \in DOMAIN call[c]
  <2>1. CASE UNCHANGED at
    BY <1>2, <2>1
  <2>2. CASE at' = [at EXCEPT ![c] = @ + 1] /\ at[c] # Len(call[c])
    <3>1. at'[c] = at[c] + 1
      BY <2>2 DEF TypeOK
    <3> QED
      BY <1>2, <2>2, <3>1
  <2> QED
    BY <1>1, <2>1, <2>2
<1>5. at' \in [Callers -> Nat]
  <2>1. at[c] \in Nat /\ at[c] + 1 \in Nat
    BY DEF TypeOK
  <2> QED
    BY <1>1, <2>1 DEF TypeOK
<1> QED
  BY <1>1, <1>3, <1>4, <1>5 DEF TypeOK

LEMMA PutType ==
  ASSUME TypeOK, NEW c \in Callers, NEW row \in Row, Put(c, row), Name(c) \in Names,
         Delta(c) \in Int
  PROVE  /\ table' \in [Names -> Row \cup {Absent}]
         /\ draft' \in [Names -> Row \cup {Absent}]
         /\ lock' \in [Names -> Callers \cup {NoCaller}]
         /\ sum' \in [Names -> Int64]
         /\ owed' \in [Callers -> [Names -> Int64]]
<1>1. \A x \in Int64 : Wrap(x + Delta(c)) \in Int64
  <2>1. \A x \in Int64 : x + Delta(c) \in Int
    BY HalfAssumption DEF Int64
  <2> QED
    BY <2>1, WrapType
<1>2. Wrap(owed[c][Name(c)] + Delta(c)) \in Int64 /\ Wrap(sum[Name(c)] + Delta(c)) \in Int64
  BY <1>1 DEF TypeOK
<1>3. CASE tx[c]
  <2>1. /\ draft' = [draft EXCEPT ![Name(c)] = row]
        /\ lock' = [lock EXCEPT ![Name(c)] = c]
        /\ owed' = [owed EXCEPT ![c][Name(c)] = Wrap(owed[c][Name(c)] + Delta(c))]
        /\ UNCHANGED <<table, sum>>
    BY <1>3 DEF Put
  <2> QED
    BY <1>2, <2>1 DEF TypeOK
<1>4. CASE ~tx[c]
  <2>1. /\ table' = [table EXCEPT ![Name(c)] = row]
        /\ sum' = [sum EXCEPT ![Name(c)] = Wrap(sum[Name(c)] + Delta(c))]
        /\ UNCHANGED <<draft, lock, owed>>
    BY <1>4 DEF Put
  <2> QED
    BY <1>2, <2>1 DEF TypeOK
<1> QED
  BY <1>3, <1>4

(* What a statement of c adds to its name. *)
LEMMA DeltaFacts ==
  ASSUME NEW c \in Callers, Given(c) \in Metric
  PROVE  /\ Delta(c) \in Int
         /\ Given(c).type = "counter" => Delta(c) = Given(c).val
         /\ Given(c).type # "counter" => Delta(c) = 0
<1>1. Given(c).type = "counter" => Given(c).val \in Int
  BY HalfAssumption DEF Metric, Counter, Gauge, Int64
<1> QED
  BY <1>1 DEF Delta

(* A value that is given to a name of one type has that type. *)
LEMMA OneTypeGiven ==
  ASSUME TypeOK, CallsAreGiven, NEW c \in Callers, pc[c] # "idle", Given(c) \in Metric,
         NEW t, OnlyType(Name(c), t)
  PROVE  Given(c).type = t
<1>1. Item(c) \in Items /\ Given(c).type # "nil"
  BY ItemFacts DEF Metric, Counter, Gauge
<1> QED
  BY <1>1 DEF OnlyType, Name, Given

LEMMA UpdateRowStep ==
  ASSUME DBInv, NEW c \in Callers, UpdateRow(c)
  PROVE  DBInv'
<1> DEFINE old == Visible(c, Name(c))
           row == Touched(old, Given(c))
<1>1. /\ pc[c] = "update" /\ Given(c) # Nil /\ Mine(c, Name(c)) /\ Fits(row) /\ Put(c, row)
      /\ UNCHANGED <<call, tx, ctx, seen, clash>>
      /\ Advance(c) \/ (GoTo(c, "failing") /\ UNCHANGED at)
  BY DEF UpdateRow
<1>2. Name(c) \in Names /\ Given(c) \in Metric
  BY <1>1, ItemFacts, ValueKinds DEF DBInv
<1>3. old \in Row /\ old # Absent /\ GoodRow(Name(c), old)
  BY <1>1, <1>2, VisibleFacts DEF DBInv, UpdateFindsRow
<1> HIDE DEF old
<1>4. /\ row \in Row /\ row # Absent /\ row.mtype = old.mtype /\ Filled(row)
      /\ OneColumn(old, Given(c).type) => OneColumn(row, Given(c).type)
      /\ row.mtype = "counter" =>
            row.counter = IF Given(c).type = "counter" THEN old.counter + Given(c).val
                          ELSE old.counter
  BY <1>1, <1>2, <1>3, TouchedFacts DEF GoodRow
<1> HIDE DEF row
<1>5. \A t \in {"gauge", "counter"} : OnlyType(Name(c), t) => OneColumn(row, t)
  BY <1>1, <1>2, <1>3, <1>4, OneTypeGiven DEF DBInv, GoodRow
<1>6. row.mtype = "counter" => row.counter = old.counter + Delta(c)
  <2> SUFFICES ASSUME row.mtype = "counter" PROVE row.counter = old.counter + Delta(c)
    OBVIOUS
  <2>1. old.counter \in Int
    BY <1>3, <1>4, HalfAssumption DEF GoodRow, Filled, Row, Int64
  <2> QED
    BY <1>2, <1>4, <2>1, DeltaFacts
<1>7. PICK p \in {"look", "commit", "done", "failing"} : pc' = [pc EXCEPT ![c] = p]
  BY <1>1, AdvanceFacts DEF DBInv
<1>8. TypeOK'
  <2>1. at' \in [Callers -> Nat]
    BY <1>1, AdvanceFacts DEF DBInv
  <2> QED
    BY <1>1, <1>2, <1>4, <2>1, PutType, AdvanceFacts, DeltaFacts DEF DBInv, TypeOK
<1> QED
  BY <1>1, <1>2, <1>3, <1>4, <1>5, <1>6, <1>7, <1>8, AdvanceFacts, PutStep
     DEF DBInv, TypeOK, old

LEMMA InsertRowStep ==
  ASSUME DBInv, NEW c \in Callers, InsertRow(c)
  PROVE  DBInv'
<1> DEFINE old == Visible(c, Name(c))
           row == IF old = Absent THEN NewRow(Given(c)) ELSE Clashed(old, Given(c))
<1>1. /\ pc[c] = "insert" /\ Given(c) # Nil /\ Mine(c, Name(c)) /\ Fits(row) /\ Put(c, row)
      /\ UNCHANGED <<call, tx, ctx, seen>>
      /\ Advance(c)
      /\ clash' = IF old = Absent THEN clash ELSE clash \cup {Name(c)}
  BY DEF InsertRow
<1>2. Name(c) \in Names /\ Given(c) \in Metric
  BY <1>1, ItemFacts, ValueKinds DEF DBInv
<1>3. old \in Row \cup {Absent} /\ GoodRow(Name(c), old)
  BY <1>1, <1>2, VisibleFacts
<1> HIDE DEF old
<1>4. /\ row \in Row /\ row # Absent /\ Filled(row)
      /\ old # Absent => row.mtype = old.mtype
      /\ old # Absent /\ OneColumn(old, Given(c).type) => OneColumn(row, Given(c).type)
      /\ old = Absent => OneColumn(row, Given(c).type)
      /\ old = Absent /\ row.mtype = "counter" =>
            Given(c).type = "counter" /\ row.counter = Given(c).val
  <2>1. CASE old = Absent
    BY <1>2, <2>1, NewRowFacts
  <2>2. CASE old # Absent
    BY <1>1, <1>2, <1>3, <2>2, ClashedFacts DEF GoodRow
  <2> QED
    BY <2>1, <2>2
<1> HIDE DEF row
<1>5. \A t \in {"gauge", "counter"} : OnlyType(Name(c), t) => OneColumn(row, t)
  BY <1>1, <1>2, <1>3, <1>4, OneTypeGiven DEF DBInv, GoodRow
<1>6. Name(c) \notin clash' /\ row.mtype = "counter" => old = Absent /\ row.counter = Delta(c)
  BY <1>1, <1>2, <1>4, DeltaFacts
<1>7. PICK p \in {"look", "commit", "done", "failing"} : pc' = [pc EXCEPT ![c] = p]
  BY <1>1, AdvanceFacts DEF DBInv
<1>8. clash \subseteq clash' /\ clash' \subseteq Names
  BY <1>1, <1>2 DEF DBInv, TypeOK
<1>9. TypeOK'
  <2>1. at' \in [Callers -> Nat]
    BY <1>1, AdvanceFacts DEF DBInv
  <2> QED
    BY <1>1, <1>2, <1>4, <1>8, <2>1, PutType, AdvanceFacts, DeltaFacts DEF DBInv, TypeOK
<1> QED
  BY <1>1, <1>2, <1>3, <1>4, <1>5, <1>6, <1>7, <1>8, <1>9, AdvanceFacts, PutStep
     DEF DBInv, TypeOK, old

-----------------------------------------------------------------------------
(* The end of a transaction: its locks are free and its debts forgotten.   *)
LEMMA ReleaseFacts ==
  ASSUME TypeOK, NEW c \in Callers, lock' = Released(c), Forgotten(c)
  PROVE  /\ lock' \in [Names -> Callers \cup {NoCaller}]
         /\ draft' \in [Names -> Row \cup {Absent}]
         /\ owed' \in [Callers -> [Names -> Int64]]
         /\ \A n \in Names : lock'[n] = IF lock[n] = c THEN NoCaller ELSE lock[n]
         /\ \A n \in Names : draft'[n] = IF lock[n] = c THEN Absent ELSE draft[n]
         /\ \A d \in Callers, n \in Names :
                owed'[d][n] = IF d = c THEN 0 ELSE owed[d][n]
         /\ \A d \in Callers, n \in Names :
                lock'[n] = d <=> lock[n] = d /\ d # c
  BY ZeroIsInt64, DBCallersAssumption DEF TypeOK, Released, Forgotten, Nothing

LEMMA ReturnStep ==
  ASSUME DBInv, NEW c \in Callers, Return(c)
  PROVE  DBInv'
<1> USE DEF DBInv
<1>1. /\ lock' = Released(c) /\ Forgotten(c) /\ UNCHANGED <<table, sum, clash>>
      /\ pc' = [pc EXCEPT ![c] = "idle"] /\ call' = [call EXCEPT ![c] = <<>>]
      /\ at' = [at EXCEPT ![c] = 0] /\ seen' = [seen EXCEPT ![c] = Absent]
      /\ tx' = [tx EXCEPT ![c] = FALSE] /\ ctx' = [ctx EXCEPT ![c] = TRUE]
  BY DEF Return, GoTo
<1>2. /\ pc'[c] = "idle" /\ call'[c] = <<>>
      /\ \A d \in Callers : d # c => /\ pc'[d] = pc[d] /\ call'[d] = call[d]
                                     /\ at'[d] = at[d] /\ tx'[d] = tx[d]
  BY <1>1 DEF TypeOK
<1>3. TypeOK'
  <2>1. <<>> \in Seq(DTO)
    OBVIOUS
  <2>2. call' \in [Callers -> Seq(DTO)]
    BY <1>1, <2>1 DEF TypeOK
  <2>3. \A d \in Callers : pc'[d] # "idle" => at'[d] \in DOMAIN call'[d]
    BY <1>2 DEF TypeOK
  <2> QED
    BY <1>1, <2>2, <2>3, ReleaseFacts DEF TypeOK
<1>4. CallsAreGiven'
  BY <1>2 DEF CallsAreGiven
<1>5. LocksAreHeld'
  <2>1. ASSUME NEW d \in Callers, NEW n \in Names, lock'[n] = d
        PROVE  tx'[d] /\ pc'[d] # "idle" /\ draft'[n] # Absent
    <3>1. lock[n] = d /\ d # c
      BY <1>1, <2>1, ReleaseFacts
    <3>2. draft'[n] = draft[n]
      BY <1>1, <3>1, ReleaseFacts
    <3> QED
      BY <1>2, <3>1, <3>2 DEF LocksAreHeld
  <2>2. ASSUME NEW d \in Callers, NEW n \in Names, lock'[n] # d PROVE owed'[d][n] = 0
    BY <1>1, <2>2, ReleaseFacts DEF LocksAreHeld
  <2> QED
    BY <2>1, <2>2 DEF LocksAreHeld
<1>6. UpdateFindsRow'
  <2>1. ASSUME NEW d \in Callers, pc'[d] = "update" PROVE (Visible(d, Name(d)) # Absent)'
    <3>1. d # c /\ pc[d] = "update" /\ Name(d)' = Name(d) /\ Name(d) \in Names
      BY <1>2, <2>1, ItemFacts DEF Name, Item
    <3>2. Visible(d, Name(d))' = Visible(d, Name(d))
      BY <1>1, <3>1, ReleaseFacts DEF Visible
    <3> QED
      BY <3>1, <3>2 DEF UpdateFindsRow
  <2> QED
    BY <2>1 DEF UpdateFindsRow
<1>7. RowsAreWhole'
  BY <1>1, ReleaseFacts DEF RowsAreWhole, GoodRow
<1>8. OnlyClashesLose' /\ NothingBeforeTheRow'
  BY <1>1 DEF OnlyClashesLose, NothingBeforeTheRow
<1>9. DraftsAddUp'
  BY <1>1, ReleaseFacts DEF DraftsAddUp
<1> QED
  BY <1>3, <1>4, <1>5, <1>6, <1>7, <1>8, <1>9

LEMMA CommitStep ==
  ASSUME DBInv, NEW c \in Callers, Commit(c)
  PROVE  DBInv'
<1> USE DEF DBInv
<1>1. /\ table' = [n \in Names |-> Visible(c, n)]
      /\ sum' = [n \in Names |-> Wrap(sum[n] + owed[c][n])]
      /\ lock' = Released(c) /\ Forgotten(c)
      /\ UNCHANGED <<call, at, tx, ctx, seen, clash>>
  BY DEF Commit
<1>2. PICK p \in {"done", "failing"} : pc' = [pc EXCEPT ![c] = p]
  BY DEF Commit, GoTo
<1>3. pc[c] # "idle" /\ pc'[c] = p /\ \A d \in Callers : d # c => pc'[d] = pc[d]
  BY <1>2 DEF Commit, TypeOK
<1>4. \A n \in Names : sum[n] \in Int64 /\ sum[n] \in Int /\ owed[c][n] \in Int
  BY HalfAssumption DEF TypeOK, Int64
<1>5. \A n \in Names : lock[n] # c => sum'[n] = sum[n] /\ table'[n] = table[n]
  BY <1>1, <1>4, WrapIdentity DEF LocksAreHeld, Visible
<1>6. \A n \in Names : lock[n] = c =>
        /\ table'[n] = draft[n] /\ draft[n] # Absent
        /\ sum'[n] = Wrap(sum[n] + owed[c][n])
  BY <1>1 DEF LocksAreHeld, Visible
<1>7. TypeOK'
  <2>1. table' \in [Names -> Row \cup {Absent}]
    BY <1>1, VisibleFacts
  <2>2. sum' \in [Names -> Int64]
    <3>1. ASSUME NEW n \in Names PROVE sum[n] + owed[c][n] \in Int
      <4>1. sum[n] \in Int /\ owed[c][n] \in Int
        BY <1>4
      <4> QED
        BY <4>1
    <3> QED
      BY <1>1, <3>1, WrapType
  <2> QED
    BY <1>1, <1>2, <1>3, <2>1, <2>2, ReleaseFacts DEF TypeOK
<1>8. CallsAreGiven'
  BY <1>1 DEF CallsAreGiven
<1>9. LocksAreHeld'
  BY <1>1, <1>3, ReleaseFacts DEF LocksAreHeld
<1>10. UpdateFindsRow'
  <2>1. ASSUME NEW d \in Callers, pc'[d] = "update" PROVE (Visible(d, Name(d)) # Absent)'
    <3>1. d # c /\ pc[d] = "update" /\ Name(d)' = Name(d) /\ Name(d) \in Names
      BY <1>1, <1>2, <1>3, <2>1, ItemFacts DEF Name, Item
    <3>2. lock[Name(d)] = d =>
            lock'[Name(d)] = d /\ draft'[Name(d)] = draft[Name(d)]
      BY <1>1, <3>1, ReleaseFacts
    <3>3. table[Name(d)] # Absent => table'[Name(d)] # Absent
      BY <1>5, <1>6, <3>1
    <3>4. lock[Name(d)] # d => lock'[Name(d)] # d
      BY <1>1, <3>1, ReleaseFacts
    <3> QED
      BY <3>1, <3>2, <3>3, <3>4 DEF UpdateFindsRow, Visible
  <2> QED
    BY <2>1 DEF UpdateFindsRow
<1>11. RowsAreWhole'
  <2> SUFFICES ASSUME NEW n \in Names
               PROVE  /\ GoodRow(n, table'[n]) /\ GoodRow(n, draft'[n])
                      /\ table'[n] # Absent /\ lock'[n] # NoCaller
                            => draft'[n].mtype = table'[n].mtype
    BY DEF RowsAreWhole, GoodRow
  <2>1. CASE lock[n] = c
    BY <1>1, <1>6, <2>1, ReleaseFacts DEF RowsAreWhole, GoodRow
  <2>2. CASE lock[n] # c
    BY <1>1, <1>5, <2>2, ReleaseFacts DEF RowsAreWhole, GoodRow
  <2> QED
    BY <2>1, <2>2
<1>12. OnlyClashesLose'
  <2> SUFFICES ASSUME NEW n \in Names \ clash, table'[n] # Absent, table'[n].mtype = "counter"
               PROVE  table'[n].counter = sum'[n]
    BY <1>1 DEF OnlyClashesLose
  <2>1. CASE lock[n] = c
    BY <1>6, <2>1 DEF DraftsAddUp
  <2>2. CASE lock[n] # c
    BY <1>5, <2>2 DEF OnlyClashesLose
  <2> QED
    BY <2>1, <2>2
<1>13. DraftsAddUp'
  <2> SUFFICES ASSUME NEW d \in Callers, NEW n \in Names \ clash,
                      lock'[n] = d, draft'[n].mtype = "counter"
               PROVE  draft'[n].counter = Wrap(sum'[n] + owed'[d][n])
    BY <1>1 DEF DraftsAddUp
  <2>1. lock[n] = d /\ d # c
    BY <1>1, ReleaseFacts
  <2> QED
    BY <1>1, <1>5, <2>1, ReleaseFacts DEF DraftsAddUp
<1>14. NothingBeforeTheRow'
  BY <1>5, <1>6 DEF NothingBeforeTheRow
<1> QED
  BY <1>7, <1>8, <1>9, <1>10, <1>11, <1>12, <1>13, <1>14

LEMMA NextDBInv == DBInv /\ [Next]_vars => DBInv'
<1> SUFFICES ASSUME DBInv, [Next]_vars PROVE DBInv'
  OBVIOUS
<1>1. ASSUME NEW c \in Callers,
             \/ \E d \in Singles : Begin(c, <<d>>, FALSE)
             \/ \E b \in Batches : Begin(c, b, TRUE)
      PROVE  DBInv'
  BY <1>1, BeginStep
<1>2. ASSUME NEW c \in Callers, Step(c) PROVE DBInv'
  BY <1>2, NoRowStep, UpdateRowStep, InsertRowStep, CommitStep, ReturnStep DEF Step
<1>3. ASSUME NEW c \in Callers, Cancel(c) \/ LoseConnection(c) PROVE DBInv'
  BY <1>3, NoRowStep
<1>4. CASE UNCHANGED vars
  <2>1. UNCHANGED <<table, lock, draft, pc, call, at, tx, ctx, seen, sum, owed, clash>>
    BY <1>4 DEF vars, rowVars, callVars
  <2> QED
    BY <2>1 DEF DBInv, TypeOK, CallsAreGiven, LocksAreHeld, UpdateFindsRow, RowsAreWhole,
                OnlyClashesLose, DraftsAddUp, NothingBeforeTheRow, GoodRow, Visible,
                Name, Item
<1> QED
  BY <1>1, <1>2, <1>3, <1>4 DEF Next

(* The inductive invariant holds for any callers, names and requests. *)
THEOREM RowsInvariant == Spec => []DBInv
  BY InitDBInv, NextDBInv, PTL DEF Spec

(* The state of the table and of its callers always has its types: counters *)
(* stay within a BIGINT, and a call is at one of its items.                 *)
THEOREM RowsTypeCorrect == Spec => []TypeOK
<1>1. DBInv => TypeOK
  BY DEF DBInv
<1> QED
  BY <1>1, RowsInvariant, PTL

(* Whatever Update, Insert and BatchUpdate of db.go do at once, a counter is *)
(* the sum of all deltas of the calls that were done, unless ON CONFLICT met *)
(* its row.                                                                 *)
THEOREM OnlyClashesLoseDeltas == Spec => []OnlyClashesLose
<1>1. DBInv => OnlyClashesLose
  BY DEF DBInv
<1> QED
  BY <1>1, RowsInvariant, PTL

(* Get and GetAll of db.go give the same answer for every name that gets     *)
(* values of one type only, although they prefer different columns.         *)
THEOREM UniformReadersAgree == Spec => []ReadersAgree
<1>1. DBInv => ReadersAgree
  <2> SUFFICES ASSUME DBInv, NEW n \in Uniform, table[n] # Absent
               PROVE  Answer(table[n]) = Listed(table[n])
    BY DEF ReadersAgree
  <2>1. PICK t \in {"gauge", "counter"} : OnlyType(n, t)
    BY DEF Uniform, OnlyType, Items
  <2>2. table[n] \in Row /\ Filled(table[n]) /\ OneColumn(table[n], t)
    BY <2>1 DEF DBInv, TypeOK, RowsAreWhole, GoodRow, Uniform
  <2> QED
    BY <2>1, <2>2 DEF Answer, Listed, Filled, OneColumn
<1> QED
  BY <1>1, RowsInvariant, PTL

-----------------------------------------------------------------------------
(* A name is settled when its row is there and no live caller is before an  *)
(* INSERT of it.  A batch that still sees no row has none: its own draft is *)
(* a row.  Whoever misreads a cancelled query has no live context.          *)
LEMMA StepKeepsSettled ==
  ASSUME DBInv, [Next]_vars, NEW n \in Names, Settled(n)
  PROVE  Settled(n)' /\ (n \in clash' => n \in clash)
<1> USE DEF DBInv
<1>1. \A c \in Callers : Visible(c, n) # Absent
  BY VisibleFacts DEF Settled, Visible
<1>2. CASE UNCHANGED vars
  BY <1>2 DEF vars, rowVars, callVars, Settled, Name, Item
<1>3. CASE \E c \in Callers :
              \/ (\E d \in Singles : Begin(c, <<d>>, FALSE))
              \/ \E b \in Batches : Begin(c, b, TRUE)
  <2>1. PICK c \in Callers, items \in Seq(DTO), batch \in BOOLEAN : Begin(c, items, batch)
    <3>1. \A d \in Singles : <<d>> \in Seq(DTO)
      BY SinglesAssumption
    <3> QED
      BY <1>3, <3>1, DBBatchesAssumption
  <2>2. /\ UNCHANGED <<table, clash>> /\ pc'[c] = "look"
        /\ \A d \in Callers : d # c => /\ pc'[d] = pc[d] /\ at'[d] = at[d]
                                       /\ call'[d] = call[d]
    BY <2>1 DEF Begin, GoTo, rowVars, TypeOK
  <2> QED
    BY <2>2 DEF Settled, Name, Item
<1>4. ASSUME NEW c \in Callers,
             \/ Cancel(c) \/ Look(c) \/ GetMisread(c)
             \/ Fail(c) \/ DeadlockAbort(c) \/ LoseConnection(c)
      PROVE  Settled(n)' /\ (n \in clash' => n \in clash)
  <2>1. UNCHANGED <<table, clash, call, at>>
    BY <1>4 DEF Cancel, Look, GetMisread, Fail, DeadlockAbort, LoseConnection, Abort, rowVars
  <2>3. \A d \in Callers : d # c => pc'[d] = pc[d]
    BY <1>4 DEF Cancel, Look, GetMisread, Fail, DeadlockAbort, LoseConnection, Abort, GoTo,
                TypeOK
  <2>4. pc'[c] = "insert" =>
            \/ pc[c] = "insert"
            \/ Visible(c, Name(c)) = Absent
    BY <1>4 DEF Cancel, Look, GetMisread, Fail, DeadlockAbort, LoseConnection, Abort, GoTo,
                TypeOK
  <2> QED
    BY <1>1, <2>1, <2>3, <2>4 DEF Settled, Name, Item
<1>5. ASSUME NEW c \in Callers, UpdateRow(c) \/ InsertRow(c)
      PROVE  Settled(n)' /\ (n \in clash' => n \in clash)
  <2>1. pc[c] # "idle" /\ UNCHANGED call
        /\ (Advance(c) \/ (GoTo(c, "failing") /\ UNCHANGED at))
    BY <1>5 DEF UpdateRow, InsertRow
  <2>2. table'[n] # Absent
    <3>1. PICK row : Put(c, row) /\ row # Absent
      <4>1. CASE UpdateRow(c)
        <5>1. Touched(Visible(c, Name(c)), Given(c)) # Absent
          BY <4>1, <2>1, VisibleFacts, TouchedFacts, ItemFacts, ValueKinds
             DEF UpdateRow, UpdateFindsRow, GoodRow
        <5> QED
          BY <4>1, <5>1 DEF UpdateRow
      <4>2. CASE InsertRow(c)
        <5>1. /\ NewRow(Given(c)) # Absent
              /\ Visible(c, Name(c)) # Absent /\ Fits(Clashed(Visible(c, Name(c)), Given(c)))
                    => Clashed(Visible(c, Name(c)), Given(c)) # Absent
          BY <4>2, <2>1, VisibleFacts, NewRowFacts, ClashedFacts, ItemFacts, ValueKinds
             DEF InsertRow, GoodRow
        <5> QED
          BY <4>2, <5>1 DEF InsertRow
      <4> QED
        BY <1>5, <4>1, <4>2
    <3> QED
      BY <3>1 DEF Put, TypeOK, Settled
  <2>3. n \in clash' => n \in clash
    BY <1>5 DEF UpdateRow, InsertRow, Settled
  <2>4. \A d \in Callers : pc'[d] = "insert" =>
            d # c /\ pc[d] = "insert" /\ at'[d] = at[d]
    BY <2>1, AdvanceFacts DEF TypeOK
  <2> QED
    BY <2>1, <2>2, <2>3, <2>4 DEF Settled, Name, Item
<1>6. ASSUME NEW c \in Callers, Commit(c)
      PROVE  Settled(n)' /\ (n \in clash' => n \in clash)
  <2>1. table'[n] # Absent
    BY <1>1, <1>6 DEF Commit
  <2>2. /\ UNCHANGED <<call, at, clash>>
        /\ \A d \in Callers : pc'[d] = "insert" => pc[d] = "insert"
    BY <1>6 DEF Commit, GoTo, TypeOK
  <2> QED
    BY <2>1, <2>2 DEF Settled, Name, Item
<1>7. ASSUME NEW c \in Callers, Return(c)
      PROVE  Settled(n)' /\ (n \in clash' => n \in clash)
  <2>1. /\ UNCHANGED <<table, clash>> /\ pc'[c] = "idle"
        /\ \A d \in Callers : d # c => /\ pc'[d] = pc[d] /\ at'[d] = at[d]
                                       /\ call'[d] = call[d]
    BY <1>7 DEF Return, GoTo, TypeOK
  <2> QED
    BY <2>1 DEF Settled, Name, Item
<1> QED
  BY <1>2, <1>3, <1>4, <1>5, <1>6, <1>7 DEF Next, Step

(* From the moment a row is settled no step of any caller takes it away or  *)
(* lets a creation meet it, not even a statement that outlives its client:  *)
(* ON CONFLICT of db.go:73 can only drop a delta until every creation that  *)
(* was sent for the name has run or been dropped.                           *)
THEOREM SettledRowsNeverClash == Spec => SettledNeverClash
<1>1. DBInv /\ [Next]_vars =>
        [\A n \in Names : Settled(n) => Settled(n)' /\ (n \in clash' => n \in clash)]_vars
  BY StepKeepsSettled
<1> QED
  BY <1>1, RowsInvariant, PTL DEF Spec, SettledNeverClash

-----------------------------------------------------------------------------
(* How many items a transaction has written. *)
Done(c) == IF pc[c] = "commit" THEN at[c] ELSE at[c] - 1

(* The first p items of c are written: their rows are locked, and what c    *)
(* sees is the committed table with these items applied, one by one.        *)
PartDone(c, p) ==
    /\ \A i \in 1 .. p : call[c][i].value # Nil /\ lock[call[c][i].id] = c
    /\ \E late \in SUBSET (1 .. p) :
        \A n \in Names : AC!Stages(table, call[c], late)[p][n] = Visible(c, n)

CallsAreKnown ==
    \A c \in Callers :
        /\ tx[c] => call[c] \in Batches
        /\ pc[c] # "idle" /\ ~tx[c] => \E d \in Singles : call[c] = <<d>>
        /\ pc[c] = "commit" => tx[c] /\ at[c] = Len(call[c])

BatchesReplay ==
    \A c \in Callers : \A p \in 0 .. Len(call[c]) :
        tx[c] /\ Working(c) /\ p = Done(c) => PartDone(c, p)

-----------------------------------------------------------------------------
(* Every set of numbers has a least one; this is how we prove by induction. *)
LEMMA LeastNumber ==
  ASSUME NEW T, T \subseteq Nat, T # {}
  PROVE  \E m \in T : \A k \in T : m <= k
<1> DEFINE Below == {1 .. k : k \in T}
<1>1. Below \subseteq FiniteSubsetsOf(Nat) /\ Below # {}
  <2>1. \A k \in T : 1 .. k \in FiniteSubsetsOf(Nat)
    BY FS_Interval DEF FiniteSubsetsOf
  <2> QED
    BY <2>1
<1>2. PICK B \in Below : \A A \in Below : <<A, B>> \notin StrictSubsetOrdering(Nat)
  <2> HIDE DEF Below
  <2> QED
    BY <1>1, FS_StrictSubsetOrderingWellFounded, WFMin
<1>3. PICK m \in T : B = 1 .. m
  OBVIOUS
<1>4. ASSUME NEW k \in T, k < m PROVE FALSE
  <2>1. m \in 1 .. m /\ m \notin 1 .. k /\ 1 .. k \subseteq 1 .. m
    BY <1>4
  <2>2. <<1 .. k, 1 .. m>> \in StrictSubsetOrdering(Nat)
    BY <2>1 DEF StrictSubsetOrdering
  <2> QED
    BY <1>2, <1>3, <2>2
<1> QED
  BY <1>4

(* S[i] is the table after i items, for every i. *)
Replays(S, t, items, late) ==
    /\ S[0] = t
    /\ \A i \in 1 .. Len(items) : S[i] = [n \in Names |-> S[i][n]]
    /\ \A i \in 1 .. Len(items), n \in Names :
        S[i][n] = IF n # items[i].id THEN S[i - 1][n]
                  ELSE IF i \in late THEN AC!Created(S[i - 1][n], items[i].value)
                  ELSE AC!Written(S[i - 1][n], items[i].value)

(* The recursion of Stages defines what it says. *)
LEMMA StagesReplay ==
  ASSUME NEW t, NEW items \in Seq(DTO), NEW late
  PROVE  Replays(AC!Stages(t, items, late), t, items, late)
<1> DEFINE F(g, i) == IF i = 0 THEN t
                      ELSE [n \in Names |->
                              IF n # items[i].id THEN g[i - 1][n]
                              ELSE IF i \in late THEN AC!Created(g[i - 1][n], items[i].value)
                              ELSE AC!Written(g[i - 1][n], items[i].value)]
           T == {m \in 0 .. Len(items) : ~ \E g : g = [i \in 0 .. m |-> F(g, i)]}
<1>1. T = {}
  <2> SUFFICES ASSUME T # {} PROVE FALSE
    OBVIOUS
  <2>1. PICK m \in T : \A k \in T : m <= k
    <3>1. T \subseteq Nat
      OBVIOUS
    <3> HIDE DEF T
    <3> QED
      BY <3>1, LeastNumber
  <2>2. m \in 0 .. Len(items) /\ ~ \E g : g = [i \in 0 .. m |-> F(g, i)]
    OBVIOUS
  <2>3. m # 0
    <3> SUFFICES ASSUME m = 0 PROVE \E g : g = [i \in 0 .. m |-> F(g, i)]
      BY <2>2
    <3>1. [i \in 0 .. 0 |-> t] = [i \in 0 .. 0 |-> F([j \in 0 .. 0 |-> t], i)]
      OBVIOUS
    <3> QED
      BY <3>1
  <2>4. PICK g : g = [i \in 0 .. m - 1 |-> F(g, i)]
    <3>1. m - 1 \in 0 .. Len(items)
      BY <2>2, <2>3
    <3>2. m - 1 \notin T
      <4>1. ~ m <= m - 1
        BY <2>2
      <4> HIDE DEF T
      <4> QED
        BY <2>1, <4>1
    <3> HIDE DEF F
    <3> QED
      BY <3>1, <3>2
  <2> DEFINE h == [i \in 0 .. m |-> IF i = m THEN F(g, m) ELSE g[i]]
  <2>5. ASSUME NEW i \in 0 .. m PROVE h[i] = F(h, i)
    <3>1. i # 0 => i - 1 \in 0 .. m /\ h[i - 1] = g[i - 1]
      BY <2>2, <2>3
    <3>2. F(h, i) = F(g, i)
      BY <3>1
    <3>3. i # m => h[i] = F(g, i)
      <4> SUFFICES ASSUME i # m PROVE g[i] = F(g, i)
        OBVIOUS
      <4>1. i \in 0 .. m - 1
        BY <2>2
      <4> HIDE DEF F
      <4> QED
        BY <2>4, <4>1
    <3> QED
      BY <3>2, <3>3
  <2>6. h = [i \in 0 .. m |-> F(h, i)]
    <3>1. \A i \in 0 .. m : h[i] = F(h, i)
      BY <2>5
    <3>2. h = [i \in 0 .. m |-> h[i]]
      OBVIOUS
    <3> HIDE DEF h, F
    <3> QED
      BY <3>1, <3>2
  <2> QED
    BY <2>2, <2>6
<1>2. Len(items) \in 0 .. Len(items) /\ Len(items) \notin T
  BY <1>1
<1>3. \E g : g = [i \in 0 .. Len(items) |-> F(g, i)]
  BY <1>2
<1> DEFINE S == AC!Stages(t, items, late)
<1>4. S = CHOOSE g : g = [i \in 0 .. Len(items) |-> F(g, i)]
  BY DEF AC!Stages
<1>5. S = [i \in 0 .. Len(items) |-> F(S, i)]
  <2> HIDE DEF F, S
  <2> QED
    BY <1>3, <1>4
<1> HIDE DEF S
<1>6. S[0] = F(S, 0)
  <2>1. 0 \in 0 .. Len(items)
    OBVIOUS
  <2> HIDE DEF F
  <2> QED
    BY <1>5, <2>1
<1>7. ASSUME NEW i \in 1 .. Len(items)
      PROVE  S[i] = [n \in Names |->
                       IF n # items[i].id THEN S[i - 1][n]
                       ELSE IF i \in late THEN AC!Created(S[i - 1][n], items[i].value)
                       ELSE AC!Written(S[i - 1][n], items[i].value)]
  <2>1. S[i] = F(S, i)
    <3>1. i \in 0 .. Len(items)
      OBVIOUS
    <3> HIDE DEF F
    <3> QED
      BY <1>5, <3>1
  <2>2. i # 0
    OBVIOUS
  <2> QED
    BY <2>1, <2>2
<1>8. ASSUME NEW i \in 1 .. Len(items), NEW n \in Names
      PROVE  S[i][n] = IF n # items[i].id THEN S[i - 1][n]
                       ELSE IF i \in late THEN AC!Created(S[i - 1][n], items[i].value)
                       ELSE AC!Written(S[i - 1][n], items[i].value)
  <2> DEFINE G(m) == IF m # items[i].id THEN S[i - 1][m]
                     ELSE IF i \in late THEN AC!Created(S[i - 1][m], items[i].value)
                     ELSE AC!Written(S[i - 1][m], items[i].value)
  <2>1. S[i] = [m \in Names |-> G(m)]
    BY <1>7
  <2> HIDE DEF G
  <2>2. S[i][n] = G(n)
    BY <2>1
  <2> QED
    BY <2>2 DEF G
<1>9. ASSUME NEW i \in 1 .. Len(items) PROVE S[i] = [n \in Names |-> S[i][n]]
  BY <1>7
<1> QED
  BY <1>6, <1>8, <1>9 DEF S, Replays

(* Two calls of the same items, of which the first p are for names in L: on *)
(* L they start with the same rows, and the same of the p items are late.   *)
Alike(t, u, items, late, other, p, L) ==
    /\ items \in Seq(DTO) /\ p \in 0 .. Len(items) /\ L \in SUBSET Names
    /\ \A n \in L : t[n] = u[n]
    /\ \A i \in 1 .. p : items[i].id \in L /\ (i \in late <=> i \in other)

(* Then they come to the same rows on L and leave all other rows alone.     *)
LEMMA StagesAgree ==
  ASSUME NEW t, NEW u, NEW items, NEW late, NEW other, NEW p, NEW L,
         Alike(t, u, items, late, other, p, L)
  PROVE  \A n \in Names : AC!Stages(u, items, other)[p][n] =
            IF n \in L THEN AC!Stages(t, items, late)[p][n] ELSE u[n]
<1> DEFINE S == AC!Stages(t, items, late)
           U == AC!Stages(u, items, other)
           Same(i) == \A n \in Names : U[i][n] = IF n \in L THEN S[i][n] ELSE u[n]
           T == {i \in 0 .. p : ~ Same(i)}
<1> USE DEF Alike
<1>1. Replays(S, t, items, late) /\ Replays(U, u, items, other)
  BY StagesReplay
<1>2. ASSUME NEW i \in 1 .. Len(items), NEW n \in Names
      PROVE  /\ S[i][n] = IF n # items[i].id THEN S[i - 1][n]
                          ELSE IF i \in late THEN AC!Created(S[i - 1][n], items[i].value)
                          ELSE AC!Written(S[i - 1][n], items[i].value)
             /\ U[i][n] = IF n # items[i].id THEN U[i - 1][n]
                          ELSE IF i \in other THEN AC!Created(U[i - 1][n], items[i].value)
                          ELSE AC!Written(U[i - 1][n], items[i].value)
  <2> HIDE DEF S, U
  <2> QED
    BY <1>1, <1>2 DEF Replays
<1> HIDE DEF S, U
<1>3. ASSUME T # {} PROVE FALSE
  <2>1. PICK m \in T : \A k \in T : m <= k
    <3>1. T \subseteq Nat
      OBVIOUS
    <3> HIDE DEF T
    <3> QED
      BY <1>3, <3>1, LeastNumber
  <2>2. m \in 0 .. p /\ ~ Same(m)
    OBVIOUS
  <2>3. m # 0
    BY <1>1, <2>2 DEF Replays
  <2>4. m - 1 \in 0 .. p /\ m - 1 \notin T
    BY <2>1, <2>2, <2>3
  <2>5. Same(m - 1)
    BY <2>4
  <2>6. m \in 1 .. Len(items) /\ m \in 1 .. p
    BY <2>2, <2>3
  <2>7. ASSUME NEW n \in Names PROVE U[m][n] = IF n \in L THEN S[m][n] ELSE u[n]
    <3>1. U[m - 1][n] = IF n \in L THEN S[m - 1][n] ELSE u[n]
      BY <2>5
    <3>2. (m \in late) = (m \in other)
      BY <2>6
    <3>3. CASE n = items[m].id
      BY <1>2, <2>6, <3>1, <3>2, <3>3
    <3>4. CASE n # items[m].id
      BY <1>2, <2>6, <3>1, <3>4
    <3> QED
      BY <3>3, <3>4
  <2> QED
    BY <2>2, <2>7
<1>4. Same(p)
  BY <1>3
<1> QED
  BY <1>4 DEF S, U

-----------------------------------------------------------------------------
(* What c has written stays what the table with its items would be, however *)
(* the rows it has not locked change.                                       *)
LEMMA PartStays ==
  ASSUME NEW c \in Callers, call[c] \in Seq(DTO), NEW p \in 0 .. Len(call[c]),
         PartDone(c, p), call'[c] = call[c],
         \A n \in Names : /\ lock'[n] = c <=> lock[n] = c
                          /\ lock[n] = c => table'[n] = table[n] /\ draft'[n] = draft[n]
  PROVE  PartDone(c, p)'
<1> DEFINE L == {n \in Names : lock[n] = c}
<1>1. PICK late \in SUBSET (1 .. p) :
        \A n \in Names : AC!Stages(table, call[c], late)[p][n] = Visible(c, n)
  BY DEF PartDone
<1>2. \A i \in 1 .. p : call[c][i].id \in Names
  <2>1. \A i \in 1 .. p : call[c][i] \in DTO
    OBVIOUS
  <2> QED
    BY <2>1 DEF DTO
<1>3. \A i \in 1 .. p : call[c][i].value # Nil /\ call[c][i].id \in L
  BY <1>2 DEF PartDone
<1>4. ASSUME NEW n \in Names
      PROVE  AC!Stages(table', call[c], late)[p][n] = Visible(c, n)'
  <2>1. AC!Stages(table', call[c], late)[p][n] =
            IF n \in L THEN AC!Stages(table, call[c], late)[p][n] ELSE table'[n]
    <3>1. \A m \in L : table[m] = table'[m]
      OBVIOUS
    <3>2. L \in SUBSET Names
      OBVIOUS
    <3>3. \A i \in 1 .. p : call[c][i].id \in L
      BY <1>3
    <3>4. Alike(table, table', call[c], late, late, p, L)
      BY <3>1, <3>2, <3>3 DEF Alike
    <3> HIDE DEF L
    <3> QED
      BY <3>4, StagesAgree
  <2> QED
    BY <1>1, <2>1 DEF Visible
<1>5. \A i \in 1 .. p : lock'[call[c][i].id] = c
  BY <1>2, <1>3
<1> QED
  BY <1>3, <1>4, <1>5 DEF PartDone


(* One more statement of a transaction: one more item is applied.           *)
LEMMA PartGrows ==
  ASSUME TypeOK, NEW c \in Callers, NEW k, k = at[c], pc[c] # "idle", tx[c],
         PartDone(c, k - 1), NEW row, Put(c, row), call'[c] = call[c], Given(c) # Nil,
         \/ row = AC!Written(Visible(c, Name(c)), Given(c))
         \/ row = AC!Created(Visible(c, Name(c)), Given(c))
  PROVE  PartDone(c, k)'
<1> DEFINE items == call[c]
           L == {n \in Names : lock[n] = c}
<1>1. /\ items \in Seq(DTO) /\ k \in 1 .. Len(items) /\ k - 1 \in 0 .. Len(items)
      /\ k \in Nat
  BY DEF TypeOK
<1>2. PICK late \in SUBSET (1 .. k - 1) :
        \A n \in Names : AC!Stages(table, items, late)[k - 1][n] = Visible(c, n)
  BY DEF PartDone
<1>3. \A i \in 1 .. k : items[i] \in DTO /\ items[i].id \in Names
  <2>1. \A i \in 1 .. k : items[i] \in DTO
    BY <1>1
  <2> QED
    BY <2>1 DEF DTO
<1>4. \A i \in 1 .. k - 1 : items[i].value # Nil /\ items[i].id \in L
  BY <1>1, <1>3 DEF PartDone
<1>5. Name(c) = items[k].id /\ Given(c) = items[k].value /\ Name(c) \in Names
  BY <1>1, <1>3 DEF Name, Given, Item
<1>6. /\ table' = table
      /\ \A n \in Names : Visible(c, n)' = IF n = Name(c) THEN row ELSE Visible(c, n)
      /\ \A n \in Names : lock'[n] = c <=> lock[n] = c \/ n = Name(c)
  BY <1>5 DEF Put, Visible, TypeOK
<1> DEFINE more == IF row = AC!Written(Visible(c, Name(c)), Given(c)) THEN late
                   ELSE late \cup {k}
<1>7. more \in SUBSET (1 .. k)
  BY <1>1
<1>8. \A n \in Names : AC!Stages(table, items, more)[k - 1][n] = Visible(c, n)
  <2>1. Alike(table, table, items, late, more, k - 1, L)
    <3>1. \A i \in 1 .. k - 1 : i \in late <=> i \in more
      BY <1>1
    <3>2. L \in SUBSET Names
      OBVIOUS
    <3> HIDE DEF L, more
    <3> QED
      BY <1>1, <1>4, <3>1, <3>2 DEF Alike
  <2>2. \A n \in Names \ L : table[n] = Visible(c, n)
    BY DEF Visible
  <2> HIDE DEF L, more
  <2> QED
    BY <1>2, <2>1, <2>2, StagesAgree
<1>9. ASSUME NEW n \in Names
      PROVE  AC!Stages(table, items, more)[k][n] =
                IF n # items[k].id THEN Visible(c, n) ELSE row
  <2>1. AC!Stages(table, items, more)[k][n] =
          IF n # items[k].id THEN AC!Stages(table, items, more)[k - 1][n]
          ELSE IF k \in more
               THEN AC!Created(AC!Stages(table, items, more)[k - 1][n], items[k].value)
          ELSE AC!Written(AC!Stages(table, items, more)[k - 1][n], items[k].value)
    <3> HIDE DEF more
    <3> DEFINE S == AC!Stages(table, items, more)
    <3>1. Replays(S, table, items, more)
      BY <1>1, StagesReplay
    <3> HIDE DEF S
    <3>2. S[k][n] = IF n # items[k].id THEN S[k - 1][n]
                    ELSE IF k \in more THEN AC!Created(S[k - 1][n], items[k].value)
                    ELSE AC!Written(S[k - 1][n], items[k].value)
      BY <1>1, <3>1 DEF Replays
    <3> QED
      BY <3>2 DEF S
  <2>2. k \in more <=> row # AC!Written(Visible(c, Name(c)), Given(c))
    BY <1>1
  <2> HIDE DEF more
  <2> QED
    BY <1>5, <1>8, <2>1, <2>2
<1>10. \A n \in Names : AC!Stages(table', call'[c], more)[k][n] = Visible(c, n)'
  <2> HIDE DEF more
  <2> QED
    BY <1>5, <1>6, <1>9
<1>11. \A i \in 1 .. k : call'[c][i].value # Nil /\ lock'[call'[c][i].id] = c
  <2>1. \A i \in 1 .. k : i = k \/ i \in 1 .. k - 1
    BY <1>1
  <2> QED
    BY <1>3, <1>4, <1>5, <1>6, <2>1
<1> HIDE DEF more
<1> QED
  BY <1>7, <1>10, <1>11 DEF PartDone

-----------------------------------------------------------------------------
ReplayInv == DBInv /\ CallsAreKnown /\ BatchesReplay

(* A call on whose items a step has no effect. *)
LEMMA BatchUntouched ==
  ASSUME ReplayInv, NEW d \in Callers,
         call'[d] = call[d], at'[d] = at[d], tx'[d] = tx[d],
         pc'[d] = pc[d] \/ {pc[d], pc'[d]} \subseteq {"look", "update", "insert"},
         \A n \in Names : /\ lock'[n] = d <=> lock[n] = d
                          /\ lock[n] = d => table'[n] = table[n] /\ draft'[n] = draft[n],
         NEW p \in 0 .. Len(call[d]), tx'[d], Working(d)', p = Done(d)'
  PROVE  PartDone(d, p)'
<1>1. tx[d] /\ Working(d) /\ p = Done(d)
  BY DEF Done, Working
<1>2. PartDone(d, p)
  BY <1>1 DEF ReplayInv, BatchesReplay
<1>3. call[d] \in Seq(DTO)
  BY DEF ReplayInv, DBInv, TypeOK
<1> QED
  BY <1>2, <1>3, PartStays

Quiet(c) == Cancel(c) \/ Look(c) \/ GetMisread(c) \/ Fail(c) \/ DeadlockAbort(c)
            \/ LoseConnection(c)

(* The one statement a call is at: what it writes is what AtomicCalls says. *)
LEMMA RowWrites ==
  ASSUME DBInv, NEW c \in Callers, UpdateRow(c) \/ InsertRow(c)
  PROVE  /\ pc[c] \in {"update", "insert"} /\ Given(c) # Nil /\ Name(c) \in Names
         /\ Mine(c, Name(c)) /\ UNCHANGED <<call, tx>>
         /\ Advance(c) \/ (~tx[c] /\ GoTo(c, "failing") /\ UNCHANGED at)
         /\ \E row : /\ Put(c, row)
                     /\ \/ row = AC!Written(Visible(c, Name(c)), Given(c))
                        \/ row = AC!Created(Visible(c, Name(c)), Given(c))
<1>1. pc[c] \in {"update", "insert"} /\ Name(c) \in Names
  BY ItemFacts DEF UpdateRow, InsertRow, DBInv
<1>2. CASE UpdateRow(c)
  <2>1. Visible(c, Name(c)) # Absent
    BY <1>2 DEF UpdateRow, DBInv, UpdateFindsRow
  <2>2. Put(c, AC!Written(Visible(c, Name(c)), Given(c)))
    BY <1>2, <2>1 DEF UpdateRow, AC!Written, AC!Touched, Touched, AC!Absent, Absent
  <2> QED
    BY <1>1, <1>2, <2>2 DEF UpdateRow
<1>3. CASE InsertRow(c)
  <2>1. Put(c, AC!Created(Visible(c, Name(c)), Given(c)))
    BY <1>3 DEF InsertRow, AC!Created, AC!NewRow, AC!Clashed, AC!Absent, NewRow, Clashed, Absent
  <2> QED
    BY <1>1, <1>3, <2>1 DEF InsertRow
<1> QED
  BY <1>2, <1>3

(* What a step of c leaves alone of another call. *)
LEMMA Frame ==
  ASSUME DBInv, NEW c \in Callers, NEW d \in Callers, d # c,
         \/ \E items, batch : Begin(c, items, batch)
         \/ Quiet(c) \/ UpdateRow(c) \/ InsertRow(c) \/ Commit(c) \/ Return(c)
  PROVE  /\ call'[d] = call[d] /\ at'[d] = at[d] /\ tx'[d] = tx[d] /\ pc'[d] = pc[d]
         /\ \A n \in Names : /\ lock'[n] = d <=> lock[n] = d
                             /\ lock[n] = d => table'[n] = table[n] /\ draft'[n] = draft[n]
<1> USE DEF DBInv
<1>1. CASE \E items, batch : Begin(c, items, batch)
  BY <1>1 DEF Begin, GoTo, rowVars, TypeOK
<1>2. CASE Quiet(c)
  BY <1>2 DEF Quiet, Cancel, Look, GetMisread, Fail, DeadlockAbort, LoseConnection, Abort,
              GoTo, rowVars, TypeOK
<1>3. CASE UpdateRow(c) \/ InsertRow(c)
  <2>1. PICK row : Put(c, row)
    BY <1>3, RowWrites
  <2>2. lock[Name(c)] # d
    BY <1>3, DBCallersAssumption, RowWrites DEF Mine
  <2>3. call'[d] = call[d] /\ at'[d] = at[d] /\ tx'[d] = tx[d] /\ pc'[d] = pc[d]
    BY <1>3, RowWrites DEF Advance, GoTo, TypeOK
  <2>4. \A n \in Names : n # Name(c) =>
            lock'[n] = lock[n] /\ table'[n] = table[n] /\ draft'[n] = draft[n]
    BY <2>1 DEF Put, TypeOK
  <2>5. lock'[Name(c)] # d
    BY <2>1, <2>2 DEF Put, TypeOK
  <2> QED
    BY <2>2, <2>3, <2>4, <2>5
<1>4. CASE Commit(c)
  <2>1. call'[d] = call[d] /\ at'[d] = at[d] /\ tx'[d] = tx[d] /\ pc'[d] = pc[d]
    BY <1>4 DEF Commit, GoTo, TypeOK
  <2>2. \A n \in Names : lock[n] = d => table'[n] = table[n]
    BY <1>4 DEF Commit, Visible
  <2> QED
    BY <1>4, <2>1, <2>2, ReleaseFacts DEF Commit
<1>5. CASE Return(c)
  <2>1. /\ call'[d] = call[d] /\ at'[d] = at[d] /\ tx'[d] = tx[d] /\ pc'[d] = pc[d]
        /\ table' = table
    BY <1>5 DEF Return, GoTo, TypeOK
  <2> QED
    BY <1>5, <2>1, ReleaseFacts DEF Return
<1> QED
  BY <1>1, <1>2, <1>3, <1>4, <1>5

(* What a step of c makes of its own call. *)
LEMMA CallsStayKnown ==
  ASSUME ReplayInv, NEW c \in Callers,
         \/ \E d \in Singles : Begin(c, <<d>>, FALSE)
         \/ \E b \in Batches : Begin(c, b, TRUE)
         \/ Quiet(c) \/ UpdateRow(c) \/ InsertRow(c) \/ Commit(c) \/ Return(c)
  PROVE  CallsAreKnown'
<1> USE DEF ReplayInv, DBInv
<1> DEFINE Known(d) == /\ tx[d] => call[d] \in Batches
                       /\ pc[d] # "idle" /\ ~tx[d] => \E s \in Singles : call[d] = <<s>>
                       /\ pc[d] = "commit" => tx[d] /\ at[d] = Len(call[d])
<1>1. ASSUME NEW d \in Callers, d # c PROVE Known(d)'
  <2>1. call'[d] = call[d] /\ at'[d] = at[d] /\ tx'[d] = tx[d] /\ pc'[d] = pc[d]
    BY <1>1, Frame
  <2> QED
    BY <2>1 DEF CallsAreKnown
<1>2. CASE \E s \in Singles : Begin(c, <<s>>, FALSE)
  <2>1. Known(c)'
    BY <1>2 DEF Begin, GoTo, TypeOK
  <2> QED
    BY <1>1, <2>1 DEF CallsAreKnown
<1>3. CASE \E b \in Batches : Begin(c, b, TRUE)
  <2>1. Known(c)'
    BY <1>3 DEF Begin, GoTo, TypeOK
  <2> QED
    BY <1>1, <2>1 DEF CallsAreKnown
<1>4. CASE Quiet(c)
  <2>1. UNCHANGED <<call, at, tx>> /\ pc[c] # "idle"
        /\ (pc'[c] = "commit" => pc[c] = "commit")
    BY <1>4 DEF Quiet, Cancel, Look, GetMisread, Fail, DeadlockAbort, LoseConnection, Abort,
                GoTo, Working, Deadlocked, Blocked, TypeOK
  <2>2. Known(c)'
    BY <2>1 DEF CallsAreKnown
  <2> QED
    BY <1>1, <2>2 DEF CallsAreKnown
<1>5. CASE UpdateRow(c) \/ InsertRow(c)
  <2>1. /\ UNCHANGED <<call, tx>> /\ pc[c] # "idle"
        /\ pc'[c] = "commit" => tx[c] /\ at'[c] = Len(call[c])
    BY <1>5, RowWrites DEF Advance, GoTo, TypeOK
  <2>2. Known(c)'
    BY <2>1 DEF CallsAreKnown
  <2> QED
    BY <1>1, <2>2 DEF CallsAreKnown
<1>6. CASE Commit(c)
  <2>1. UNCHANGED <<call, tx>> /\ pc[c] # "idle" /\ pc'[c] # "commit"
    BY <1>6 DEF Commit, GoTo, TypeOK
  <2>2. Known(c)'
    BY <2>1 DEF CallsAreKnown
  <2> QED
    BY <1>1, <2>2 DEF CallsAreKnown
<1>7. CASE Return(c)
  <2>1. Known(c)'
    BY <1>7 DEF Return, GoTo, TypeOK
  <2> QED
    BY <1>1, <2>1 DEF CallsAreKnown
<1> QED
  BY <1>2, <1>3, <1>4, <1>5, <1>6, <1>7

LEMMA BatchesStayReplays ==
  ASSUME ReplayInv, NEW c \in Callers, TypeOK',
         \/ \E d \in Singles : Begin(c, <<d>>, FALSE)
         \/ \E b \in Batches : Begin(c, b, TRUE)
         \/ Quiet(c) \/ UpdateRow(c) \/ InsertRow(c) \/ Commit(c) \/ Return(c)
  PROVE  BatchesReplay'
<1> USE DEF ReplayInv, DBInv
<1>1. ASSUME NEW d \in Callers, d # c, NEW p \in 0 .. Len(call'[d]),
             tx'[d], Working(d)', p = Done(d)'
      PROVE  PartDone(d, p)'
  <2>1. /\ call'[d] = call[d] /\ at'[d] = at[d] /\ tx'[d] = tx[d] /\ pc'[d] = pc[d]
        /\ \A n \in Names : /\ lock'[n] = d <=> lock[n] = d
                            /\ lock[n] = d => table'[n] = table[n] /\ draft'[n] = draft[n]
    BY <1>1, Frame
  <2> QED
    BY <1>1, <2>1, BatchUntouched
<1>2. ASSUME NEW p \in 0 .. Len(call'[c]), tx'[c], Working(c)', p = Done(c)'
      PROVE  PartDone(c, p)'
  <2>1. CASE \E b \in Batches : Begin(c, b, TRUE)
    <3>1. /\ pc[c] = "idle" /\ pc'[c] = "look" /\ at'[c] = 1 /\ UNCHANGED <<table, lock>>
      BY <2>1 DEF Begin, GoTo, rowVars, TypeOK
    <3>2. p = 0
      BY <1>2, <3>1 DEF Done
    <3>3. call'[c] \in Seq(DTO)
      BY DEF TypeOK
    <3>4. \A n \in Names : Visible(c, n)' = table'[n]
      BY <3>1 DEF Visible, LocksAreHeld
    <3>5. AC!Stages(table', call'[c], {})[0] = table'
      <4>1. Replays(AC!Stages(table', call'[c], {}), table', call'[c], {})
        BY <3>3, StagesReplay
      <4> QED
        BY <4>1 DEF Replays
    <3> QED
      BY <3>2, <3>4, <3>5 DEF PartDone
  <2>2. CASE \E d \in Singles : Begin(c, <<d>>, FALSE)
    BY <1>2, <2>2 DEF Begin, TypeOK
  <2>3. CASE Quiet(c)
    <3>1. /\ UNCHANGED <<call, at, tx, table, lock, draft>>
          /\ pc'[c] = pc[c] \/ (pc[c] = "look" /\ pc'[c] \in {"update", "insert"})
      BY <1>2, <2>3 DEF Quiet, Cancel, Look, GetMisread, Fail, DeadlockAbort,
           LoseConnection, Abort, GoTo, rowVars, Working, TypeOK
    <3> QED
      BY <1>2, <3>1, BatchUntouched
  <2>4. CASE UpdateRow(c) \/ InsertRow(c)
    <3>1. PICK row : /\ Put(c, row)
                     /\ \/ row = AC!Written(Visible(c, Name(c)), Given(c))
                        \/ row = AC!Created(Visible(c, Name(c)), Given(c))
      BY <2>4, RowWrites
    <3>2. /\ pc[c] \in {"update", "insert"} /\ tx[c] /\ UNCHANGED <<call, tx>>
          /\ Given(c) # Nil /\ Advance(c)
      BY <1>2, <2>4, RowWrites
    <3>3. at[c] \in 1 .. Len(call[c])
      <4>1. at[c] \in DOMAIN call[c] /\ call[c] \in Seq(DTO)
        BY <3>2 DEF TypeOK
      <4> QED
        BY <4>1
    <3>4. p = at[c]
      BY <1>2, <3>2, <3>3 DEF Advance, GoTo, Done, TypeOK
    <3>5. PartDone(c, p - 1)
      <4>1. p - 1 \in 0 .. Len(call[c]) /\ p - 1 = Done(c) /\ Working(c)
        BY <3>2, <3>3, <3>4 DEF Done, Working
      <4> QED
        BY <3>2, <4>1 DEF BatchesReplay
    <3> QED
      BY <3>1, <3>2, <3>4, <3>5, PartGrows
  <2>5. CASE Commit(c) \/ Return(c)
    BY <1>2, <2>5 DEF Commit, Return, GoTo, Working, TypeOK
  <2> QED
    BY <2>1, <2>2, <2>3, <2>4, <2>5
<1> QED
  BY <1>1, <1>2 DEF BatchesReplay

LEMMA NextReplayInv == ReplayInv /\ [Next]_vars => ReplayInv'
<1> SUFFICES ASSUME ReplayInv, [Next]_vars PROVE ReplayInv'
  OBVIOUS
<1>1. DBInv'
  BY NextDBInv DEF ReplayInv
<1>2. CASE UNCHANGED vars
  <2>1. UNCHANGED <<table, lock, draft, pc, call, at, tx>>
    BY <1>2 DEF vars, rowVars, callVars
  <2>2. CallsAreKnown'
    BY <2>1 DEF ReplayInv, CallsAreKnown
  <2>3. ASSUME NEW d \in Callers, NEW p \in 0 .. Len(call'[d]),
               tx'[d], Working(d)', p = Done(d)'
        PROVE  PartDone(d, p)'
    BY <2>1, <2>3, BatchUntouched
  <2> QED
    BY <1>1, <2>2, <2>3 DEF ReplayInv, BatchesReplay
<1>3. CASE Next
  <2>1. PICK c \in Callers :
           \/ \E d \in Singles : Begin(c, <<d>>, FALSE)
           \/ \E b \in Batches : Begin(c, b, TRUE)
           \/ Quiet(c) \/ UpdateRow(c) \/ InsertRow(c) \/ Commit(c) \/ Return(c)
    BY <1>3 DEF Next, Step, Quiet
  <2> QED
    BY <1>1, <2>1, CallsStayKnown, BatchesStayReplays DEF ReplayInv, DBInv
<1> QED
  BY <1>2, <1>3

-----------------------------------------------------------------------------

-----------------------------------------------------------------------------
(* A table is what a call makes of another when that is so name by name.    *)
LEMMA WholeCall ==
  ASSUME table' = [n \in Names |-> table'[n]],
         NEW items \in {<<d>> : d \in Singles} \cup Batches,
         items \in Seq(DTO), items # <<>>,
         \A i \in DOMAIN items : items[i].value # Nil,
         NEW late \in SUBSET DOMAIN items,
         \A n \in Names : table'[n] = AC!Stages(table, items, late)[Len(items)][n]
  PROVE  AC!Next
<1> DEFINE S == AC!Stages(table, items, late)
<1>1. Len(items) \in 1 .. Len(items)
  OBVIOUS
<1>2. Replays(S, table, items, late)
  BY StagesReplay
<1> HIDE DEF S
<1>3. S[Len(items)] = [n \in Names |-> S[Len(items)][n]]
  BY <1>1, <1>2 DEF Replays
<1>4. table' = S[Len(items)]
  BY <1>3 DEF S
<1>5. table' = AC!Applied(items, late)
  BY <1>4 DEF S, AC!Applied
<1>6. \A i \in DOMAIN items : items[i].value # AC!Nil
  BY DEF AC!Nil, Nil
<1> QED
  BY <1>5, <1>6 DEF AC!Next

(* Each step is a call as a whole, or nothing. *)
LEMMA StepIsAtomic == ReplayInv /\ [Next]_vars => [AC!Next]_table
<1> SUFFICES ASSUME ReplayInv, [Next]_vars, table' # table PROVE AC!Next
  OBVIOUS
<1> USE DEF ReplayInv, DBInv
<1>1. PICK c \in Callers : (UpdateRow(c) \/ InsertRow(c)) \/ Commit(c)
  BY DEF Next, Step, Begin, Cancel, Look, GetMisread, Fail, DeadlockAbort, LoseConnection,
         Abort, Return, rowVars, vars
<1>2. table' = [n \in Names |-> table'[n]]
  BY NextDBInv DEF TypeOK
<1>3. CASE UpdateRow(c) \/ InsertRow(c)
  <2>1. PICK row : /\ Put(c, row)
                   /\ \/ row = AC!Written(Visible(c, Name(c)), Given(c))
                      \/ row = AC!Created(Visible(c, Name(c)), Given(c))
    BY <1>3, RowWrites
  <2>2. /\ pc[c] \in {"update", "insert"} /\ ~tx[c] /\ Given(c) # Nil /\ Name(c) \in Names
        /\ table' = [table EXCEPT ![Name(c)] = row]
    BY <1>3, <2>1, RowWrites DEF Put
  <2>3. PICK d \in Singles : call[c] = <<d>>
    BY <2>2 DEF CallsAreKnown
  <2>4. Name(c) = d.id /\ Given(c) = d.value /\ d \in DTO
    <3>1. at[c] \in DOMAIN <<d>>
      BY <2>2, <2>3 DEF TypeOK
    <3>2. at[c] = 1
      BY <3>1
    <3> QED
      BY <2>3, <3>2, SinglesAssumption DEF Name, Given, Item
  <2>5. Visible(c, Name(c)) = table[Name(c)]
    BY <2>2 DEF Visible, LocksAreHeld
  <2> DEFINE items == <<d>>
             late == IF row = AC!Written(table[d.id], d.value) THEN {} ELSE {1}
             S == AC!Stages(table, items, late)
  <2>6. items \in Seq(DTO) /\ Len(items) = 1 /\ items[1] = d /\ DOMAIN items = {1}
        /\ items # <<>>
    BY <2>4
  <2>7. Replays(S, table, items, late)
    BY <2>6, StagesReplay
  <2>8. late \in SUBSET DOMAIN items
    BY <2>6
  <2> HIDE DEF S, items
  <2>9. ASSUME NEW n \in Names PROVE table'[n] = S[1][n]
    <3>1. S[1][n] = IF n # d.id THEN S[0][n]
                    ELSE IF 1 \in late THEN AC!Created(S[0][n], d.value)
                    ELSE AC!Written(S[0][n], d.value)
      <4>1. 1 \in 1 .. Len(items) /\ 1 - 1 = 0
        BY <2>6
      <4> HIDE DEF late
      <4> QED
        BY <2>6, <2>7, <4>1 DEF Replays
    <3>2. S[0] = table
      BY <2>7 DEF Replays
    <3> QED
      BY <2>1, <2>2, <2>4, <2>5, <3>1, <3>2 DEF TypeOK
  <2>10. items \in {<<s>> : s \in Singles} \cup Batches
    BY DEF items
  <2>11. \A i \in DOMAIN items : items[i].value # Nil
    BY <2>2, <2>4, <2>6
  <2> HIDE DEF late
  <2>12. \A n \in Names : table'[n] = AC!Stages(table, items, late)[Len(items)][n]
    BY <2>6, <2>9 DEF S
  <2> QED
    BY <1>2, <2>6, <2>8, <2>10, <2>11, <2>12, WholeCall
<1>4. CASE Commit(c)
  <2>1. tx[c] /\ pc[c] = "commit" /\ at[c] = Len(call[c]) /\ call[c] \in Batches
    BY <1>4 DEF Commit, CallsAreKnown
  <2>2. call[c] \in Seq(DTO) /\ call[c] # <<>> /\ Len(call[c]) \in 0 .. Len(call[c])
        /\ DOMAIN call[c] = 1 .. Len(call[c])
    BY <2>1, DBBatchesAssumption
  <2>3. PartDone(c, Len(call[c]))
    <3>1. Working(c) /\ Len(call[c]) = Done(c)
      BY <2>1 DEF Working, Done
    <3> QED
      BY <2>1, <2>2, <3>1 DEF BatchesReplay
  <2>4. PICK late \in SUBSET DOMAIN call[c] :
            \A n \in Names : AC!Stages(table, call[c], late)[Len(call[c])][n] = Visible(c, n)
    BY <2>2, <2>3 DEF PartDone
  <2>5. \A n \in Names : table'[n] = AC!Stages(table, call[c], late)[Len(call[c])][n]
    BY <1>4, <2>4 DEF Commit
  <2>6. \A i \in DOMAIN call[c] : call[c][i].value # Nil
    BY <2>2, <2>3 DEF PartDone
  <2> QED
    BY <1>2, <2>1, <2>2, <2>4, <2>5, <2>6, WholeCall
<1> QED
  BY <1>1, <1>3, <1>4

(* However the statements, commits, aborts and rollbacks of db.go interleave, *)
(* the table only ever changes by a whole call: an update, or all items of a  *)
(* batch, one by one, at the instant of its commit.                           *)
THEOREM DBStorageImplementsAtomicCalls == Spec => ImplementsAtomicCalls
<1>1. Init => ReplayInv
  <2> SUFFICES ASSUME Init PROVE ReplayInv
    OBVIOUS
  <2>1. DBInv
    BY InitDBInv
  <2> QED
    BY <2>1 DEF Init, ReplayInv, CallsAreKnown, BatchesReplay
<1>2. Init => AC!Init
  BY InitDBInv DEF DBInv, TypeOK, AC!Init, AC!Row, AC!Int64, AC!Absent, Row, Int64, Absent
<1> QED
  BY <1>1, <1>2, NextReplayInv, StepIsAtomic, PTL DEF Spec, ImplementsAtomicCalls, AC!Spec
=============================================================================
