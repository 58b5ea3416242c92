-------------------------- MODULE MemStorage_proofs --------------------------
(***************************************************************************)
(* The safety properties of MemStorage for any number of callers, readers, *)
(* names and requests, and its refinement of MetricMap.  All of them rest  *)
(* on the inductive invariant MemInv.                                      *)
(***************************************************************************)
EXTENDS MemStorage, MetricValues_proofs

(* What a caller inside a call reads from its first item. *)
LEMMA ItemType ==
  ASSUME TypeOK, NEW c \in Callers, pc[c] # "idle"
  PROVE  /\ todo[c] \in Seq(DTO) /\ todo[c] # <<>>
         /\ Name(c) \in Names
         /\ Given(c) \in Value
<1>1. todo[c] \in Seq(DTO) /\ todo[c] # <<>>
  BY DEF TypeOK
<1>2. Head(todo[c]) \in DTO
  BY <1>1
<1> QED
  BY <1>1, <1>2 DEF Name, Given, Item, DTO

(* The metric a bound name points to. *)
LEMMA BoundMetric ==
  ASSUME TypeOK, NEW n \in Names, Bound(n)
  PROVE  values[n] \in DOMAIN heap /\ heap[values[n]] \in Metric
<1>1. values[n] \in 1 .. Len(heap) /\ heap \in Seq(Metric)
  BY DEF TypeOK, Bound
<1> QED
  BY <1>1

(* A batch with more than one item has a next one. *)
LEMMA TailIsABatch ==
  ASSUME NEW S, NEW s \in Seq(S), Len(s) > 1
  PROVE  Tail(s) \in Seq(S) /\ Tail(s) # <<>>
<1>1. s # <<>>
  OBVIOUS
<1>2. Tail(s) \in Seq(S) /\ Len(Tail(s)) = Len(s) - 1
  BY <1>1
<1>3. Len(Tail(s)) # Len(<<>>)
  BY <1>2
<1> QED
  BY <1>2, <1>3

(* Nobody is half-way through Insert while the mutex is free. *)
LEMMA UnlockedMeansNoWriter ==
  ASSUME WriterIsAlone, Unlocked
  PROVE  \A c \in Callers : pc[c] # "inserting"
  BY CallersAssumption DEF WriterIsAlone, Unlocked

-----------------------------------------------------------------------------
(* What main has loaded satisfies the invariant: the last line of each name *)
(* is its metric, so no two names share one.                                *)
LEMMA LoadedMemInv ==
  ASSUME NEW lines \in Seq(Line), Loaded(lines)
  PROVE  MemInv
<1> USE DEF Loaded
<1>1. heap \in Seq(Metric) /\ Len(heap) = Len(lines)
  <2>1. DOMAIN lines = 1 .. Len(lines) /\ Len(lines) \in Nat
    OBVIOUS
  <2>2. \A i \in 1 .. Len(lines) : lines[i] \in Line
    OBVIOUS
  <2>3. \A i \in 1 .. Len(lines) : lines[i].value \in Metric
    BY <2>2 DEF Line
  <2>4. heap \in [1 .. Len(lines) -> Metric]
    BY <2>1, <2>3
  <2> QED
    BY <2>1, <2>4
<1>2. \A n \in Names : values[n] \in 0 .. Len(lines)
  OBVIOUS
<1>3. \A n \in Names : Bound(n) => /\ lines[values[n]].id = n
                                  /\ heap[values[n]] \in Metric
  <2> SUFFICES ASSUME NEW n \in Names, Bound(n)
               PROVE  lines[values[n]].id = n /\ heap[values[n]] \in Metric
    OBVIOUS
  <2>1. lines[values[n]].id = n
    BY DEF LastLine, Bound
  <2>2. values[n] \in 1 .. Len(lines)
    BY <1>2 DEF Bound
  <2> QED
    BY <1>1, <2>1, <2>2
<1>4. \A n \in Names : Starts(n) \in Int64
  BY <1>3, ZeroIsInt64 DEF Starts, Metric, Counter, Gauge
<1>5. TypeOK
  BY <1>1, <1>4 DEF TypeOK, Phases
<1>6. UpdateFindsKey /\ WriterIsAlone /\ CreatesOnce /\ StoredIsBound
  BY DEF UpdateFindsKey, WriterIsAlone, CreatesOnce, StoredIsBound
<1>7. NoAlias /\ LossOnlyByRacingCreates
  <2>1. NoAlias
    BY <1>3 DEF NoAlias, Bound
  <2>2. LossOnlyByRacingCreates
    BY DEF LossOnlyByRacingCreates, Starts
  <2> QED
    BY <2>1, <2>2
<1>8. ReplyReadsTheStoredMetric /\ CreatedIsBound
  BY DEF ReplyReadsTheStoredMetric, CreatedIsBound, Starts
<1> QED
  BY <1>5, <1>6, <1>7, <1>8 DEF MemInv

(* The initial state satisfies the invariant. *)
LEMMA InitMemInv == Init => MemInv
  BY LoadedMemInv, SnapshotsAssumption DEF Init

(* A request that arrives disturbs nothing: its caller has yet to look. *)
LEMMA BeginMemInv ==
  ASSUME MemInv, NEW c \in Callers, NEW b \in Batches, Begin(c, b)
  PROVE  MemInv'
<1> USE DEF MemInv
<1>1. TypeOK'
  BY BatchesAssumption DEF Begin, TypeOK, Phases, GoTo, memVars, histVars
<1>2. UpdateFindsKey' /\ StoredIsBound' /\ CreatesOnce'
  BY DEF Begin, UpdateFindsKey, StoredIsBound, CreatesOnce, TypeOK, GoTo,
         memVars, histVars, Bound, Name, Item
<1>3. WriterIsAlone' /\ ReplyReadsTheStoredMetric'
  BY DEF Begin, WriterIsAlone, ReplyReadsTheStoredMetric, Raced, TypeOK, GoTo,
         memVars, histVars, Name, Given, Item
<1>4. NoAlias' /\ LossOnlyByRacingCreates' /\ CreatedIsBound'
  BY DEF Begin, NoAlias, LossOnlyByRacingCreates, CreatedIsBound, Raced, Bound,
         memVars, histVars
<1> QED
  BY <1>1, <1>2, <1>3, <1>4

(* Get sends to Update only a caller whose name is bound, and to Insert only
   one that has not created it. *)
LEMMA GetMemInv ==
  ASSUME MemInv, NEW c \in Callers, Get(c)
  PROVE  MemInv'
<1> USE DEF MemInv
<1>0. pc[c] # "idle"
  BY DEF Get
<1>1. TypeOK'
  BY <1>0, ItemType DEF Get, TypeOK, Phases, GoTo, Bound, memVars, histVars
<1>2. UpdateFindsKey' /\ StoredIsBound' /\ CreatesOnce'
  BY <1>0, ItemType DEF Get, UpdateFindsKey, StoredIsBound, CreatesOnce,
         CreatedIsBound, TypeOK, GoTo, memVars, histVars, Bound, Name, Item
<1>3. WriterIsAlone' /\ ReplyReadsTheStoredMetric'
  BY <1>0, ItemType DEF Get, WriterIsAlone, ReplyReadsTheStoredMetric, Raced,
         TypeOK, GoTo, memVars, histVars, Bound, Name, Given, Item, Unlocked
<1>4. NoAlias' /\ LossOnlyByRacingCreates' /\ CreatedIsBound'
  BY DEF Get, NoAlias, LossOnlyByRacingCreates, CreatedIsBound, Raced, Bound,
         memVars, histVars
<1> QED
  BY <1>1, <1>2, <1>3, <1>4

(* An update that fails leaves the mutex locked and nothing else changed. *)
LEMMA UpdateFailMemInv ==
  ASSUME MemInv, NEW c \in Callers, UpdateFail(c)
  PROVE  MemInv'
<1> USE DEF MemInv
<1>0. pc[c] # "idle"
  BY DEF UpdateFail
<1>1. TypeOK'
  BY <1>0, ItemType DEF UpdateFail, TypeOK, Phases, GoTo, Bound, memVars, histVars
<1>2. UpdateFindsKey' /\ StoredIsBound' /\ CreatesOnce'
  BY <1>0, ItemType DEF UpdateFail, UpdateFindsKey, StoredIsBound, CreatesOnce,
         CreatedIsBound, TypeOK, GoTo, memVars, histVars, Bound, Name, Item
<1>3. WriterIsAlone' /\ ReplyReadsTheStoredMetric'
  BY <1>0, ItemType, UnlockedMeansNoWriter DEF UpdateFail, WriterIsAlone, ReplyReadsTheStoredMetric, Raced,
         TypeOK, GoTo, memVars, histVars, Bound, Name, Given, Item, Unlocked
<1>4. NoAlias' /\ LossOnlyByRacingCreates' /\ CreatedIsBound'
  BY DEF UpdateFail, NoAlias, LossOnlyByRacingCreates, CreatedIsBound, Raced, Bound,
         memVars, histVars
<1> QED
  BY <1>1, <1>2, <1>3, <1>4

(* A creation without a value stores nothing. *)
LEMMA CreateNilMemInv ==
  ASSUME MemInv, NEW c \in Callers, CreateNil(c)
  PROVE  MemInv'
<1> USE DEF MemInv
<1>0. pc[c] # "idle"
  BY DEF CreateNil
<1>1. TypeOK'
  BY <1>0, ItemType DEF CreateNil, TypeOK, Phases, GoTo, Bound, memVars, histVars
<1>2. UpdateFindsKey' /\ StoredIsBound' /\ CreatesOnce'
  BY <1>0, ItemType DEF CreateNil, UpdateFindsKey, StoredIsBound, CreatesOnce,
         CreatedIsBound, TypeOK, GoTo, memVars, histVars, Bound, Name, Item
<1>3. WriterIsAlone' /\ ReplyReadsTheStoredMetric'
  BY <1>0, ItemType DEF CreateNil, WriterIsAlone, ReplyReadsTheStoredMetric, Raced,
         TypeOK, GoTo, memVars, histVars, Bound, Name, Given, Item, Unlocked
<1>4. NoAlias' /\ LossOnlyByRacingCreates' /\ CreatedIsBound'
  BY DEF CreateNil, NoAlias, LossOnlyByRacingCreates, CreatedIsBound, Raced, Bound,
         memVars, histVars
<1> QED
  BY <1>1, <1>2, <1>3, <1>4

(* The next item of a batch starts like a new request. *)
LEMMA NextItemMemInv ==
  ASSUME MemInv, NEW c \in Callers, NextItem(c)
  PROVE  MemInv'
<1> USE DEF MemInv
<1>0. pc[c] # "idle"
  BY DEF NextItem
<1>a. Tail(todo[c]) \in Seq(DTO) /\ Tail(todo[c]) # <<>>
  BY <1>0, ItemType, TailIsABatch DEF NextItem
<1>1. TypeOK'
  BY <1>a DEF NextItem, TypeOK, Phases, GoTo, memVars, histVars
<1>2. UpdateFindsKey' /\ StoredIsBound' /\ CreatesOnce'
  BY <1>0, ItemType DEF NextItem, UpdateFindsKey, StoredIsBound, CreatesOnce,
         CreatedIsBound, TypeOK, GoTo, memVars, histVars, Bound, Name, Item
<1>3. WriterIsAlone' /\ ReplyReadsTheStoredMetric'
  BY <1>0, ItemType DEF NextItem, WriterIsAlone, ReplyReadsTheStoredMetric, Raced,
         TypeOK, GoTo, memVars, histVars, Bound, Name, Given, Item, Unlocked
<1>4. NoAlias' /\ LossOnlyByRacingCreates' /\ CreatedIsBound'
  BY DEF NextItem, NoAlias, LossOnlyByRacingCreates, CreatedIsBound, Raced, Bound,
         memVars, histVars
<1> QED
  BY <1>1, <1>2, <1>3, <1>4

(* A call that returns forgets its items. *)
LEMMA ReturnMemInv ==
  ASSUME MemInv, NEW c \in Callers, Return(c)
  PROVE  MemInv'
<1> USE DEF MemInv
<1>0. pc[c] # "idle"
  BY DEF Return
<1>1. TypeOK'
  BY <1>0, ItemType DEF Return, TypeOK, Phases, GoTo, Bound, memVars, histVars
<1>2. UpdateFindsKey' /\ StoredIsBound' /\ CreatesOnce'
  BY <1>0, ItemType DEF Return, UpdateFindsKey, StoredIsBound, CreatesOnce,
         CreatedIsBound, TypeOK, GoTo, memVars, histVars, Bound, Name, Item
<1>3. WriterIsAlone' /\ ReplyReadsTheStoredMetric'
  BY <1>0, ItemType DEF Return, WriterIsAlone, ReplyReadsTheStoredMetric, Raced,
         TypeOK, GoTo, memVars, histVars, Bound, Name, Given, Item, Unlocked
<1>4. NoAlias' /\ LossOnlyByRacingCreates' /\ CreatedIsBound'
  BY DEF Return, NoAlias, LossOnlyByRacingCreates, CreatedIsBound, Raced, Bound,
         memVars, histVars
<1> QED
  BY <1>1, <1>2, <1>3, <1>4

(* An update adds its delta to the metric and to the history alike, and by *)
(* NoAlias to no other name's metric.                                      *)
LEMMA UpdateApplyMemInv ==
  ASSUME MemInv, NEW c \in Callers, UpdateApply(c)
  PROVE  MemInv'
<1> USE DEF MemInv
<1> DEFINE i == values[Name(c)]
           v == Given(c)
<1>0. pc[c] = "update" /\ Name(c) \in Names /\ v \in Value
  BY ItemType DEF UpdateApply
<1>1. i \in DOMAIN heap /\ heap[i] \in Metric
  BY <1>0, BoundMetric DEF UpdateApply
<1>2. heap' = [heap EXCEPT ![i] = Updated(heap[i], v)]
  BY DEF UpdateApply
<1>3. /\ Updated(heap[i], v) \in Metric
      /\ Updated(heap[i], v).type = heap[i].type
      /\ v.type = "counter" =>
            /\ v.val \in Int64 /\ heap[i].val \in Int64
            /\ Updated(heap[i], v).val = Wrap(heap[i].val + v.val)
  BY <1>0, <1>1, UpdatedFacts DEF UpdateApply
<1>4. heap' \in Seq(Metric) /\ Len(heap') = Len(heap)
  BY <1>1, <1>2, <1>3 DEF TypeOK
<1>5. TypeOK'
  <2>1. sum' \in [Names -> Int64]
    <3>1. v.type = "counter" => sum[Name(c)] + v.val \in Int
      BY <1>0, <1>3, HalfAssumption DEF TypeOK, Int64
    <3>2. v.type = "counter" => Wrap(sum[Name(c)] + v.val) \in Int64
      BY <3>1, WrapType
    <3> QED
      BY <1>0, <3>2 DEF UpdateApply, TypeOK
  <2> QED
    BY <1>0, <1>4, <2>1 DEF UpdateApply, TypeOK, Phases, GoTo
<1>6. UpdateFindsKey' /\ StoredIsBound' /\ CreatesOnce' /\ NoAlias'
  BY <1>0 DEF UpdateApply, UpdateFindsKey, StoredIsBound, CreatesOnce, NoAlias,
         TypeOK, GoTo, Bound, Name, Item
<1>7. WriterIsAlone' /\ ReplyReadsTheStoredMetric'
  BY <1>0, UnlockedMeansNoWriter
     DEF UpdateApply, WriterIsAlone, ReplyReadsTheStoredMetric, Raced, TypeOK,
         GoTo, Name, Given, Item
<1>8. CreatedIsBound'
  BY <1>0 DEF UpdateApply, CreatedIsBound, TypeOK, Bound
<1>9. LossOnlyByRacingCreates'
  <2> SUFFICES ASSUME NEW n \in Names, Bound(n), ~Raced(n),
                      heap'[values[n]].type = "counter"
               PROVE  heap'[values[n]].val = sum'[n]
    BY DEF UpdateApply, LossOnlyByRacingCreates, Bound, Raced
  <2>1. values[n] \in DOMAIN heap
    BY BoundMetric
  <2>2. CASE n = Name(c)
    <3>1. heap[i].type = "counter" /\ v.type = "counter"
      BY <1>1, <1>2, <1>3, <2>2 DEF UpdateApply
    <3>2. heap[i].val = sum[n]
      BY <2>2, <3>1 DEF LossOnlyByRacingCreates
    <3>3. sum'[n] = Wrap(sum[n] + v.val)
      BY <2>2, <3>1 DEF UpdateApply, TypeOK
    <3>4. heap'[i] = Updated(heap[i], v)
      BY <1>1, <1>2
    <3> QED
      BY <1>3, <2>2, <3>1, <3>2, <3>3, <3>4
  <2>3. CASE n # Name(c)
    <3>1. values[n] # i
      BY <1>0, <2>3 DEF NoAlias, Bound
    <3>2. heap'[values[n]] = heap[values[n]]
      BY <1>2, <2>1, <3>1
    <3>3. sum'[n] = sum[n]
      BY <1>0, <2>3 DEF UpdateApply, TypeOK
    <3> QED
      BY <3>2, <3>3 DEF LossOnlyByRacingCreates
  <2> QED
    BY <2>2, <2>3
<1> QED
  BY <1>5, <1>6, <1>7, <1>8, <1>9

(* A new metric is allocated where no entry of the map points. *)
LEMMA InsertBeginMemInv ==
  ASSUME MemInv, NEW c \in Callers, InsertBegin(c)
  PROVE  MemInv'
<1> USE DEF MemInv
<1>0. pc[c] = "insert" /\ Name(c) \in Names /\ Given(c) \in Metric
  BY ItemType, ValueKinds DEF InsertBegin
<1>1. /\ heap' = Append(heap, Given(c))
      /\ heap' \in Seq(Metric)
      /\ Len(heap') = Len(heap) + 1 /\ Len(heap) \in Nat
      /\ heap'[Len(heap) + 1] = Given(c)
      /\ \A i \in 1 .. Len(heap) : heap'[i] = heap[i]
  BY <1>0 DEF InsertBegin, TypeOK
<1>2. \A n \in Names : values[n] \in 0 .. Len(heap)
  BY DEF TypeOK
<1>3. \A n \in Names : Bound(n) => heap'[values[n]] = heap[values[n]]
  BY <1>1, <1>2 DEF Bound
<1>4. TypeOK'
  <2>1. values' \in [Names -> 0 .. Len(heap')]
    BY <1>1, <1>2 DEF InsertBegin, TypeOK
  <2>2. ptr' \in [Callers -> 0 .. Len(heap')]
    BY <1>1 DEF InsertBegin, TypeOK
  <2> QED
    BY <1>0, <1>1, <2>1, <2>2 DEF InsertBegin, TypeOK, Phases, GoTo, histVars
<1>5. UpdateFindsKey' /\ StoredIsBound' /\ CreatesOnce' /\ NoAlias'
  BY <1>0 DEF InsertBegin, UpdateFindsKey, StoredIsBound, CreatesOnce, NoAlias,
         TypeOK, GoTo, histVars, Bound, Name, Item
<1>6. WriterIsAlone'
  <2>1. \A d \in Callers : pc'[d] = "inserting" => d = c
    BY UnlockedMeansNoWriter DEF InsertBegin, GoTo, TypeOK
  <2>2. ptr'[c] = Len(heap) + 1 /\ mu' = c /\ Given(c)' = Given(c)
    BY DEF InsertBegin, TypeOK, Given, Item
  <2>3. Len(heap) + 1 \in DOMAIN heap'
    BY <1>1
  <2>4. \A n \in Names : values'[n] # Len(heap) + 1
    BY <1>1, <1>2 DEF InsertBegin
  <2> QED
    BY <1>0, <1>1, <2>1, <2>2, <2>3, <2>4 DEF WriterIsAlone
<1>7. ReplyReadsTheStoredMetric'
  BY <1>0 DEF InsertBegin, ReplyReadsTheStoredMetric, Raced, TypeOK, GoTo,
         histVars, Name, Item
<1>8. CreatedIsBound'
  BY DEF InsertBegin, CreatedIsBound, histVars, Bound
<1>9. LossOnlyByRacingCreates'
  BY <1>3 DEF InsertBegin, LossOnlyByRacingCreates, Raced, histVars, Bound
<1> QED
  BY <1>4, <1>5, <1>6, <1>7, <1>8, <1>9

(* The first creation of a name starts its history; any later one is a race. *)
LEMMA InsertEndMemInv ==
  ASSUME MemInv, NEW c \in Callers, InsertEnd(c)
  PROVE  MemInv'
<1> USE DEF MemInv
<1>a. PICK n \in Names, v \in Value : n = Name(c) /\ v = Given(c)
  BY ItemType DEF InsertEnd
<1>0. pc[c] = "inserting" /\ n = Name(c) /\ n = Name(c)' /\ v = Given(c)
  BY <1>a DEF InsertEnd, Name, Item
<1>b. /\ values' = [values EXCEPT ![n] = ptr[c]]
      /\ creators' = [creators EXCEPT ![n] = @ \cup {c}]
      /\ sum' = IF v.type = "counter"
                THEN [sum EXCEPT ![n] = Wrap(@ + v.val)] ELSE sum
  BY <1>0 DEF InsertEnd
<1>1. /\ v \in Metric
      /\ ptr[c] \in DOMAIN heap /\ heap[ptr[c]] = v
      /\ \A m \in Names : values[m] # ptr[c]
      /\ \A d \in Callers : pc[d] = "inserting" => d = c
  BY <1>0 DEF WriterIsAlone
<1>2. ptr[c] \in 1 .. Len(heap)
  BY <1>1 DEF TypeOK
<1>3. c \notin creators[n]
  BY <1>0 DEF CreatesOnce
<1>4. Bound(n) => Raced(n)'
  <2>1. Bound(n) => \E d \in creators[n] : d # c
    BY <1>3 DEF CreatedIsBound
  <2>2. creators'[n] = creators[n] \cup {c}
    BY <1>b DEF TypeOK
  <2> QED
    BY <2>1, <2>2 DEF Raced
<1>5. v.type = "counter" => v.val \in Int64
  BY <1>1 DEF Metric, Counter, Gauge
<1>6. TypeOK'
  <2>1. sum' \in [Names -> Int64]
    <3>1. v.type = "counter" => sum[n] + v.val \in Int
      BY <1>5, HalfAssumption DEF TypeOK, Int64
    <3>2. v.type = "counter" => Wrap(sum[n] + v.val) \in Int64
      BY <3>1, WrapType
    <3> QED
      BY <1>b, <3>2 DEF TypeOK
  <2> QED
    BY <1>0, <1>2, <2>1 DEF InsertEnd, TypeOK, Phases, GoTo
<1>7. \A m \in Names : Bound(m) => Bound(m)'
  BY <1>0, <1>2 DEF InsertEnd, Bound, TypeOK
<1>8. Bound(n)' /\ values'[n] = ptr[c]
  BY <1>0, <1>2 DEF InsertEnd, Bound, TypeOK, Name, Item
<1>9. UpdateFindsKey' /\ StoredIsBound'
  BY <1>0, <1>7, <1>8, ItemType
     DEF InsertEnd, UpdateFindsKey, StoredIsBound, TypeOK, GoTo, Name, Item
<1>10. NoAlias'
  BY <1>0, <1>1, <1>2 DEF InsertEnd, NoAlias, Bound, TypeOK
<1>11. CreatesOnce' /\ WriterIsAlone'
  BY <1>0, <1>1 DEF InsertEnd, CreatesOnce, WriterIsAlone, TypeOK, GoTo, Name,
         Item
<1>12. CreatedIsBound'
  <2>1. CreatedIsBound!(n)'
    BY <1>b, <1>8 DEF TypeOK
  <2>2. ASSUME NEW m \in Names, m # n PROVE CreatedIsBound!(m)'
    BY <1>b, <2>2 DEF CreatedIsBound, Bound, TypeOK
  <2> QED
    BY <2>1, <2>2 DEF CreatedIsBound
<1>13. ReplyReadsTheStoredMetric'
  <2> SUFFICES ASSUME NEW d \in Callers, pc'[d] \in {"update", "stored"},
                      ~Raced(Name(d))'
               PROVE  ptr'[d] = values'[Name(d)']
    BY DEF ReplyReadsTheStoredMetric
  <2>1. Name(d)' = Name(d) /\ ptr'[d] = ptr[d]
    BY DEF InsertEnd, Name, Item
  <2>2. CASE d = c
    BY <1>0, <1>8, <2>1, <2>2
  <2>3. CASE d # c
    <3>1. pc[d] \in {"update", "stored"} /\ Name(d) \in Names
      BY <2>3, ItemType DEF InsertEnd, GoTo, TypeOK
    <3>2. Bound(Name(d))
      BY <3>1 DEF UpdateFindsKey, StoredIsBound
    <3>3. Name(d) # n
      BY <1>4, <2>1, <3>2
    <3>4. values'[Name(d)] = values[Name(d)] /\ ~Raced(Name(d))
      BY <1>0, <2>1, <3>1, <3>3 DEF InsertEnd, TypeOK, Raced
    <3> QED
      BY <2>1, <3>1, <3>4 DEF ReplyReadsTheStoredMetric
  <2> QED
    BY <2>2, <2>3
<1>14. LossOnlyByRacingCreates'
  <2> SUFFICES ASSUME NEW m \in Names, Bound(m)', ~Raced(m)',
                      heap'[values'[m]].type = "counter"
               PROVE  heap'[values'[m]].val = sum'[m]
    BY DEF LossOnlyByRacingCreates
  <2>1. CASE m = n
    <3>1. ~Bound(n)
      BY <1>4, <2>1
    <3>2. sum[n] = 0
      BY <1>0, <3>1 DEF CreatedIsBound
    <3>3. heap'[values'[m]] = v
      BY <1>1, <1>8, <2>1 DEF InsertEnd
    <3>4. sum'[n] = Wrap(0 + v.val)
      BY <1>0, <3>2, <3>3 DEF InsertEnd, TypeOK
    <3>5. 0 + v.val = v.val /\ Wrap(v.val) = v.val
      BY <1>5, <3>3, WrapIdentity, HalfAssumption DEF Int64
    <3> QED
      BY <2>1, <3>3, <3>4, <3>5
  <2>2. CASE m # n
    <3>1. values'[m] = values[m] /\ sum'[m] = sum[m] /\ creators'[m] = creators[m]
      BY <1>0, <2>2 DEF InsertEnd, TypeOK
    <3> QED
      BY <3>1 DEF InsertEnd, LossOnlyByRacingCreates, Bound, Raced
  <2> QED
    BY <2>1, <2>2
<1> QED
  BY <1>6, <1>9, <1>10, <1>11, <1>12, <1>13, <1>14

(* Who is inside a range, and whether the process lives, is nothing the     *)
(* invariant is about.                                                      *)
LEMMA RangingMemInv ==
  ASSUME MemInv, UNCHANGED <<values, heap, mu, pc, todo, ptr, sum, creators>>,
         up' \in BOOLEAN, ranging' \subseteq Readers
  PROVE  MemInv'
<1> USE DEF MemInv
<1>1. TypeOK'
  BY DEF TypeOK
<1>2. UpdateFindsKey' /\ StoredIsBound' /\ CreatesOnce' /\ NoAlias'
  BY DEF UpdateFindsKey, StoredIsBound, CreatesOnce, NoAlias, Bound, Name,
         Item
<1>3. WriterIsAlone' /\ ReplyReadsTheStoredMetric' /\ CreatedIsBound'
  BY DEF WriterIsAlone, ReplyReadsTheStoredMetric, CreatedIsBound, Raced,
         Bound, Name, Given, Item
<1>4. LossOnlyByRacingCreates'
  BY DEF LossOnlyByRacingCreates, Raced, Bound
<1> QED
  BY <1>1, <1>2, <1>3, <1>4

(* Readers and the end of the process. *)
LEMMA ReaderMemInv ==
  ASSUME MemInv, FatalMapRace \/ \E r \in Readers : StartRange(r) \/ EndRange(r)
  PROVE  MemInv'
<1>1. /\ UNCHANGED <<values, heap, mu, pc, todo, ptr, sum, creators>>
      /\ up' \in BOOLEAN
      /\ ranging' \subseteq Readers
  BY DEF FatalMapRace, StartRange, EndRange, memVars, callVars, histVars, MemInv, TypeOK
<1> QED
  BY <1>1, RangingMemInv

-----------------------------------------------------------------------------
(* Every step preserves the invariant. *)
LEMMA NextMemInv == MemInv /\ [Next]_vars => MemInv'
<1> SUFFICES ASSUME MemInv, [Next]_vars PROVE MemInv'
  OBVIOUS
<1>1. ASSUME NEW c \in Callers, NEW b \in Batches, Begin(c, b) PROVE MemInv'
  BY <1>1, BeginMemInv
<1>2. ASSUME NEW c \in Callers, Step(c) PROVE MemInv'
  BY <1>2, GetMemInv, UpdateApplyMemInv, UpdateFailMemInv, CreateNilMemInv,
     InsertBeginMemInv, InsertEndMemInv, NextItemMemInv, ReturnMemInv DEF Step
<1>3. ASSUME FatalMapRace \/ \E r \in Readers : StartRange(r) \/ EndRange(r)
      PROVE  MemInv'
  BY <1>3, ReaderMemInv
<1>4. CASE UNCHANGED vars
  BY <1>4 DEF vars, MemInv, TypeOK, UpdateFindsKey, NoAlias, Raced,
         LossOnlyByRacingCreates, ReplyReadsTheStoredMetric, WriterIsAlone,
         CreatedIsBound, CreatesOnce, StoredIsBound, Bound, Name, Given, Item
<1> QED
  BY <1>1, <1>2, <1>3, <1>4 DEF Next

(* The invariant holds in every reachable state: the protocol keeps every   *)
(* applied delta of a name whose creation was not raced, whatever the       *)
(* callers, their requests and the faults in them.                          *)
THEOREM MemInvariant == Spec => []MemInv
  BY InitMemInv, NextMemInv, PTL DEF Spec

(* The state always has the types MemStorage.tla gives it. *)
THEOREM TypeCorrect == Spec => []TypeOK
  BY MemInvariant, PTL DEF MemInv

(* Update never answers "key is not found in storage" to a caller of the *)
(* protocol.                                                             *)
THEOREM UpdateAlwaysFindsKey == Spec => []UpdateFindsKey
  BY MemInvariant, PTL DEF MemInv

(* No two names share a metric. *)
THEOREM NamesNeverAlias == Spec => []NoAlias
  BY MemInvariant, PTL DEF MemInv

(* A counter is the wrapped sum of the deltas applied to it, except where two *)
(* creations raced.                                                           *)
THEOREM OnlyRacingCreatesLose == Spec => []LossOnlyByRacingCreates
  BY MemInvariant, PTL DEF MemInv

(* UpdateJSON's unlocked read after the update is of the metric in the map, *)
(* except where two creations raced.                                        *)
THEOREM ReplyIsCurrent == Spec => []ReplyReadsTheStoredMetric
  BY MemInvariant, PTL DEF MemInv

-----------------------------------------------------------------------------
(* A settled name keeps its metric, and stays settled, in every step. *)
LEMMA StepKeepsSettled ==
  ASSUME MemInv, [Next]_vars, NEW n \in Names, Settled(n)
  PROVE  Settled(n)' /\ values'[n] = values[n]
<1> USE DEF MemInv
<1>1. Bound(n) /\ \A c \in Callers : pc[c] \in {"insert", "inserting"} => Name(c) # n
  BY DEF Settled
<1>2. ASSUME NEW c \in Callers, NEW b \in Batches, Begin(c, b)
      PROVE  Settled(n)' /\ values'[n] = values[n]
  BY <1>1, <1>2 DEF Begin, Settled, Bound, Name, Item, GoTo, TypeOK, memVars
<1>3. ASSUME NEW c \in Callers, Step(c)
      PROVE  Settled(n)' /\ values'[n] = values[n]
  <2>1. CASE Get(c)
    BY <1>1, <2>1 DEF Get, Settled, Bound, Name, Item, GoTo, TypeOK, memVars
  <2>2. CASE UpdateApply(c) \/ UpdateFail(c) \/ CreateNil(c) \/ InsertBegin(c)
    BY <1>1, <2>2 DEF UpdateApply, UpdateFail, CreateNil, InsertBegin, Settled,
           Bound, Name, Item, GoTo, TypeOK, memVars
  <2>3. CASE InsertEnd(c)
    <3>1. Name(c) # n /\ Name(c) \in Names
      BY <1>1, <2>3, ItemType DEF InsertEnd
    <3> QED
      BY <1>1, <2>3, <3>1 DEF InsertEnd, Settled, Bound, Name, Item, GoTo, TypeOK
  <2>4. CASE NextItem(c) \/ Return(c)
    BY <1>1, <2>4 DEF NextItem, Return, Settled, Bound, Name, Item, GoTo, TypeOK,
           memVars
  <2> QED
    BY <1>3, <2>1, <2>2, <2>3, <2>4 DEF Step
<1>4. CASE \/ FatalMapRace
           \/ \E r \in Readers : StartRange(r) \/ EndRange(r)
           \/ UNCHANGED vars
  BY <1>1, <1>4 DEF FatalMapRace, StartRange, EndRange, vars, memVars, callVars,
         Settled, Bound, Name, Item
<1> QED
  BY <1>2, <1>3, <1>4 DEF Next

(* Once its racing creations are over a name is never rebound: from there on *)
(* the storage loses no delta of it.                                         *)
THEOREM SettledNamesStaySettled == Spec => SettledIsForever
<1>1. MemInv /\ [Next]_vars
        => [\A n \in Names : Settled(n) => Settled(n)' /\ values'[n] = values[n]]_vars
  BY StepKeepsSettled
<1> QED
  BY <1>1, MemInvariant, PTL DEF Spec, SettledIsForever

(* A mutex that a failed update left locked stays locked, and what the map *)
(* holds by then is never changed again.                                   *)
THEOREM WedgedStorageIsFrozen == Spec => WedgedIsReadOnly
<1>1. ASSUME MemInv, [Next]_vars, Wedged
      PROVE  Wedged' /\ UNCHANGED <<values, heap, up>>
  <2>1. CASE \E c \in Callers : (\E b \in Batches : Begin(c, b)) \/ Step(c)
    BY <1>1, <2>1 DEF MemInv, TypeOK, Wedged, Unlocked, GoTo, Begin, Step, Get,
           UpdateApply, UpdateFail, CreateNil, InsertBegin, InsertEnd, NextItem,
           Return, memVars
  <2>2. CASE \/ \E r \in Readers : StartRange(r) \/ EndRange(r)
             \/ FatalMapRace
             \/ UNCHANGED vars
    BY <1>1, <2>2 DEF Wedged, Unlocked, StartRange, EndRange, FatalMapRace, vars,
           memVars, callVars
  <2> QED
    BY <1>1, <2>1, <2>2 DEF Next
<1>2. MemInv /\ [Next]_vars
        => [Wedged => Wedged' /\ UNCHANGED <<values, heap, up>>]_vars
  BY <1>1
<1> QED
  BY <1>2, MemInvariant, PTL DEF Spec, WedgedIsReadOnly

-----------------------------------------------------------------------------
(* A step that keeps every bound metric where it is shows nothing. *)
LEMMA ShownUnchanged ==
  ASSUME UNCHANGED <<values, creators>>,
         \A n \in Names : Bound(n) => heap'[values[n]] = heap[values[n]]
  PROVE  UNCHANGED MM!mapVars
  BY DEF MM!mapVars, Shown, Bound

(* Update is MetricMap's Bump: it reads, adds and writes inside one mutex *)
(* section, and by NoAlias the change shows under one name.               *)
LEMMA UpdateApplyIsBump ==
  ASSUME MemInv, NEW c \in Callers, UpdateApply(c)
  PROVE  MM!Next
<1> USE DEF MemInv
<1>0. PICK n \in Names, v \in Value : n = Name(c) /\ v = Given(c) /\ pc[c] = "update"
  BY ItemType DEF UpdateApply
<1>1. Bound(n) /\ heap[values[n]] \in Metric /\ values[n] \in DOMAIN heap
  BY <1>0, BoundMetric DEF UpdateApply
<1>2. heap[values[n]].type = v.type /\ v \in Metric
  BY <1>0, <1>1, UpdatedFacts DEF UpdateApply
<1>3. heap' = [heap EXCEPT ![values[n]] = Updated(heap[values[n]], v)]
  BY <1>0 DEF UpdateApply
<1>4. UNCHANGED <<values, creators>>
  BY DEF UpdateApply
<1>5. ASSUME NEW m \in Names
      PROVE  Shown'[m] = IF m = n THEN Updated(Shown[n], v) ELSE Shown[m]
  <2>1. CASE m = n
    BY <1>1, <1>3, <1>4, <2>1 DEF Shown, Bound
  <2>2. CASE m # n
    <3>1. Bound(m) => values[m] # values[n]
      BY <2>2 DEF NoAlias
    <3>2. Bound(m) => values[m] \in DOMAIN heap
      BY BoundMetric
    <3> QED
      BY <1>3, <1>4, <2>2, <3>1, <3>2 DEF Shown, Bound
  <2> QED
    BY <2>1, <2>2
<1>6. Shown' = [Shown EXCEPT ![n] = Updated(Shown[n], v)]
  BY <1>5 DEF Shown
<1>7. Shown[n].type = v.type
  BY <1>1, <1>2 DEF Shown
<1>8. MM!Updated(Shown[n], v) = Updated(Shown[n], v)
  BY DEF MM!Updated, MM!Wrap, Updated, Wrap
<1>9. MM!Bump(n, v)
  BY <1>4, <1>6, <1>7, <1>8 DEF MM!Bump
<1>10. v \in MM!Metric
  BY <1>2 DEF MM!Metric, MM!Counter, MM!Gauge, MM!Int64, Metric, Counter, Gauge,
         Int64
<1> QED
  BY <1>9, <1>10 DEF MM!Next

(* The map write of Insert is MetricMap's Create, by a caller that has not *)
(* created the name before.                                                *)
LEMMA InsertEndIsCreate ==
  ASSUME MemInv, NEW c \in Callers, InsertEnd(c)
  PROVE  MM!Next
<1> USE DEF MemInv
<1>0. PICK n \in Names, v \in Value :
        n = Name(c) /\ v = Given(c) /\ pc[c] = "inserting"
  BY ItemType DEF InsertEnd
<1>1. v \in Metric /\ ptr[c] \in DOMAIN heap /\ heap[ptr[c]] = v
  BY <1>0 DEF WriterIsAlone
<1>2. ptr[c] # 0
  BY <1>1 DEF TypeOK
<1>3. c \notin creators[n]
  BY <1>0 DEF CreatesOnce
<1>4. /\ values' = [values EXCEPT ![n] = ptr[c]]
      /\ creators' = [creators EXCEPT ![n] = @ \cup {c}]
      /\ heap' = heap
  BY <1>0 DEF InsertEnd
<1>5. Shown' = [Shown EXCEPT ![n] = v]
  BY <1>1, <1>2, <1>4 DEF Shown, Bound, TypeOK
<1>6. MM!Create(c, n, v)
  BY <1>3, <1>4, <1>5 DEF MM!Create
<1>7. v \in MM!Metric
  BY <1>1 DEF MM!Metric, MM!Counter, MM!Gauge, MM!Int64, Metric, Counter, Gauge,
         Int64
<1> QED
  BY <1>6, <1>7 DEF MM!Next

(* Allocating the new metric shows nothing yet. *)
LEMMA InsertBeginShowsNothing ==
  ASSUME MemInv, NEW c \in Callers, InsertBegin(c)
  PROVE  UNCHANGED MM!mapVars
<1> USE DEF MemInv
<1>1. Given(c) \in Metric
  BY ItemType, ValueKinds DEF InsertBegin
<1>2. \A i \in 1 .. Len(heap) : heap'[i] = heap[i]
  BY <1>1 DEF InsertBegin, TypeOK
<1>3. \A n \in Names : Bound(n) => values[n] \in 1 .. Len(heap)
  BY BoundMetric DEF TypeOK
<1> QED
  BY <1>2, <1>3, ShownUnchanged DEF InsertBegin, histVars

(* Racing Gets, Updates and Inserts, on pointers and behind a mutex that     *)
(* covers none of the pairs, still look like the atomic steps of MetricMap.  *)
THEOREM MemStorageImplementsMetricMap == Spec => ImplementsMetricMap
<1>1. Init => MM!Init
  <2> SUFFICES ASSUME NEW lines \in Seq(Line), Loaded(lines) PROVE MM!Init
    BY SnapshotsAssumption DEF Init
  <2>1. MemInv
    BY LoadedMemInv
  <2>2. \A n \in Names : Bound(n) => heap[values[n]] \in Metric
    BY <2>1, BoundMetric DEF MemInv
  <2>3. \A n \in Names : Shown[n] = Absent <=> ~Bound(n)
    BY <2>2, ValueKinds DEF Shown
  <2>4. MM!Metric = Metric /\ MM!Absent = Absent
    BY DEF MM!Metric, MM!Counter, MM!Gauge, MM!Int64, Metric, Counter, Gauge,
           Int64, MM!Absent, Absent
  <2>5. Shown \in [Names -> Metric \cup {Absent}]
    BY <2>2 DEF Shown
  <2> QED
    BY <2>3, <2>4, <2>5 DEF MM!Init, Loaded
<1>2. ASSUME MemInv, [Next]_vars PROVE [MM!Next]_(MM!mapVars)
  <2>1. ASSUME NEW c \in Callers, UpdateApply(c) PROVE MM!Next
    BY <1>2, <2>1, UpdateApplyIsBump
  <2>2. ASSUME NEW c \in Callers, InsertEnd(c) PROVE MM!Next
    BY <1>2, <2>2, InsertEndIsCreate
  <2>3. ASSUME NEW c \in Callers, InsertBegin(c) PROVE UNCHANGED MM!mapVars
    BY <1>2, <2>3, InsertBeginShowsNothing
  <2>4. ASSUME NEW c \in Callers,
               \/ \E b \in Batches : Begin(c, b)
               \/ Get(c) \/ UpdateFail(c) \/ CreateNil(c)
               \/ NextItem(c) \/ Return(c)
        PROVE  UNCHANGED MM!mapVars
    BY <2>4, ShownUnchanged DEF Begin, Get, UpdateFail, CreateNil, NextItem,
           Return, memVars, histVars
  <2>5. ASSUME \/ FatalMapRace
               \/ \E r \in Readers : StartRange(r) \/ EndRange(r)
               \/ UNCHANGED vars
        PROVE  UNCHANGED MM!mapVars
    BY <2>5, ShownUnchanged DEF FatalMapRace, StartRange, EndRange, memVars,
           histVars, vars
  <2> QED
    BY <1>2, <2>1, <2>2, <2>3, <2>4, <2>5 DEF Next, Step
<1> QED
  BY <1>1, <1>2, MemInvariant, PTL DEF Spec, ImplementsMetricMap, MM!Spec
=============================================================================
