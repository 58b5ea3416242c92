---------------------------- MODULE Agent_proofs ----------------------------
(***************************************************************************)
(* No goroutine of the agent ever sends on a closed channel, and what they *)
(* hand to each other has its types, for any collectors, names, capacity,  *)
(* rate limit, number of polls and moment of the signal.                   *)
(***************************************************************************)
EXTENDS Agent, MetricValues_proofs

(* What Reading makes, whatever the floats are. *)
Item == [id : Names, value : [type : {"counter", "gauge"}, val : Nat]]

Source == [polls : Nat, left : Seq(Names), ch : Seq(Item), closed : BOOLEAN,
           hand : Item \cup {NoItem}, done : BOOLEAN]

(* A collector closes its channel behind its last name, a forwarder is done *)
(* behind the last item of that channel, chUpdate is closed behind the last *)
(* forwarder: each of them has nothing left to send by then.                *)
Emptied(s) ==
    /\ s.closed => s.left = <<>>
    /\ s.done => s.closed /\ s.ch = <<>> /\ s.hand = NoItem

CloseInv ==
    /\ src \in [Collectors -> Source]
    /\ \A k \in Collectors : Emptied(src[k])
    /\ updClosed => \A k \in Collectors : src[k].done
    /\ NeverSendsOnClosed

LEMMA InitCloseInv == Init => CloseInv
<1> SUFFICES ASSUME Init PROVE CloseInv
  OBVIOUS
<1>1. <<>> \in Seq(Names) /\ <<>> \in Seq(Item)
  OBVIOUS
<1> QED
  BY <1>1 DEF Init, CloseInv, Emptied, Source, NeverSendsOnClosed

(* A step that changes the source of one collector and neither closes       *)
(* chUpdate nor the process needs to say only what it makes of that source. *)
LEMMA OneSource ==
  ASSUME CloseInv, NEW k \in Collectors, NEW s \in Source,
         src' = [src EXCEPT ![k] = s], Emptied(s), src[k].done => s.done,
         UNCHANGED <<updClosed, proc>>
  PROVE  CloseInv'
  BY DEF CloseInv, Emptied, NeverSendsOnClosed

(* Most of what the collectors and the forwarders do. *)
LEMMA SourceSteps ==
  ASSUME CloseInv, NEW k \in Collectors,
         Tick(k) \/ Emit(k) \/ Stop(k) \/ Take(k) \/ Finish(k)
  PROVE  CloseInv'
<1> USE DEF Source
<1>1. src[k] \in Source /\ Emptied(src[k])
  BY DEF CloseInv
<1>2. CASE Tick(k)
  <2> DEFINE s == [src[k] EXCEPT !.polls = @ + 1, !.left = Poll[k]]
  <2>1. s \in Source
    <3>1. Poll[k] \in Seq(Names) /\ src[k].polls + 1 \in Nat
      BY <1>1, PollAssumption
    <3> QED
      BY <1>1, <3>1
  <2>2. src' = [src EXCEPT ![k] = s] /\ UNCHANGED <<updClosed, proc>>
    BY <1>2 DEF Tick
  <2>3. Emptied(s) /\ (src[k].done => s.done)
    BY <1>1, <1>2 DEF Emptied, Tick, Selecting
  <2> QED
    BY <2>1, <2>2, <2>3, OneSource
<1>3. CASE Emit(k)
  <2> DEFINE s == [src[k] EXCEPT !.left = Tail(@),
                        !.ch = Append(@, Reading(Head(src[k].left), src[k].polls))]
  <2>1. Reading(Head(src[k].left), src[k].polls) \in Item
    BY <1>1, <1>3 DEF Emit, Reading, Item
  <2>2. s \in Source
    <3>1. src[k].left \in Seq(Names) /\ src[k].left # <<>> /\ src[k].ch \in Seq(Item)
      BY <1>1, <1>3 DEF Emit
    <3>2. Tail(src[k].left) \in Seq(Names)
      BY <3>1
    <3>3. Append(src[k].ch, Reading(Head(src[k].left), src[k].polls)) \in Seq(Item)
      BY <2>1, <3>1
    <3> QED
      BY <1>1, <3>2, <3>3
  <2>3. src' = [src EXCEPT ![k] = s] /\ UNCHANGED <<updClosed, proc>>
    BY <1>3 DEF Emit
  <2>4. Emptied(s) /\ (src[k].done => s.done)
    BY <1>1, <1>3 DEF Emptied, Emit
  <2> QED
    BY <2>2, <2>3, <2>4, OneSource
<1>4. CASE Stop(k)
  <2> DEFINE s == [src[k] EXCEPT !.closed = TRUE]
  <2>1. s \in Source /\ Emptied(s) /\ (src[k].done => s.done)
    BY <1>1, <1>4 DEF Emptied, Stop, Selecting
  <2>2. src' = [src EXCEPT ![k] = s] /\ UNCHANGED <<updClosed, proc>>
    BY <1>4 DEF Stop
  <2> QED
    BY <2>1, <2>2, OneSource
<1>5. CASE Take(k)
  <2> DEFINE s == [src[k] EXCEPT !.hand = Head(src[k].ch), !.ch = Tail(@)]
  <2>1. s \in Source
    <3>1. src[k].ch \in Seq(Item) /\ src[k].ch # <<>>
      BY <1>1, <1>5 DEF Take
    <3>2. Head(src[k].ch) \in Item /\ Tail(src[k].ch) \in Seq(Item)
      BY <3>1
    <3> QED
      BY <1>1, <3>2
  <2>2. src' = [src EXCEPT ![k] = s] /\ UNCHANGED <<updClosed, proc>>
    BY <1>5 DEF Take
  <2>3. Emptied(s) /\ (src[k].done => s.done)
    BY <1>1, <1>5 DEF Emptied, Take
  <2> QED
    BY <2>1, <2>2, <2>3, OneSource
<1>6. CASE Finish(k)
  <2> DEFINE s == [src[k] EXCEPT !.done = TRUE]
  <2>1. s \in Source /\ Emptied(s) /\ (src[k].done => s.done)
    BY <1>1, <1>6 DEF Emptied, Finish
  <2>2. src' = [src EXCEPT ![k] = s] /\ UNCHANGED <<updClosed, proc>>
    BY <1>6 DEF Finish
  <2> QED
    BY <2>1, <2>2, OneSource
<1> QED
  BY <1>2, <1>3, <1>4, <1>5, <1>6

(* The send itself: a forwarder with something in its hand is not done, so *)
(* chUpdate is open.                                                       *)
LEMMA PassStep ==
  ASSUME CloseInv, NEW k \in Collectors, Pass(k)
  PROVE  CloseInv'
<1> DEFINE s == [src[k] EXCEPT !.hand = NoItem]
<1>1. src[k] \in Source /\ Emptied(src[k])
  BY DEF CloseInv
<1>2. ~updClosed
  BY <1>1 DEF CloseInv, Emptied, Pass
<1>3. src' = [src EXCEPT ![k] = s] /\ UNCHANGED <<updClosed, proc>>
  BY <1>2 DEF Pass
<1>4. s \in Source /\ Emptied(s) /\ (src[k].done => s.done)
  BY <1>1 DEF Emptied, Source
<1> QED
  BY <1>3, <1>4, OneSource

LEMMA NextCloseInv == CloseInv /\ [Next]_vars => CloseInv'
<1> SUFFICES ASSUME CloseInv, [Next]_vars PROVE CloseInv'
  OBVIOUS
<1>1. CASE UNCHANGED vars
  BY <1>1 DEF CloseInv, NeverSendsOnClosed, vars
<1>2. ASSUME NEW k \in Collectors, Tick(k) \/ ReadFails(k) \/ Collector(k) \/ Forwarder(k)
      PROVE  CloseInv'
  <2>1. CASE ReadFails(k)
    BY <2>1 DEF ReadFails, CloseInv, NeverSendsOnClosed
  <2>2. CASE Pass(k)
    BY <2>2, PassStep
  <2>3. CASE Tick(k) \/ Emit(k) \/ Stop(k) \/ Take(k) \/ Finish(k)
    BY <2>3, SourceSteps
  <2> QED
    BY <1>2, <2>1, <2>2, <2>3 DEF Collector, Forwarder
<1>3. CASE CloseUpdate
  BY <1>3 DEF CloseUpdate, CloseInv, NeverSendsOnClosed
<1>4. CASE Signal \/ Updater \/ FatalMapRace
  BY <1>4 DEF Signal, Updater, Receive, Apply, FatalMapRace, CloseInv, NeverSendsOnClosed
<1>5. CASE Report \/ BatchEnd \/ Main
  BY <1>5 DEF Report, BatchEnd, Main, Visit, Push, RangeEnd, Leave, CloseInv,
              NeverSendsOnClosed
<1>6. ASSUME NEW w \in Workers, Worker(w) \/ Sent(w) PROVE CloseInv'
  BY <1>6 DEF Worker, Fetch, SendPanics, Sent, CloseInv, NeverSendsOnClosed
<1> QED
  BY <1>1, <1>2, <1>3, <1>4, <1>5, <1>6 DEF Next

(* The close of chUpdate in CollectMetrics comes behind every send on it,  *)
(* wherever the signal finds the collectors.                               *)
THEOREM NoSendOnClosed == Spec => []NeverSendsOnClosed
<1>1. CloseInv => NeverSendsOnClosed
  BY DEF CloseInv
<1> QED
  BY <1>1, InitCloseInv, NextCloseInv, PTL DEF Spec

-----------------------------------------------------------------------------
(* The type of the metric a name stands for. *)
TypeOf(n) == IF n \in Counters THEN "counter" ELSE "gauge"

(* What travels from the collectors to the storage: Reading's items. *)
Polled == {m \in Line : m.value.type = TypeOf(m.id)}

(* One collector; a name is left only in a poll, so its number is positive. *)
SrcTypes(s, k) ==
    /\ s.polls \in 0 .. MaxPolls[k]
    /\ s.left \in Seq(Names) /\ (s.left # <<>> => s.polls > 0)
    /\ s.ch \in Seq(Polled) /\ Len(s.ch) <= Cap
    /\ s.hand \in Polled \cup {NoItem}

(* A stored metric has its name's type, so that Updated never mixes types. *)
StoreTypes ==
    \A n \in Names : store[n] = Absent \/ (store[n] \in Metric /\ store[n].type = TypeOf(n))

(* The half of the state from the collectors to the storage. *)
PipeTypes ==
    /\ \A k \in Collectors : SrcTypes(src[k], k)
    /\ upd \in Seq(Polled) /\ Len(upd) <= Cap
    /\ hand \in Polled \cup {NoItem}
    /\ store \in [Names -> Metric \cup {Absent}] /\ StoreTypes

(* The half from the storage to the workers; what is pushed is an item. *)
SendTypes ==
    /\ proc \in {"running", "exited", "killed", "panicked"}
    /\ cancelled \in BOOLEAN /\ updClosed \in BOOLEAN
    /\ rate \in Rates /\ grpc \in BOOLEAN
    /\ rpc \in {"select", "range", "push", "sending"}
    /\ must \subseteq Names /\ seen \subseteq Names
    /\ item \in Line \cup {NoItem} /\ (rpc = "push" => item \in Line)
    /\ out \in Seq(Line) /\ Len(out) <= Cap
    /\ busy \in [Workers -> Line \cup {NoItem}]

(* The invariant behind TypeOK. *)
AgentTypes == CloseInv /\ PipeTypes /\ SendTypes

(* A reading is a metric: poll numbers are floats, and 1 is an int64. *)
LEMMA ReadingType ==
  ASSUME NEW k \in Collectors, NEW n \in Names, NEW p \in 1 .. MaxPolls[k]
  PROVE  Reading(n, p) \in Polled
<1>1. p \in Floats /\ 1 \in Int64
  BY MaxPollsAssumption, HalfAssumption DEF Int64
<1> QED
  BY <1>1 DEF Reading, Polled, Line, Metric, Counter, Gauge, TypeOf

(* A step of one source needs to say only what it makes of it and of upd. *)
LEMMA SourceTypes ==
  ASSUME PipeTypes, CloseInv, NEW k \in Collectors, NEW s, SrcTypes(s, k),
         src' = [src EXCEPT ![k] = s], UNCHANGED <<hand, store>>,
         upd' \in Seq(Polled), Len(upd') <= Cap
  PROVE  PipeTypes'
  BY DEF PipeTypes, CloseInv, SrcTypes, StoreTypes

(* The collector's steps keep the types. *)
LEMMA CollectorTypes ==
  ASSUME PipeTypes, CloseInv, NEW k \in Collectors, Tick(k) \/ Emit(k) \/ Stop(k)
  PROVE  PipeTypes'
<1>1. src[k] \in Source /\ SrcTypes(src[k], k) /\ upd \in Seq(Polled) /\ Len(upd) <= Cap
  BY DEF PipeTypes, CloseInv
<1>2. CASE Tick(k)
  <2> DEFINE s == [src[k] EXCEPT !.polls = @ + 1, !.left = Poll[k]]
  <2>1. /\ src' = [src EXCEPT ![k] = s] /\ UNCHANGED <<hand, store, upd>>
        /\ src[k].polls < MaxPolls[k]
    BY <1>2 DEF Tick
  <2>2. s.polls = src[k].polls + 1 /\ s.left = Poll[k] /\ s.ch = src[k].ch
        /\ s.hand = src[k].hand
    BY <1>1 DEF Source
  <2>3. Poll[k] \in Seq(Names) /\ src[k].polls + 1 \in 1 .. MaxPolls[k]
    BY <1>1, <2>1, PollAssumption, MaxPollsAssumption DEF SrcTypes
  <2> HIDE DEF s
  <2>4. SrcTypes(s, k)
    BY <1>1, <2>2, <2>3 DEF SrcTypes
  <2> QED
    BY <1>1, <2>1, <2>4, SourceTypes
<1>3. CASE Emit(k)
  <2> DEFINE r == Reading(Head(src[k].left), src[k].polls)
             s == [src[k] EXCEPT !.left = Tail(@), !.ch = Append(@, r)]
  <2>1. /\ src' = [src EXCEPT ![k] = s] /\ UNCHANGED <<hand, store, upd>>
        /\ src[k].left # <<>> /\ Len(src[k].ch) < Cap
    BY <1>3 DEF Emit
  <2>2. s.polls = src[k].polls /\ s.left = Tail(src[k].left) /\ s.ch = Append(src[k].ch, r)
        /\ s.hand = src[k].hand
    BY <1>1 DEF Source
  <2>3. Head(src[k].left) \in Names /\ Tail(src[k].left) \in Seq(Names)
    BY <1>1, <2>1 DEF SrcTypes
  <2>4. src[k].polls \in 1 .. MaxPolls[k]
    BY <1>1, <2>1, MaxPollsAssumption DEF SrcTypes
  <2>5. r \in Polled
    BY <2>3, <2>4, ReadingType
  <2> HIDE DEF r
  <2>6. Append(src[k].ch, r) \in Seq(Polled) /\ Len(Append(src[k].ch, r)) <= Cap
    BY <1>1, <2>1, <2>5, CapAssumption DEF SrcTypes
  <2> HIDE DEF s
  <2>7. SrcTypes(s, k)
    BY <1>1, <2>2, <2>3, <2>4, <2>6 DEF SrcTypes
  <2> QED
    BY <1>1, <2>1, <2>7, SourceTypes
<1>4. CASE Stop(k)
  <2> DEFINE s == [src[k] EXCEPT !.closed = TRUE]
  <2>1. src' = [src EXCEPT ![k] = s] /\ UNCHANGED <<hand, store, upd>>
    BY <1>4 DEF Stop
  <2>2. SrcTypes(s, k)
    BY <1>1 DEF SrcTypes, Source
  <2> HIDE DEF s
  <2> QED
    BY <1>1, <2>1, <2>2, SourceTypes
<1> QED
  BY <1>2, <1>3, <1>4

(* So do the forwarder's; its send never meets a closed channel. *)
LEMMA ForwarderTypes ==
  ASSUME PipeTypes, CloseInv, NEW k \in Collectors, Take(k) \/ Pass(k) \/ Finish(k)
  PROVE  PipeTypes'
<1>1. src[k] \in Source /\ SrcTypes(src[k], k) /\ upd \in Seq(Polled) /\ Len(upd) <= Cap
  BY DEF PipeTypes, CloseInv
<1>2. CASE Take(k)
  <2> DEFINE s == [src[k] EXCEPT !.hand = Head(src[k].ch), !.ch = Tail(@)]
  <2>1. src' = [src EXCEPT ![k] = s] /\ UNCHANGED <<hand, store, upd>> /\ src[k].ch # <<>>
    BY <1>2 DEF Take
  <2>2. s.polls = src[k].polls /\ s.left = src[k].left /\ s.ch = Tail(src[k].ch)
        /\ s.hand = Head(src[k].ch)
    BY <1>1 DEF Source
  <2>3. Head(src[k].ch) \in Polled /\ Tail(src[k].ch) \in Seq(Polled)
        /\ Len(Tail(src[k].ch)) <= Cap
    BY <1>1, <2>1, CapAssumption DEF SrcTypes
  <2> HIDE DEF s
  <2>4. SrcTypes(s, k)
    BY <1>1, <2>2, <2>3 DEF SrcTypes
  <2> QED
    BY <1>1, <2>1, <2>4, SourceTypes
<1>3. CASE Pass(k)
  <2> DEFINE s == [src[k] EXCEPT !.hand = NoItem]
  <2>1. ~updClosed
    BY <1>1, <1>3 DEF CloseInv, Emptied, Pass
  <2>2. /\ src' = [src EXCEPT ![k] = s] /\ UNCHANGED <<hand, store>>
        /\ upd' = Append(upd, src[k].hand) /\ Len(upd) < Cap /\ src[k].hand # NoItem
    BY <1>3, <2>1 DEF Pass
  <2>3. src[k].hand \in Polled
    BY <1>1, <2>2 DEF SrcTypes
  <2>4. Append(upd, src[k].hand) \in Seq(Polled) /\ Len(Append(upd, src[k].hand)) <= Cap
    BY <1>1, <2>2, <2>3, CapAssumption
  <2>5. SrcTypes(s, k)
    BY <1>1 DEF SrcTypes, Source
  <2> HIDE DEF s
  <2> QED
    BY <2>2, <2>4, <2>5, SourceTypes
<1>4. CASE Finish(k)
  <2> DEFINE s == [src[k] EXCEPT !.done = TRUE]
  <2>1. src' = [src EXCEPT ![k] = s] /\ UNCHANGED <<hand, store, upd>>
    BY <1>4 DEF Finish
  <2>2. SrcTypes(s, k)
    BY <1>1 DEF SrcTypes, Source
  <2> HIDE DEF s
  <2> QED
    BY <1>1, <2>1, <2>2, SourceTypes
<1> QED
  BY <1>2, <1>3, <1>4

(* The updater stores metrics of their names' types: UpdatedFacts. *)
LEMMA UpdaterTypes ==
  ASSUME PipeTypes, Updater
  PROVE  PipeTypes'
<1>1. CASE Receive
  <2>1. Head(upd) \in Polled /\ Tail(upd) \in Seq(Polled) /\ Len(Tail(upd)) <= Cap
    BY <1>1, CapAssumption DEF Receive, PipeTypes
  <2> QED
    BY <1>1, <2>1 DEF Receive, PipeTypes, StoreTypes
<1>2. CASE Apply
  <2> DEFINE n == hand.id
             v == hand.value
             w == IF store[n] = Absent THEN v ELSE Updated(store[n], v)
  <2>1. hand \in Polled /\ n \in Names /\ v \in Metric /\ v.type = TypeOf(n)
    BY <1>2 DEF Apply, PipeTypes, Polled, Line
  <2>2. w \in Metric /\ w.type = TypeOf(n)
    <3>1. ASSUME store[n] # Absent PROVE w \in Metric /\ w.type = TypeOf(n)
      <4>1. store[n] \in Metric /\ store[n].type = v.type /\ v \in Value
        BY <2>1, <3>1 DEF PipeTypes, StoreTypes, Value
      <4> QED
        BY <2>1, <3>1, <4>1, UpdatedFacts
    <3> QED
      BY <2>1, <3>1
  <2>3. store' = [store EXCEPT ![n] = w] /\ hand' = NoItem /\ UNCHANGED <<src, upd>>
    BY <1>2 DEF Apply
  <2> HIDE DEF n, v, w
  <2> QED
    BY <2>1, <2>2, <2>3 DEF PipeTypes, StoreTypes
<1> QED
  BY <1>1, <1>2 DEF Updater

(* The main goroutine visits stored names only, whose values are metrics. *)
LEMMA SenderTypes ==
  ASSUME PipeTypes, SendTypes, Report \/ BatchEnd \/ Main
  PROVE  SendTypes' /\ PipeTypes'
<1>1. UNCHANGED <<src, upd, hand, store>>
  BY DEF Report, BatchEnd, Main, Visit, Push, RangeEnd, Leave
<1>2. PipeTypes'
  BY <1>1 DEF PipeTypes, StoreTypes
<1>3. CASE Report \/ BatchEnd \/ RangeEnd \/ Leave
  BY <1>2, <1>3 DEF Report, BatchEnd, RangeEnd, Leave, SendTypes, Stored, repVars
<1>4. ASSUME NEW n \in Names, Visit(n) PROVE SendTypes'
  <2>1. [id |-> n, value |-> store[n]] \in Line
    BY <1>4 DEF Visit, Stored, PipeTypes, Line
  <2> QED
    BY <1>4, <2>1 DEF Visit, SendTypes, repVars
<1>5. CASE Push
  <2>1. Append(out, item) \in Seq(Line) /\ Len(Append(out, item)) <= Cap
    BY <1>5, CapAssumption DEF Push, SendTypes
  <2> QED
    BY <1>2, <1>5, <2>1 DEF Push, SendTypes
<1> QED
  BY <1>2, <1>3, <1>4, <1>5 DEF Main

(* The workers take whole items from chSend. *)
LEMMA WorkerTypes ==
  ASSUME PipeTypes, SendTypes, NEW w \in Workers, Worker(w) \/ Sent(w)
  PROVE  SendTypes' /\ PipeTypes'
<1>1. UNCHANGED <<src, upd, hand, store>>
  BY DEF Worker, Fetch, SendPanics, Sent
<1>2. PipeTypes'
  BY <1>1 DEF PipeTypes, StoreTypes
<1>3. CASE Fetch(w)
  <2>1. Head(out) \in Line /\ Tail(out) \in Seq(Line) /\ Len(Tail(out)) <= Cap
    BY <1>3, CapAssumption DEF Fetch, SendTypes
  <2> QED
    BY <1>2, <1>3, <2>1 DEF Fetch, SendTypes, repVars
<1>4. CASE Sent(w)
  BY <1>2, <1>4 DEF Sent, SendTypes, repVars
<1>5. CASE SendPanics(w)
  BY <1>2, <1>5 DEF SendPanics, SendTypes, repVars
<1> QED
  BY <1>3, <1>4, <1>5 DEF Worker

(* The agent starts with its types: empty channels and empty hands. *)
LEMMA InitAgentTypes == Init => AgentTypes
<1> SUFFICES ASSUME Init PROVE AgentTypes
  OBVIOUS
<1>1. <<>> \in Seq(Names) /\ <<>> \in Seq(Polled) /\ <<>> \in Seq(Line)
  OBVIOUS
<1>2. Len(<<>>) <= Cap
  BY CapAssumption
<1>3. ASSUME NEW k \in Collectors PROVE SrcTypes(src[k], k)
  <2>1. /\ src[k].polls = 0 /\ src[k].left = <<>> /\ src[k].ch = <<>>
        /\ src[k].hand = NoItem
    BY DEF Init
  <2>2. 0 \in 0 .. MaxPolls[k]
    BY MaxPollsAssumption
  <2> QED
    BY <1>1, <1>2, <2>1, <2>2 DEF SrcTypes
<1>4. PipeTypes
  <2>1. upd = <<>> /\ hand = NoItem /\ store = [n \in Names |-> Absent]
    BY DEF Init
  <2>2. store \in [Names -> Metric \cup {Absent}] /\ StoreTypes
    BY <2>1 DEF StoreTypes
  <2> QED
    BY <1>1, <1>2, <1>3, <2>1, <2>2 DEF PipeTypes
<1>5. SendTypes
  <2>1. /\ proc = "running" /\ cancelled = FALSE /\ updClosed = FALSE /\ rate \in Rates
        /\ grpc \in BOOLEAN
        /\ rpc = "select" /\ must = {} /\ seen = {} /\ item = NoItem /\ out = <<>>
        /\ busy = [w \in Workers |-> NoItem]
    BY DEF Init
  <2> QED
    BY <1>1, <1>2, <2>1 DEF SendTypes
<1> QED
  BY <1>4, <1>5, InitCloseInv DEF AgentTypes

(* Every step keeps them, wherever it is in the pipeline. *)
LEMMA NextAgentTypes == AgentTypes /\ [Next]_vars => AgentTypes'
<1> SUFFICES ASSUME AgentTypes, [Next]_vars PROVE AgentTypes'
  OBVIOUS
<1> USE DEF AgentTypes
<1>1. CloseInv'
  BY NextCloseInv
<1>2. PipeTypes' /\ SendTypes'
  <2>1. ASSUME NEW k \in Collectors, Tick(k) \/ ReadFails(k) \/ Collector(k) \/ Forwarder(k)
        PROVE  PipeTypes' /\ SendTypes'
    <3>1. PipeTypes'
      <4>1. CASE ReadFails(k)
        BY <4>1 DEF ReadFails, PipeTypes, StoreTypes
      <4> QED
        BY <2>1, <4>1, CollectorTypes, ForwarderTypes DEF Collector, Forwarder
    <3>2. UNCHANGED <<cancelled, rate, grpc, updClosed, repVars, out, busy>>
          /\ proc' \in {proc, "killed", "panicked"}
      BY <2>1 DEF Tick, ReadFails, Collector, Emit, Stop, Forwarder, Take, Pass, Finish
    <3> QED
      BY <3>1, <3>2 DEF SendTypes, repVars
  <2>2. CASE Signal \/ CloseUpdate \/ FatalMapRace
    BY <2>2 DEF Signal, CloseUpdate, FatalMapRace, PipeTypes, StoreTypes, SendTypes, repVars
  <2>3. CASE Updater
    <3>1. SendTypes'
      BY <2>3 DEF Updater, Receive, Apply, SendTypes, repVars
    <3> QED
      BY <2>3, <3>1, UpdaterTypes
  <2>4. CASE Report \/ BatchEnd \/ Main
    BY <2>4, SenderTypes
  <2>5. ASSUME NEW w \in Workers, Worker(w) \/ Sent(w) PROVE PipeTypes' /\ SendTypes'
    BY <2>5, WorkerTypes
  <2>6. CASE UNCHANGED vars
    BY <2>6 DEF vars, repVars, PipeTypes, StoreTypes, SendTypes
  <2> QED
    BY <2>1, <2>2, <2>3, <2>4, <2>5, <2>6 DEF Next
<1> QED
  BY <1>1, <1>2

(* The agent's state always has its types: what collectors, forwarders,    *)
(* updater, report and workers hand to each other are whole metrics, and no *)
(* channel holds more than its capacity.                                   *)
THEOREM AgentTypeCorrect == Spec => []TypeOK
<1>1. AgentTypes => TypeOK
  <2> SUFFICES ASSUME AgentTypes PROVE TypeOK
    OBVIOUS
  <2>1. Polled \subseteq Line
    BY DEF Polled
  <2>2. \A q \in Seq(Polled) : q \in Seq(Line)
    BY <2>1
  <2>3. \A k \in Collectors : src[k] \in Source
    BY DEF AgentTypes, CloseInv
  <2> QED
    BY <2>1, <2>2, <2>3 DEF AgentTypes, PipeTypes, SendTypes, SrcTypes, Source, TypeOK
<1> QED
  BY <1>1, InitAgentTypes, NextAgentTypes, PTL DEF Spec
=============================================================================
