-------------------------------- MODULE Agent --------------------------------
(***************************************************************************)
(* The agent process (agent/main.go, agent/collect.go, and SendMetrics and *)
(* sendWorker of agent/send.go): collectors poll the machine, a forwarder  *)
(* each passes what they read on to one updater, the only writer of the    *)
(* storage; the main goroutine ranges over the storage once per report and *)
(* sends a batch itself or feeds `rate` workers.  Each hop is a bounded    *)
(* channel.  A signal cancels one context; the process ends when the main  *)
(* goroutine does.  What becomes of a request is module Delivery.          *)
(***************************************************************************)
EXTENDS MetricValues, FiniteSets

CONSTANTS
    Poll,       \* per collector the names one poll reads, in their order
    Counters,   \* the names that carry a delta of 1: PollCount
    Fallible,   \* the collectors whose reading may fail, which panics
    Cap,        \* the capacity of every channel, 20 in the code
    Rates,      \* the values rateLimit may have, a flag: negative ones too
    NoItem,     \* an empty hand
    MaxPolls,   \* bound: per collector its polls
    MaxReports  \* bound: reports

Collectors == DOMAIN Poll
Workers    == {w \in 1 .. 9 : \E r \in Rates : w <= r}

(* No name is read twice in a poll, or by two collectors. *)
ASSUME PollAssumption ==
    /\ \A k \in Collectors : Poll[k] \in Seq(Names)
    /\ \A k, l \in Collectors : \A i \in DOMAIN Poll[k], j \in DOMAIN Poll[l] :
            Poll[k][i] = Poll[l][j] => k = l /\ i = j
(* PollCount is far from 2^63; the number of a poll stands for its floats. *)
ASSUME MaxPollsAssumption ==
    \A k \in Collectors : MaxPolls[k] \in 0 .. Half - 1 /\ 1 .. MaxPolls[k] \subseteq Floats
ASSUME CapAssumption == Cap \in Nat \ {0}
ASSUME RatesAssumption == Rates \subseteq Int
ASSUME NoItemAssumption == NoItem \notin Line

VARIABLES
    proc,       \* how the process fares
    cancelled,  \* a signal has cancelled the context
    rate,       \* *rateLimit, chosen at the start
    grpc,       \* metricsClient is there, chosen at the start
    src,        \* per collector: polls begun, names left to send, its channel,
                \* whether that is closed, the forwarder's hand, wg.Done called
    upd,        \* chUpdate
    updClosed,
    hand,       \* what the updater has received and not stored
    store,      \* the agent's MemStorage
    rpc,        \* where the main goroutine is in SendMetrics
    reports,    \* reports begun
    must,       \* names the range over the live map has still to visit
    seen,       \* names it has visited
    item,       \* what the main goroutine is sending to chSend
    out,        \* chSend
    busy        \* per worker, the metric it is sending

repVars == <<rpc, reports, must, seen, item>>
vars == <<proc, cancelled, rate, grpc, src, upd, updClosed, hand, store, repVars, out, busy>>

Init ==
    /\ proc = "running" /\ cancelled = FALSE
    /\ rate \in Rates /\ grpc \in BOOLEAN
    /\ src = [k \in Collectors |->
                [polls |-> 0, left |-> <<>>, ch |-> <<>>, closed |-> FALSE,
                 hand |-> NoItem, done |-> FALSE]]
    /\ upd = <<>> /\ updClosed = FALSE /\ hand = NoItem
    /\ store = [n \in Names |-> Absent]
    /\ rpc = "select" /\ reports = 0 /\ must = {} /\ seen = {} /\ item = NoItem
    /\ out = <<>> /\ busy = [w \in Workers |-> NoItem]

Stored == {n \in Names : store[n] # Absent}

(* A signal calls cancel; the goroutine that waits for one has then ended. *)
Signal ==
    /\ ~cancelled
    /\ cancelled' = TRUE
    /\ UNCHANGED <<proc, rate, grpc, src, upd, updClosed, hand, store, repVars, out, busy>>

-----------------------------------------------------------------------------
(* A collector waits in its select, where the ticker and the context race. *)
Selecting(k) == src[k].left = <<>> /\ ~src[k].closed

Tick(k) ==
    /\ Selecting(k) /\ src[k].polls < MaxPolls[k]
    /\ src' = [src EXCEPT ![k].polls = @ + 1, ![k].left = Poll[k]]
    /\ UNCHANGED <<proc, cancelled, rate, grpc, upd, updClosed, hand, store, repVars, out, busy>>

(* Mutated form of Reading: only fields that are floats are converted. *)
ReadingOfFloats(n, p) ==
    [id |-> n, value |-> IF n \in Counters THEN [type |-> "counter", val |-> 1]
                         ELSE Nil]

(* What poll number p reads: the numbers stand for the readings. *)
Reading(n, p) ==
    [id |-> n, value |-> IF n \in Counters THEN [type |-> "counter", val |-> 1]
                         ELSE [type |-> "gauge", val |-> p]]

(* Mutated form of Emit: the names of a poll in reverse. *)
EmitLast(k) ==
    LET rest == src[k].left
    IN  /\ rest # <<>> /\ Len(src[k].ch) < Cap
        /\ src' = [src EXCEPT
                    ![k].left = SubSeq(rest, 1, Len(rest) - 1),
                    ![k].ch = Append(@, Reading(rest[Len(rest)], src[k].polls))]
        /\ UNCHANGED <<proc, cancelled, rate, grpc, upd, updClosed, hand, store, repVars, out, busy>>

(* The collector sends the names of a poll one by one; a full channel makes *)
(* it wait, and no context interrupts it.                                   *)
Emit(k) ==
    /\ src[k].left # <<>> /\ Len(src[k].ch) < Cap
    /\ src' = [src EXCEPT
                ![k].left = Tail(@),
                ![k].ch = Append(@, Reading(Head(src[k].left), src[k].polls))]
    /\ UNCHANGED <<proc, cancelled, rate, grpc, upd, updClosed, hand, store, repVars, out, busy>>

(* Memory or processor figures that can not be read are a panic. *)
ReadFails(k) ==
    /\ k \in Fallible /\ src[k].left # <<>>
    /\ proc' = "killed"
    /\ UNCHANGED <<cancelled, rate, grpc, src, upd, updClosed, hand, store, repVars, out, busy>>

(* ctx.Done: the collector closes its channel. *)
Stop(k) ==
    /\ Selecting(k) /\ cancelled
    /\ src' = [src EXCEPT ![k].closed = TRUE]
    /\ UNCHANGED <<proc, cancelled, rate, grpc, upd, updClosed, hand, store, repVars, out, busy>>

(* processCh: the forwarder of a collector ranges over its channel. *)
Take(k) ==
    /\ src[k].hand = NoItem /\ src[k].ch # <<>>
    /\ src' = [src EXCEPT ![k].hand = Head(src[k].ch), ![k].ch = Tail(@)]
    /\ UNCHANGED <<proc, cancelled, rate, grpc, upd, updClosed, hand, store, repVars, out, busy>>

(* A send on a closed channel is a panic. *)
Pass(k) ==
    /\ src[k].hand # NoItem
    /\ IF updClosed THEN proc' = "panicked" /\ UNCHANGED <<src, upd>>
       ELSE /\ Len(upd) < Cap
            /\ upd' = Append(upd, src[k].hand)
            /\ src' = [src EXCEPT ![k].hand = NoItem]
            /\ UNCHANGED proc
    /\ UNCHANGED <<cancelled, rate, grpc, updClosed, hand, store, repVars, out, busy>>

(* wg.Done: the channel is closed and empty. *)
Finish(k) ==
    /\ src[k].closed /\ src[k].ch = <<>> /\ src[k].hand = NoItem /\ ~src[k].done
    /\ src' = [src EXCEPT ![k].done = TRUE]
    /\ UNCHANGED <<proc, cancelled, rate, grpc, upd, updClosed, hand, store, repVars, out, busy>>

(* Mutated form of CloseUpdate: wg.Add(1) for two forwarders. *)
CloseUpdateEarly ==
    /\ ~updClosed /\ \E k \in Collectors : src[k].done
    /\ updClosed' = TRUE
    /\ UNCHANGED <<proc, cancelled, rate, grpc, src, upd, hand, store, repVars, out, busy>>

(* wg.Wait, then close(chUpdate). *)
CloseUpdate ==
    /\ ~updClosed /\ \A k \in Collectors : src[k].done
    /\ updClosed' = TRUE
    /\ UNCHANGED <<proc, cancelled, rate, grpc, src, upd, hand, store, repVars, out, busy>>

(* UpdateMetrics ranges over chUpdate: Get, then Update or Insert.  It is   *)
(* the only writer, so nothing comes between.                               *)
Receive ==
    /\ hand = NoItem /\ upd # <<>>
    /\ hand' = Head(upd) /\ upd' = Tail(upd)
    /\ UNCHANGED <<proc, cancelled, rate, grpc, src, updClosed, store, repVars, out, busy>>

(* Mutated form of Apply: GetAll keeps the mutex while a report is sent. *)
ApplyBetweenReports ==
    /\ hand # NoItem /\ rpc = "select"
    /\ store' = [store EXCEPT ![hand.id] =
                    IF @ = Absent THEN hand.value ELSE Updated(@, hand.value)]
    /\ hand' = NoItem
    /\ UNCHANGED <<proc, cancelled, rate, grpc, src, upd, updClosed, repVars, out, busy>>

Apply ==
    /\ hand # NoItem
    /\ store' = [store EXCEPT ![hand.id] =
                    IF @ = Absent THEN hand.value ELSE Updated(@, hand.value)]
    /\ hand' = NoItem
    /\ UNCHANGED <<proc, cancelled, rate, grpc, src, upd, updClosed, repVars, out, busy>>

(* GetAll returned the live map: a new name put into it while the main     *)
(* goroutine advances its range kills the process (see MemStorage).        *)
FatalMapRace ==
    /\ rpc = "range" /\ hand # NoItem /\ hand.id \notin Stored
    /\ proc' = "killed"
    /\ UNCHANGED <<cancelled, rate, grpc, src, upd, updClosed, hand, store, repVars, out, busy>>

-----------------------------------------------------------------------------
(* The ticker of the main goroutine: a report begins. *)
Report ==
    /\ rpc = "select" /\ reports < MaxReports
    /\ rpc' = "range" /\ reports' = reports + 1
    /\ must' = Stored /\ seen' = {}
    /\ UNCHANGED <<proc, cancelled, rate, grpc, src, upd, updClosed, hand, store, item, out, busy>>

(* With workers the context is asked before each item. *)
Visit(n) ==
    /\ rpc = "range" /\ rate # 0 /\ ~cancelled
    /\ n \in Stored \ seen
    /\ item' = [id |-> n, value |-> store[n]]
    /\ seen' = seen \cup {n} /\ must' = must \ {n}
    /\ rpc' = "push"
    /\ UNCHANGED <<proc, cancelled, rate, grpc, src, upd, updClosed, hand, store, reports, out, busy>>

(* The send to chSend waits for room, whatever becomes of the context. *)
Push ==
    /\ rpc = "push" /\ Len(out) < Cap
    /\ out' = Append(out, item) /\ item' = NoItem /\ rpc' = "range"
    /\ UNCHANGED <<proc, cancelled, rate, grpc, src, upd, updClosed, hand, store, reports,
                   must, seen, busy>>

(* The range ends.  Names that came in meanwhile may have been missed.     *)
(* Without workers the items are then sent in one request.                 *)
RangeEnd ==
    /\ rpc = "range" /\ (rate = 0 \/ must = {})
    /\ rpc' = IF rate = 0 THEN "sending" ELSE "select"
    /\ must' = {} /\ seen' = {}
    /\ UNCHANGED <<proc, cancelled, rate, grpc, src, upd, updClosed, hand, store, reports,
                   item, out, busy>>

(* The server answers or the attempts are used up; or the context ends it. *)
BatchEnd ==
    /\ rpc = "sending"
    /\ rpc' = "select"
    /\ UNCHANGED <<proc, cancelled, rate, grpc, src, upd, updClosed, hand, store, reports,
                   must, seen, item, out, busy>>

(* ctx.Done in the select, or before an item: SendMetrics closes chSend and *)
(* returns, and with Run the process ends, whatever the others are doing.   *)
Leave ==
    /\ cancelled
    /\ \/ rpc = "select"
       \/ rpc = "range" /\ rate # 0 /\ Stored \ seen # {}
    /\ proc' = "exited"
    /\ UNCHANGED <<cancelled, rate, grpc, src, upd, updClosed, hand, store, repVars, out, busy>>

(* Mutated form of Fetch: a worker ends when the context does. *)
FetchUntilDone(w) ==
    /\ w <= rate /\ busy[w] = NoItem /\ out # <<>> /\ ~cancelled
    /\ busy' = [busy EXCEPT ![w] = Head(out)] /\ out' = Tail(out)
    /\ UNCHANGED <<proc, cancelled, rate, grpc, src, upd, updClosed, hand, store, repVars>>

(* sendWorker ranges over chSend, after ctx.Done too. *)
Fetch(w) ==
    /\ w <= rate /\ busy[w] = NoItem /\ out # <<>>
    /\ busy' = [busy EXCEPT ![w] = Head(out)] /\ out' = Tail(out)
    /\ UNCHANGED <<proc, cancelled, rate, grpc, src, upd, updClosed, hand, store, repVars>>

(* The server has answered or the attempts are used up. *)
Sent(w) ==
    /\ busy[w] # NoItem /\ ~grpc
    /\ busy' = [busy EXCEPT ![w] = NoItem]
    /\ UNCHANGED <<proc, cancelled, rate, grpc, src, upd, updClosed, hand, store, repVars, out>>

(* sendMetricGRPC assigns to the Delta or the Value of a metric that has    *)
(* none yet, which panics: an agent with gRPC and workers dies of the first *)
(* metric it sends.                                                         *)
SendPanics(w) ==
    /\ busy[w] # NoItem /\ grpc
    /\ proc' = "killed"
    /\ UNCHANGED <<cancelled, rate, grpc, src, upd, updClosed, hand, store, repVars, out, busy>>

-----------------------------------------------------------------------------
Collector(k) == Emit(k) \/ Stop(k)
Forwarder(k) == Take(k) \/ Pass(k) \/ Finish(k)
Updater == Receive \/ Apply
Main == (\E n \in Names : Visit(n)) \/ Push \/ RangeEnd \/ Leave
Worker(w) == Fetch(w) \/ SendPanics(w) \/ (cancelled /\ Sent(w))

Running == proc = "running"

Next ==
    /\ Running
    /\ \/ Signal
       \/ \E k \in Collectors :
            Tick(k) \/ ReadFails(k) \/ Collector(k) \/ Forwarder(k)
       \/ CloseUpdate \/ Updater \/ FatalMapRace
       \/ Report \/ BatchEnd \/ Main
       \/ \E w \in Workers : Worker(w) \/ Sent(w)

Spec == Init /\ [][Next]_vars

(* Go runs every goroutine that can run.  A select picks at random, so a   *)
(* context that is done is noticed in the end however often the ticker is  *)
(* ready.  Tickers, signals and failures are not fair, and a server that   *)
(* is never heard of again may hold a request until the context is         *)
(* cancelled, which ends it.  Polls and reports being bounded, no goroutine *)
(* is overtaken for ever and weak fairness says all of this.               *)
Fairness ==
    /\ \A k \in Collectors :
        /\ WF_vars(Running /\ Collector(k))
        /\ WF_vars(Running /\ Forwarder(k))
    /\ WF_vars(Running /\ (CloseUpdate \/ Updater))
    /\ WF_vars(Running /\ (Main \/ (cancelled /\ BatchEnd)))
    /\ \A w \in Workers : WF_vars(Running /\ Worker(w))

FairSpec == Spec /\ Fairness

-----------------------------------------------------------------------------
(* The types of the state. *)
TypeOK ==
    /\ proc \in {"running", "exited", "killed", "panicked"}
    /\ cancelled \in BOOLEAN /\ updClosed \in BOOLEAN
    /\ rate \in Rates /\ grpc \in BOOLEAN
    /\ \A k \in Collectors :
        /\ src[k].polls \in 0 .. MaxPolls[k]
        /\ src[k].left \in Seq(Names)
        /\ src[k].ch \in Seq(Line) /\ Len(src[k].ch) <= Cap
        /\ src[k].closed \in BOOLEAN /\ src[k].done \in BOOLEAN
        /\ src[k].hand \in Line \cup {NoItem}
    /\ upd \in Seq(Line) /\ Len(upd) <= Cap
    /\ hand \in Line \cup {NoItem}
    /\ store \in [Names -> Metric \cup {Absent}]
    /\ rpc \in {"select", "range", "push", "sending"}
    /\ must \subseteq Names /\ seen \subseteq Names
    /\ item \in Line \cup {NoItem}
    /\ out \in Seq(Line) /\ Len(out) <= Cap
    /\ busy \in [Workers -> Line \cup {NoItem}]

(* No goroutine ever sends on chUpdate after it was closed: it is closed   *)
(* behind the last forwarder, wherever the signal finds them.              *)
NeverSendsOnClosed == proc # "panicked"

(* How often n is still to be sent, or in a channel, and whether in a hand. *)
InNames(q, n) == Cardinality({i \in DOMAIN q : q[i] = n})
InChannel(ch, n) == Cardinality({i \in DOMAIN ch : ch[i].id = n})
InHand(h, n) == IF h # NoItem /\ h.id = n THEN 1 ELSE 0

OnItsWay(k, n) ==
    InNames(src[k].left, n)
        + InChannel(src[k].ch, n) + InHand(src[k].hand, n)
        + InChannel(upd, n) + InHand(hand, n)

(* The polls of which the storage has the reading n. *)
Level(n) == IF store[n] = Absent THEN 0 ELSE store[n].val

(* Every poll is counted once: PollCount and the deltas in the channels and *)
(* hands between collector and storage make up the polls, also while the   *)
(* signal closes one channel after the other.                               *)
PollsAreCounted ==
    \A k \in Collectors : \A n \in Counters :
        n \in {Poll[k][i] : i \in DOMAIN Poll[k]}
            => Wrap(Level(n) + OnItsWay(k, n)) = Wrap(src[k].polls)

(* The storage never runs ahead in one reading: of a poll it has a prefix,  *)
(* of the poll before it everything.  That is said of the storage at each   *)
(* instant.  A report ranges over it step by step and may mix: it can take  *)
(* a gauge of poll p - 1, be overtaken by poll p, and then take PollCount p. *)
StoredInPollOrder ==
    \A k \in Collectors : \A j \in DOMAIN Poll[k] : \A i \in 1 .. j - 1 :
        Level(Poll[k][i]) - Level(Poll[k][j]) \in {0, 1}

(* What a poll read gets stored, although nothing else moves: not a server  *)
(* that hangs, full channels to it, or an agent without workers.            *)
PollsReachTheStore ==
    \A k \in Collectors : \A p \in 1 .. MaxPolls[k] :
        src[k].polls = p ~> (~Running \/ \A i \in DOMAIN Poll[k] : Level(Poll[k][i]) >= p)

(* A signal ends the process, also with every channel full and a server    *)
(* that hangs, in every case but one: a negative rate limit, which starts   *)
(* no worker, and a full chSend, to which nothing can interrupt the send.   *)
NobodyFetches == rate < 0 /\ rpc = "push" /\ Len(out) = Cap
SignalledExits == cancelled ~> (~Running \/ NobodyFetches)
=============================================================================
