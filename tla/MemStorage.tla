----------------------------- MODULE MemStorage -----------------------------
(***************************************************************************)
(* The in-memory repository (storage/memory.go) under the protocol all its *)
(* writers follow: Get, then Update if the name was there and Insert of a  *)
(* new metric if it was not.  The handlers UpdateJSON and Update, the      *)
(* agent's UpdateMetrics and BatchUpdate itself are that protocol, one     *)
(* mutex section per call and none around the pair.                        *)
(*                                                                         *)
(* The map holds pointers, so a metric has an identity: `values` is the    *)
(* map, `heap` the metrics it points to.  GetAll returns the map itself    *)
(* and its readers range over it without the mutex.                        *)
(***************************************************************************)
EXTENDS MetricValues, FiniteSets

CONSTANTS
    Callers,    \* goroutines that write: request handlers, UpdateMetrics
    Readers,    \* goroutines that range over the map GetAll returned
    Batches,    \* the updates one call may carry: non-empty sequences of DTO
    Snapshots,  \* what main may insert before it starts to serve: Seq(Line)
    Main,       \* the main goroutine
    NoCaller    \* the holder of a free mutex

ASSUME CallersAssumption == NoCaller \notin Callers /\ Main \notin Callers
ASSUME SnapshotsAssumption == Snapshots \subseteq Seq(Line)
ASSUME BatchesAssumption ==
    \A b \in Batches : b \in Seq(DTO) /\ b # <<>>

VARIABLES
    values,     \* MemStorage.Values: 0 = no entry, otherwise a place in heap
    heap,       \* the metrics allocated so far
    mu,         \* MemStorage.mu: the goroutine that holds it, or NoCaller
    up,         \* FALSE once the Go runtime has killed the process
    pc,         \* where each caller is
    todo,       \* the updates its call has still to apply
    ptr,        \* its local variable `metric`: what Get or New... returned
    ranging,    \* the readers that are inside a range over the map
    \* history, read by no action
    sum,        \* per name, what it started with plus the deltas that were applied
    creators    \* per name, those whose Insert has completed

memVars  == <<values, heap, mu, up>>
callVars == <<pc, todo, ptr>>
histVars == <<sum, creators>>
vars     == <<values, heap, mu, up, pc, todo, ptr, ranging, sum, creators>>

Phases == {"idle", "get", "update", "insert", "inserting", "stored", "failed"}

Item(c) == Head(todo[c])
Name(c) == Item(c).id
Given(c) == Item(c).value

Bound(n) == values[n] # 0
Unlocked == mu = NoCaller
GoTo(c, p) == pc' = [pc EXCEPT ![c] = p]

(* The storage after main has inserted some lines one by one, a later line  *)
(* of a name replacing an earlier one.  The agent starts with none.         *)
LastLine(lines, n, i) ==
    IF i = 0 THEN \A j \in DOMAIN lines : lines[j].id # n
    ELSE lines[i].id = n /\ \A j \in DOMAIN lines : j > i => lines[j].id # n

Starts(n) == IF Bound(n) /\ heap[values[n]].type = "counter"
             THEN heap[values[n]].val ELSE 0

Loaded(lines) ==
    /\ values \in [Names -> 0 .. Len(lines)]
    /\ \A n \in Names : LastLine(lines, n, values[n])
    /\ heap = [i \in DOMAIN lines |-> lines[i].value]
    /\ mu = NoCaller
    /\ up = TRUE
    /\ pc = [c \in Callers |-> "idle"]
    /\ todo = [c \in Callers |-> <<>>]
    /\ ptr = [c \in Callers |-> 0]
    /\ ranging = {}
    /\ sum = [n \in Names |-> Starts(n)]
    /\ creators = [n \in Names |-> IF Bound(n) THEN {Main} ELSE {}]

Init == \E lines \in Snapshots : Loaded(lines)

-----------------------------------------------------------------------------
(* A request arrives, with one update or a batch. *)
Begin(c, b) ==
    /\ up /\ pc[c] = "idle"
    /\ todo' = [todo EXCEPT ![c] = b]
    /\ GoTo(c, "get")
    /\ UNCHANGED <<memVars, ptr, ranging, histVars>>

(* Mutated forms of Get: the branch on its answer is missing, either way;   *)
(* `metric` is declared outside the loop of BatchUpdate and set only once.  *)
GetThenInsert(c) ==
    /\ up /\ pc[c] = "get" /\ Unlocked
    /\ ptr' = [ptr EXCEPT ![c] = values[Name(c)]]
    /\ GoTo(c, "insert")
    /\ UNCHANGED <<memVars, todo, ranging, histVars>>

GetThenUpdate(c) ==
    /\ up /\ pc[c] = "get" /\ Unlocked
    /\ ptr' = [ptr EXCEPT ![c] = values[Name(c)]]
    /\ GoTo(c, "update")
    /\ UNCHANGED <<memVars, todo, ranging, histVars>>

GetOnce(c) ==
    /\ up /\ pc[c] = "get" /\ Unlocked
    /\ ptr' = [ptr EXCEPT ![c] = IF @ = 0 THEN values[Name(c)] ELSE @]
    /\ GoTo(c, IF Bound(Name(c)) THEN "update" ELSE "insert")
    /\ UNCHANGED <<memVars, todo, ranging, histVars>>

(* MemStorage.Get, and the branch its caller takes on the answer. *)
Get(c) ==
    /\ up /\ pc[c] = "get" /\ Unlocked
    /\ ptr' = [ptr EXCEPT ![c] = values[Name(c)]]
    /\ GoTo(c, IF Bound(Name(c)) THEN "update" ELSE "insert")
    /\ UNCHANGED <<memVars, todo, ranging, histVars>>

(* MemStorage.Update looks the name up again, under the mutex.  Its branch *)
(* "key is not found" has no action: nothing removes a name, so a caller   *)
(* that Get sent here finds it (UpdateFindsKey).                           *)
UpdateApply(c) ==
    LET i == values[Name(c)]
    IN  /\ up /\ pc[c] = "update" /\ Unlocked
        /\ Bound(Name(c)) /\ heap[i].type = Given(c).type
        /\ heap' = [heap EXCEPT ![i] = Updated(@, Given(c))]
        /\ sum' = IF Given(c).type = "counter"
                  THEN [sum EXCEPT ![Name(c)] = Wrap(@ + Given(c).val)]
                  ELSE sum
        /\ GoTo(c, "stored")
        /\ UNCHANGED <<values, mu, up, todo, ptr, ranging, creators>>

(* Update of a nil value returns an error from inside the mutex section,   *)
(* and UpdateValue of the other type panics there (net/http recovers the   *)
(* handler): neither unlocks, and no goroutine ever will.                  *)
UpdateFail(c) ==
    /\ up /\ pc[c] = "update" /\ Unlocked
    /\ Bound(Name(c)) /\ heap[values[Name(c)]].type # Given(c).type
    /\ mu' = c
    /\ GoTo(c, "failed")
    /\ UNCHANGED <<values, heap, up, todo, ptr, ranging, histVars>>

(* NewMetricGauge / NewMetricCounter of nil panics before Insert is called, *)
(* BatchUpdate returns an error instead; either way nothing is locked.      *)
CreateNil(c) ==
    /\ up /\ pc[c] = "insert" /\ Given(c) = Nil
    /\ GoTo(c, "failed")
    /\ UNCHANGED <<memVars, todo, ptr, ranging, histVars>>

(* Mutated forms of InsertBegin: the mutex is not taken; the metric of the *)
(* last creation is reused for the next.                                   *)
InsertUnlocked(c) ==
    /\ up /\ pc[c] = "insert" /\ Given(c) # Nil
    /\ heap' = Append(heap, Given(c))
    /\ ptr' = [ptr EXCEPT ![c] = Len(heap) + 1]
    /\ GoTo(c, "inserting")
    /\ UNCHANGED <<values, mu, up, todo, ranging, histVars>>

InsertReused(c) ==
    /\ up /\ pc[c] = "insert" /\ Unlocked /\ Given(c) # Nil
    /\ heap' = IF heap = <<>> THEN <<Given(c)>>
               ELSE [heap EXCEPT ![Len(heap)] = Given(c)]
    /\ ptr' = [ptr EXCEPT ![c] = Len(heap')]
    /\ mu' = c
    /\ GoTo(c, "inserting")
    /\ UNCHANGED <<values, up, todo, ranging, histVars>>

(* NewMetric..., then MemStorage.Insert takes the mutex and starts to      *)
(* assign to the map.  It does not ask whether the name is still missing.  *)
InsertBegin(c) ==
    /\ up /\ pc[c] = "insert" /\ Unlocked /\ Given(c) # Nil
    /\ heap' = Append(heap, Given(c))
    /\ ptr' = [ptr EXCEPT ![c] = Len(heap) + 1]
    /\ mu' = c
    /\ GoTo(c, "inserting")
    /\ UNCHANGED <<values, up, todo, ranging, histVars>>

(* Mutated form of InsertEnd: the mutex is not given back. *)
InsertKeepsLock(c) ==
    /\ up /\ pc[c] = "inserting"
    /\ values' = [values EXCEPT ![Name(c)] = ptr[c]]
    /\ creators' = [creators EXCEPT ![Name(c)] = @ \cup {c}]
    /\ GoTo(c, "stored")
    /\ UNCHANGED <<heap, mu, up, todo, ptr, ranging, sum>>

(* The assignment to the map is done, and the mutex is given back. *)
InsertEnd(c) ==
    /\ up /\ pc[c] = "inserting"
    /\ values' = [values EXCEPT ![Name(c)] = ptr[c]]
    /\ mu' = NoCaller
    /\ sum' = IF Given(c).type = "counter"
              THEN [sum EXCEPT ![Name(c)] = Wrap(@ + Given(c).val)]
              ELSE sum
    /\ creators' = [creators EXCEPT ![Name(c)] = @ \cup {c}]
    /\ GoTo(c, "stored")
    /\ UNCHANGED <<heap, up, todo, ptr, ranging>>

(* BatchUpdate goes on to its next item. *)
NextItem(c) ==
    /\ up /\ pc[c] = "stored" /\ Len(todo[c]) > 1
    /\ todo' = [todo EXCEPT ![c] = Tail(@)]
    /\ GoTo(c, "get")
    /\ UNCHANGED <<memVars, ptr, ranging, histVars>>

(* The call returns: after its last item, or at once with an error.  What *)
(* the items before the error did stays done.                             *)
Return(c) ==
    /\ up
    /\ pc[c] = "failed" \/ (pc[c] = "stored" /\ Len(todo[c]) = 1)
    /\ todo' = [todo EXCEPT ![c] = <<>>]
    /\ ptr' = [ptr EXCEPT ![c] = 0]
    /\ GoTo(c, "idle")
    /\ UNCHANGED <<memVars, ranging, histVars>>

(* A reader of GetAll starts and ends its range over the live map. *)
StartRange(r) ==
    /\ up /\ r \notin ranging
    /\ ranging' = ranging \cup {r}
    /\ UNCHANGED <<memVars, callVars, histVars>>

EndRange(r) ==
    /\ up /\ r \in ranging
    /\ ranging' = ranging \ {r}
    /\ UNCHANGED <<memVars, callVars, histVars>>

(* The iterator of a map may find the map's "being written" flag set: the  *)
(* runtime then throws "concurrent map iteration and map write", which no  *)
(* recover stops.  It may also miss the write: EndRange stays enabled.     *)
FatalMapRace ==
    /\ up /\ ranging # {}
    /\ \E c \in Callers : pc[c] = "inserting"
    /\ up' = FALSE
    /\ UNCHANGED <<values, heap, mu, callVars, ranging, histVars>>

Step(c) ==
    \/ Get(c)
    \/ UpdateApply(c)
    \/ UpdateFail(c)
    \/ CreateNil(c)
    \/ InsertBegin(c)
    \/ InsertEnd(c)
    \/ NextItem(c)
    \/ Return(c)

Next ==
    \/ \E c \in Callers : (\E b \in Batches : Begin(c, b)) \/ Step(c)
    \/ \E r \in Readers : StartRange(r) \/ EndRange(r)
    \/ FatalMapRace

Spec == Init /\ [][Next]_vars

(* The Go scheduler runs every goroutine that can run.  Requests need not *)
(* arrive.                                                                *)
Fairness == \A c \in Callers : WF_vars(Step(c))
FairSpec == Spec /\ Fairness

-----------------------------------------------------------------------------
(* The types of the state. *)
TypeOK ==
    /\ heap \in Seq(Metric)
    /\ values \in [Names -> 0 .. Len(heap)]
    /\ mu \in Callers \cup {NoCaller}
    /\ up \in BOOLEAN
    /\ pc \in [Callers -> Phases]
    /\ todo \in [Callers -> Seq(DTO)]
    /\ \A c \in Callers : pc[c] # "idle" => todo[c] # <<>>
    /\ ptr \in [Callers -> 0 .. Len(heap)]
    /\ ranging \subseteq Readers
    /\ sum \in [Names -> Int64]
    /\ creators \in [Names -> SUBSET (Callers \cup {Main})]

(* A caller that Get told to update still finds the name when it has got   *)
(* the mutex a second time: the error "key is not found in storage" of     *)
(* Update is dead code, though Get and Update are two mutex sections.      *)
UpdateFindsKey ==
    \A c \in Callers : pc[c] = "update" => Bound(Name(c))

(* No two names ever share a metric, however creations race: an update of *)
(* one name can not show under another.                                   *)
NoAlias ==
    \A m, n \in Names : Bound(m) /\ values[m] = values[n] => m = n

(* Two creations of the name raced: both callers saw it missing. *)
Raced(n) == \E c, d \in creators[n] : c # d

(* A counter is the sum of every delta that was applied to it, modulo 2^64, *)
(* unless several callers raced to create it: batches, interleaved updates  *)
(* and failed calls lose and repeat nothing.  Also the deltas a batch had   *)
(* applied before the item it failed at stay: its error promises nothing.   *)
LossOnlyByRacingCreates ==
    \A n \in Names :
        Bound(n) /\ ~Raced(n) /\ heap[values[n]].type = "counter"
            => heap[values[n]].val = sum[n]

(* UpdateJSON answers with the value of the metric Get gave it, read after *)
(* the mutex was released twice.  Unless creations raced, that is the      *)
(* metric the storage holds, not one that was replaced meanwhile.          *)
ReplyReadsTheStoredMetric ==
    \A c \in Callers :
        pc[c] \in {"update", "stored"} /\ ~Raced(Name(c))
            => ptr[c] = values[Name(c)]

(* A metric that is stored for good: no creation of its name is under way. *)
Settled(n) ==
    /\ Bound(n)
    /\ \A c \in Callers : pc[c] \in {"insert", "inserting"} => Name(c) # n

(* Once a name is bound and its racing creations are over, no step rebinds *)
(* it and no call starts to create it again: from there on every delta     *)
(* counts.                                                                 *)
SettledIsForever ==
    [][\A n \in Names : Settled(n) => Settled(n)' /\ values'[n] = values[n]]_vars

(* The mutex is free, or its holder is writing the map, or it was left     *)
(* locked by an update that failed.  In the last case nothing that was     *)
(* stored is ever touched again: a storage is wedged, never corrupted.     *)
Wedged == ~Unlocked /\ \A c \in Callers : pc[c] # "inserting"

WedgedIsReadOnly ==
    [][Wedged => Wedged' /\ UNCHANGED <<values, heap, up>>]_vars

(* Every call returns, when the values fit the metrics: the mutex is then   *)
(* always given back, and only creations hold it across a step.             *)
EveryCallReturns ==
    \A c \in Callers : pc[c] # "idle" ~> pc[c] = "idle"

(* Each update takes effect at one instant, as MetricMap promises. *)
Shown == [n \in Names |-> IF Bound(n) THEN heap[values[n]] ELSE Absent]

MM == INSTANCE MetricMap WITH Clients <- Callers, store <- Shown

ImplementsMetricMap == MM!Spec

(* A caller between the two halves of Insert holds the mutex, and its new   *)
(* metric is in no entry of the map.                                        *)
WriterIsAlone ==
    \A c \in Callers :
        pc[c] = "inserting" =>
            /\ mu = c
            /\ Given(c) \in Metric
            /\ ptr[c] \in DOMAIN heap /\ heap[ptr[c]] = Given(c)
            /\ \A n \in Names : values[n] # ptr[c]

(* The names of the map are those whose creation completed; an update was   *)
(* applied to no other.                                                     *)
CreatedIsBound ==
    \A n \in Names : /\ Bound(n) <=> creators[n] # {}
                     /\ ~Bound(n) => sum[n] = 0

(* A caller that found a name missing has not created it before. *)
CreatesOnce ==
    \A c \in Callers :
        pc[c] \in {"insert", "inserting"} => c \notin creators[Name(c)]

(* A caller that has updated or created a name finds it in the map. *)
StoredIsBound ==
    \A c \in Callers : pc[c] = "stored" => Bound(Name(c))

(* The inductive invariant: what the safety properties above need to hold   *)
(* after every step.                                                        *)
MemInv ==
    /\ TypeOK
    /\ UpdateFindsKey
    /\ NoAlias
    /\ LossOnlyByRacingCreates
    /\ ReplyReadsTheStoredMetric
    /\ WriterIsAlone
    /\ CreatedIsBound
    /\ CreatesOnce
    /\ StoredIsBound

(* The reading handlers/main_test.go makes ("positive update counter        *)
(* sequence": 2 stored, delta 2, answer 4) for clients that run at once: a  *)
(* counter is the sum of the deltas of the writes that went through.        *)
CountersAddUp ==
    \A n \in Names :
        Bound(n) /\ heap[values[n]].type = "counter"
            => heap[values[n]].val = sum[n]
=============================================================================
