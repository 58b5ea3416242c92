# yp-metrics in TLA+

A metrics service in Go: agents poll the runtime and report to a server over
HTTP or gRPC; the server keeps gauges and counters in memory, with or without a
backup file, or in PostgreSQL. This directory holds the TLA+ model of its core,
the TLC configurations that check it on small instances, and TLAPS proofs that
the safety properties of those runs hold in every instance: of the storages in
memory, with a backup file and in the database, of the agent's pipeline, of the
delivery of reports and of the server's life. Paths below are relative to
`src/internal/` unless they start with `src/`.

## 1. The system: inventory

| Component | Code | State | Operations | Talks to |
|---|---|---|---|---|
| Metric values | `storage/models.go` | a `float64` or an `int64` | `UpdateValue`, `GetValue`, JSON both ways | everything |
| Memory storage | `storage/memory.go` | a map name -> `*Metric`, one mutex | `Get`, `Insert`, `Update`, `GetAll`, `BatchUpdate` | handlers, gRPC server, the agent |
| Hybrid storage | `storage/hybrid.go` | the same, a file and its position, `lastStored`, `backupActive` | the same, then `backupCaller`/`Backup`; `Restore`, `Close` | the file |
| Database storage | `storage/db.go`, `pg/connection.go` | one SQL table | the same interface as SQL statements, the batch in a transaction | PostgreSQL |
| HTTP handlers | `handlers/main.go` | none of their own | `Index`, `Value(JSON)`, `Update(JSON)`, `Updates` | storage |
| gRPC server | `grpc/server/main.go` | none | `List`, `Get`, `Update`, `BatchUpdate` | storage |
| Middleware | `access`, `compress`, `encrypt`, `signing`, `logger` | keys loaded once | address filter, gzip, RSA, HMAC | handlers |
| Server lifecycle | `server/main.go` | signal channel, `idleConnsClosed` | `Run`, shutdown, deferred `Close` | all of the server |
| Agent pipeline | `agent/main.go`, `agent/collect.go` | channels, context, a MemStorage | collectors, `CollectMetrics`, `UpdateMetrics`, `SendMetrics`, workers | memory storage, delivery |
| Agent delivery | `agent/send.go`, `retry/*.go` | the request in flight | reports by HTTP or gRPC, with retries | the server |
| Configuration | `server/config`, `agent/config` | parameters | environment, file, flags | start-up only |
| Profiling server, static checks, generated gRPC code | `pprofserv`, `staticlint`, `grpc/proto` | - | - | - |

**What is hard here.** The storages are called by one goroutine per request
and, except for single map accesses under the mutex of `MemStorage`, nothing
serialises them:

- every writer does `Get`, then `Update` or `Insert`: two critical sections
  with a gap between them (`handlers/main.go:172-206` and `253-279`,
  `agent/collect.go:120-145`, `storage/memory.go:58-81`);
- `GetAll` hands out the live map, and the readers range over it without the
  mutex (`storage/memory.go:50-52`);
- two paths of `Update` leave the mutex locked (`storage/memory.go:42-46`);
- backups run in the request goroutines, outside the mutex, on one shared file
  that each of them truncates first (`storage/hybrid.go:83-108`);
- the process can be killed between any two of these steps, and is told to
  stop by a signal that must lead to one more backup.

**What makes each component correct.**

- *Memory storage*: no delta that was applied is lost or counted twice; a name
  that `Get` found is still there for `Update`; names do not share metrics; the
  answer comes from the stored metric; a failed update does no damage; calls
  return.
- *Hybrid storage*: after a clean exit the file is the memory; a restart
  serves what was saved; no stop leaves a file the next start refuses or
  reads in part; a server that is told to stop stops.
- *Database storage*: a delta counts once even when two first updates race or
  a batch is aborted.
- *Agent*: every collected value reaches the store or the agent is stopping;
  nothing is sent on a closed channel; shutdown terminates.
- *Delivery*: a report is applied at most once, whatever is lost, and only
  those that were applied are taken for sent.
- *Requests* (handlers, gRPC server, middleware): the answer says what became
  of the request; what a client mode sends is what the server's chain demands.
- *Server lifecycle*: no handler meets a closed storage; a signal stops it.
- *Configuration*: the environment goes before the file, the file before flags.

`PROJECT.json` lists the hazards one by one, each at its line, with the
properties that cover it, or the reason why none does.

## 2. Modules

| Module | Models | Extends |
|---|---|---|
| `MetricValues` | values, int64 wrap-around, updates, lines | |
| `MetricMap` | **abstract**: what the storage promises to racing requests | `MetricValues` |
| `MemStorage` | `storage/memory.go` under the get-then-write protocol of its callers | `MetricValues` |
| `HybridStorage` | `storage/hybrid.go` with the life of the server process around it | `MemStorage` |
| `MetricRows` | a row of the SQL table and what each statement makes of it | `MetricValues` |
| `AtomicCalls` | **abstract**: a database call happens at one instant or not at all | `MetricRows` |
| `DBStorage` | `storage/db.go` and its callers: statements, transactions, row locks; refines `AtomicCalls` | `MetricRows` |
| `Agent` | `agent/main.go`, `agent/collect.go`, `SendMetrics`: goroutines and channels | `MetricValues` |
| `AtMostOnce` | **abstract**: what a sender promises about a report | |
| `Delivery` | `agent/send.go`, `retry/`: attempts over a bad network; refines `AtMostOnce` | |
| `Settings` | `server/config`, `agent/config` as functions | |
| `Requests` | what clients send, and what each layer of the server makes of it, as functions | |
| `Server` | `server/main.go` with requests in its middleware and handlers | `Requests`, `Settings` |
| `MCMemStorage`, `MCHybridStorage`, `MCDBStorage`, `MCAgent`, `MCDelivery`, `MCServer` | instances for TLC | |
| `MetricValues_proofs`, `MemStorage_proofs`, `HybridStorage_proofs`, `DBStorage_proofs`, `Delivery_proofs`, `Agent_proofs`, `AgentPipeline_proofs`, `Server_proofs` | theorems | the module they are about; `HybridStorage_proofs` also `MemStorage_proofs`, `AgentPipeline_proofs` also `Agent_proofs` |

The parts meet as follows. `HybridStorage` and `Server` both see the server's
life: `HybridStorage` has what a crash, a restart and the final backup do to
the file, `Server` has everything before and around it, where a storage call
succeeds or fails. `Agent` keeps its storage as a function of names, since
`UpdateMetrics` is the only writer and `MemStorage` with one caller loses
nothing; it stops where a report is handed to a sender. `Delivery` goes on from
there to the server's handler, and `Requests` says what the report looks like
and whether the server's chain lets it pass.

### MetricValues

A value is a record `[type, val]`. A counter's `val` is an int64: `-Half ..
Half-1`, with `Wrap` for Go's addition; `Half` is 2^63 in the code and 1 or 2
in the runs, so that counters overflow within a few steps. A gauge's `val` is a
member of `Floats`. `Nil` is the `interface{}` a JSON request leaves nil when
it omits the field its type calls for (`storage/models.go:147-171`). Names and
floats are model values: no text is built.

### MemStorage

The map holds pointers, and what goes wrong depends on who holds which, so
metrics have identities: `values[n]` is a place in `heap`, 0 when the name is
missing. `mu` is the mutex, `up` becomes FALSE when the Go runtime kills the
process, `pc`, `todo` and `ptr` are a caller's position, the updates it has
left and its local variable `metric`; `ranging` are the readers inside a range
over the live map. `sum` and `creators` are history: what a counter should be,
and whose `Insert` for a name has completed.

| Action | Code |
|---|---|
| `Begin` | a request, with one update or a batch |
| `Get` | `MemStorage.Get` and the branch its caller takes |
| `UpdateApply`, `UpdateFail` | the three ends of `MemStorage.Update`; an error or a panic leaves `mu` locked |
| `CreateNil` | `NewMetric...` of nil panics, or the batch returns an error; nothing is locked |
| `InsertBegin`, `InsertEnd` | `NewMetric...` and `MemStorage.Insert`, split where the map is being written |
| `NextItem`, `Return` | the loop of `BatchUpdate`; the end of the call |
| `StartRange`, `EndRange` | a reader of `GetAll` |
| `FatalMapRace` | "concurrent map iteration and map write": the process dies, no recover helps |

`Get` and `Update` are one step each since nothing inside their mutex section
can be seen from outside. `Insert` is two, because the unlocked readers can see
it. The branch "key is not found" of `Update` has no action: that no caller
ever meets it is the invariant `UpdateFindsKey`, checked and proved.

`UpdateFail` covers a panic that `net/http` recovers. Under gRPC the same panic
ends the process: see `Server`.

### HybridStorage

It extends `MemStorage` and adds the file (`file`, a sequence of cells: whole
lines, or what is torn: `Garbage` and `Bracket`), its shared `offset`, `stored` (`lastStored` is not zero),
the phase of the server process, and for every goroutine that may back up
(requests and main) where its backup is: `bpc`, `due`, `visited`, `line`.

| Action | Code |
|---|---|
| `HBegin`, `HStep` | the actions of MemStorage; requests only while the listener is open |
| `BackupCaller`, `HReturn` | `backupCaller`: a backup, or not, since the interval is not over; the call returns |
| `SeekAndRange`, `Visit`, `Write`, `EndBackup` | `Backup` after its `Truncate`, one name at a time; `GetValue` and the write are separate steps |
| `Signal`, `Close`, `Exit` | `Shutdown`, the deferred `Close` with its final backup |
| `Crash` | the process is killed between any two steps |
| `Start`, `Refuse` | the next start: `Restore` inserts the lines in order, up to the end or to a closing bracket (`Loads`), or cannot decode them and the server does not start |

A write at a position beyond the end leaves zero bytes; over another backup's
line it may fit, eat into the next one or leave a rest of the old
(`Overwritten`), because lines differ in length. Such a rest may be all of the
line's end or only its last bracket: `decoder.More` (`storage/hybrid.go:115`)
takes a closing bracket for the end of the values, so `Restore` then drops all
that follows without an error, where any other rest makes `Decode` fail. `EveryTime` is a store
interval of 0 seconds: time always passes, so every write is followed by a
backup. Otherwise whether the interval has passed is open, except that it
always has for a zero `lastStored`.

### DBStorage

`table` are the committed rows; a transaction's writes are in `draft`, and
`lock` says whose. A statement sees its own drafts and what is committed (READ
COMMITTED); to write a row it waits for the row's lock; a circle of waiting
transactions has one of its members aborted. This is the part that is external
to the code, as are the limits of the columns: a name too long for `VARCHAR(30)`
and a counter that does not fit `BIGINT` make a statement fail.

| Action | Code |
|---|---|
| `Begin`, `Cancel` | a request with one update or a batch; its client goes away, and the context of every later statement is dead |
| `Look` | `Get` of the handler, or the `SELECT COUNT` of `BatchUpdate` |
| `GetMisread` | `rows.Next` returns false since the context ended; `Get` answers "missing", and the `INSERT` that follows is never sent |
| `UpdateRow`, `InsertRow` | `Update`, `Insert` and the same statements in a batch; outside a batch each is a transaction of its own |
| `Commit`, `Return` | `tx.Commit`; the deferred `Rollback`, and the call returns |
| `Fail`, `LoseConnection`, `DeadlockAbort` | the ways a statement can fail |

A statement that has been sent is no longer the client's. The database may run
it when its context has ended or its client is gone, for example an `INSERT` that
has waited for a row's lock: `UpdateRow`, `InsertRow` and `Commit` do not ask the
context. So a call lasts in the model until the database is done with it, which
may be long after its client has been told of an error. A context that was dead
before the statement was sent is another matter: `database/sql` then sends
nothing, which is why `GetMisread` leads to `misled`, where the call can only fail.

The row has the type it was created with and two nullable columns. `Update`
writes the column of the value's type, whatever the row is: `NULL + x` stays
`NULL`, so a delta for a gauge is lost silently, and a gauge for a counter gives
the two readers `Get` and `GetAll` different answers. A gRPC batch runs in
`context.Background()` and never has its `Cancel`; the HTTP handlers have one,
so `DBStorage` has a context for every call.

### Agent

Per collector (`src`) there are the polls begun, the names of the current poll
it still has to send, its channel, and the hand of its forwarder; then
`chUpdate` (`upd`), the hand of the updater, the storage, the main goroutine in
`SendMetrics` (`rpc`), `chSend` (`out`) and the workers' hands.

| Action | Code |
|---|---|
| `Tick`, `Emit`, `Stop`, `ReadFails` | the select and the body of `collectMemStat` and `collectExtraStat` |
| `Take`, `Pass`, `Finish`, `CloseUpdate` | `processCh`, the wait group, `close(chUpdate)` |
| `Receive`, `Apply` | `UpdateMetrics` |
| `FatalMapRace` | a new name enters the live map while a report ranges over it |
| `Report`, `Visit`, `Push`, `RangeEnd`, `BatchEnd`, `Leave` | `SendMetrics`, with workers, in batches, or with a negative limit |
| `Fetch`, `Sent`, `SendPanics` | `sendWorker`; by gRPC the first metric of a worker is a panic |
| `Signal` | cancels the context, at any time |

A send on a closed channel is a step that panics, in `Pass`; that it never
happens is `NeverSendsOnClosed`. A gauge's value is the number of the poll that
read it, which is what the properties tell apart. `Visit` ranges over the live
storage, so a report can hold a gauge of one poll and the `PollCount` of the next:
no property says otherwise.

### Delivery

A sender is `idle`, about to begin an attempt (`dial`), waiting for its answer
(`wait`), or asleep before the next attempt. All attempts of a report use one
`http.Request`; `read` says that its body has been consumed. The server has
requests in `handling` that it will apply or refuse in any order, also those
whose sender has given up.

| Action | Code |
|---|---|
| `Take`, `Receive`, `Cancelled` | `sendWorker`, or `SendMetrics` in batch mode; the end of a report |
| `DialFails`, `WriteBreaks`, `NothingToWrite`, `AnswerLost` | the ways `http.DefaultClient.Do` returns an error, each followed by the rest of the loop of `DoRequest` |
| `Write` | the whole body is on its way to a handler |
| `Wake` | `time.Sleep` |
| `Handle`, `Refuse` | the server's handler; `Requests` says when it refuses |
| `Crash`, `Restart`, `Signal`, `Exit` | both processes |

By gRPC there is one attempt and only batches: `sendMetricGRPC` assigns to
`pbMetric.Delta.Delta` with a nil `Delta`, so an agent with gRPC and workers
panics at its first metric (`agent/send.go:224`; `Agent` has that panic).

`NothingToWrite` leaves out that the transport can rewind a body by itself when a
connection it has used before breaks. The agent closes its answers without reading
them (`agent/send.go:134`, `201`), so no connection is used twice.

### Settings, Requests and Server

`Settings` computes the parameters of both programs from a launch: flags,
environment, and a file named by either. `Requests` has the three kinds of
report an agent sends and what each layer says to a request. A body is the
sequence of encodings around its items, a signature is its key and what it was
made over. A batch has two items, or none before the first poll is stored: by HTTP
its body is then `null` (`Marshal`), which is no array. `Server` runs them:
`main`, the goroutine that waits for a signal, and one goroutine per request, which
passes its `chain` layer by layer.

| Action | Code |
|---|---|
| `Configure`, `Open` | `config.Initialize`, which may panic; the storage |
| `Listen`, `ListenFails`, `Served`, `Waited`, `Close` | `runHTTPServer`, `runGRPCServer`, the deferred `Close` |
| `Signal`, `Drained` | `signal.Notify`, `Shutdown` or `GracefulStop`, `close(idleConnsClosed)` |
| `Arrive` | the header of a request: the agent's, by its settings, or another client's; on a connection that is open also while the server drains |
| `BodyArrives`, `ClientLeaves` | the rest of the request; or the layer that reads it fails. A layer that reads (`ReadsBody`) waits for it |
| `AtIp`, `AtGunzip`, `AtSignature`, `AtDecrypt` | the middleware and the interceptors |
| `BeginLoad`, `Load`, `LoadFails` | `once.Do` around the private key |
| `AtHandler`, `AtStorage` | the checks of the handlers; the storage call and the answer |
| `StorageFails` | the call fails or panics with any part of it done, and may leave the mutex of `MemStorage` locked: then no other call returns |

A panic ends one request by HTTP and the whole process by gRPC; besides those of
the middleware and of the storage they are the nil dereferences of messages with
missing parts (`"hollow"` items) and gRPC's `Update`.

What the model shows of the code besides its properties, since it follows the
code in these points: with a trusted subnet the server refuses its own agents'
HTTP batches, which carry no `X-Real-IP` (`agent/send.go:127`); single metrics
are never signed and batches never encrypted; gRPC's `Update` panics for every
valid request and ends the process without its `Close`
(`grpc/server/main.go:150`); the batch of an agent that has nothing yet is refused
by HTTP (`handlers/main.go:314-334`) and accepted by gRPC; a port that is taken
makes the HTTP server wait for a signal (`server/main.go:176`); `StoreInterval` is found in the file under
`restore` (`server/config/config.go:14`).

## 3. What is checked

| Run | Instance | Shows |
|---|---|---|
| `mem_typed` | 2 callers, 2 names, batches of 1 and 3, `Half`=2, empty or restored map; fairness, deadlock checked | the protocol loses deltas only when creations race, refines `MetricMap`, every call returns |
| `mem_faults` | values of the wrong type and nil, 1 reader, mutex left locked | `MemInv` (the invariant of the proofs), a wedged storage is frozen |
| `mem_racing` | two clients create a counter | **violation** of `CountersAddUp` |
| `hybrid_one` | 1 caller, interval 0, crashes, signals, restarts | what was answered is saved; no start is refused or reads in part; a cut-off backup holds no old value; the server stops |
| `hybrid_two` | 2 callers, an interval, NaN, torn files, starts that are refused or read in part | the last backup repairs whatever overlapping backups did |
| `hybrid_crash` | a crash after `Truncate` | **violation** of `RestartFindsSavedNames` |
| `hybrid_nan` | a NaN gauge and a counter | **violation** of `FinalBackupIsWhole` |
| `hybrid_wedge` | a request without a value | **violation** of `SignalledStops` |
| `db` | 2 callers, 3 names (a counter, one with values of both types, one too long), 3 single updates, 3 batches in both orders, `Half`=2 | calls are atomic, every call returns, deltas are lost only where a creation meets a row, also with statements that outlive their clients |
| `agent` | 2 collectors with 2 names and 1, 2 polls and 1, channels of 1, 1 report, rate limits -1, 0, 1, HTTP and gRPC | no poll is lost or counted twice; a signal ends the process in all cases but one |
| `delivery` | 2 senders or the main goroutine, 2 reports, 4 attempts or 1, 1 crash | at most once, and what a report can be lost by |
| `server` | 2 requests of 3 agents by HTTP and 2 by gRPC and of 10 other kinds, bodies that stall, 105 ways to start the server, 2 key pairs, 2 secret keys | answers are true, the storage outlives the handlers, a signal stops the server when no client stalls for ever and the mutex is not left locked |

**The properties.**

- `UpdateFindsKey`, `NoAlias`, `LossOnlyByRacingCreates`,
  `ReplyReadsTheStoredMetric`: what the two-section protocol still guarantees.
  The exception is always the same, and exact: two callers that both saw the
  name missing (`Raced`).
- `SettledIsForever`: once a name is bound and nobody is creating it, it is
  never rebound. With the previous one: only the first moments of a name are
  dangerous.
- `WedgedIsReadOnly`: after an update that failed with the mutex held, nothing
  that was stored changes any more: no partial damage, but no service either.
- `ImplementsMetricMap`: the map of pointers with its mutex sections is a map
  whose names are created at most once by each client and otherwise only
  change by an update of their type, at one instant.
- `EveryCallReturns`, `SignalledStops`: liveness.
- `CleanExitSavesEverything`, `CleanRestartLosesNothing`: the reason why torn
  files do no harm in a clean exit: the final backup runs when every handler
  is done, and starts from an empty file.
- `ReturnedIsSaved`, `StartsReadAll`, `BackupHoldsNoOldValue`: with one request
  at a time (the agent with rate limit 1) durability holds call by call, and a
  crash can shorten the file but not tear it, so that the next start neither
  refuses it nor stops half-way. With two requests neither holds: `hybrid_two`
  reaches `Refuse`, and starts that read a torn file up to a bracket.
- `FinalBackupIsWhole` (violated in `hybrid_nan`): a clean exit saves every metric
  whose own value JSON can carry. The NaN itself can not be saved and is not asked
  for; the trace loses the counter beside it.
- `OnlyClashesLose`, `SettledNeverClash` (`db`): a counter is the sum of the
  deltas of all calls that were done, unless a creation met the row; once the
  row is there and nobody is about to create it or has sent a creation, that
  never happens again, although a cancelled `Get` takes the row for missing: the
  same dead context keeps its `INSERT` from being sent. A creation that was sent
  and waits for the row's lock counts until the database has run it, whether its
  client is still there or not: until then the row is not settled.
- `ImplementsAtomicCalls`: whatever statements, commits and aborts interleave,
  the table changes by whole calls. `EveryCallReturns`: deadlocks are resolved
  and the deferred `Rollback` frees the rows.
- `ReadersAgree`: `Get` and `GetAll` agree on every name all of whose values
  have one type.
- `NeverSendsOnClosed`, `PollsAreCounted`, `StoredInPollOrder`,
  `PollsReachTheStore` (`agent`): the pipeline loses, repeats and overtakes
  nothing, also while it is closed, and never waits for the server. The order is
  that of the storage at each instant, not of a report, which may mix polls.
- `SignalledExits`: the agent's process ends after a signal (or has been killed),
  unless its rate limit is negative and `chSend` is full: then nobody fetches, and
  the send can not be cancelled.
- `LostOnlyIf`, `OrderKept`, `SignalledSendsEnd`, `ImplementsAtMostOnce`
  (`delivery`): an attempt that was written to is never repeated, because the
  body is gone. That keeps reports from being counted twice, and it is the
  reason why the schedule helps only if no attempt found a server. A report is
  overtaken only by another worker's or if its connection broke.
- `AnswersTellTheTruth` (`server`): a refused request has stored nothing, an
  accepted one everything, and an agent's report that is not failed by its client
  or by the storage is accepted exactly when the settings agree and it is no empty
  batch by HTTP (`Acceptable`), also while another request loads the key.
- `NoHandlerAfterClose`, `SettingsInOrder`: also with requests that begin while the
  server drains.
- `SignalledStops` (`server`): *if* no client leaves a request unfinished for ever,
  a server that is told to stop ends through its `Close`, or its mutex is left
  locked, or a gRPC handler panics. The hypothesis is needed: there is no
  `ReadTimeout` (`server/main.go:157`) and no deadline (`167`), so one client that
  stalls in mid-body keeps the drain for ever.

Every property of a passing run has a mutant in `PROJECT.json`: a plausible
bug in the code under which TLC finds the property violated.

**The violations** are disagreements between the code and what it says of
itself, each with its lines in `PROJECT.json` ("findings"): a delta lost by
racing creations, a crash that loses what a completed backup had saved, a NaN
that keeps other metrics out of the final backup, and a nil update that keeps a
stopping server from its final backup.

**Bounds.** Two callers are enough for every race of the protocol, because it
involves one other writer: a third creation of a name repeats the second. Two
names are needed to see one backup line overwrite another and a batch fail
after its first item. A batch of three visits a name twice. `Half` of 1 or 2
makes counters overflow in two steps. The heap is bounded without a
constraint: by `CreatesOnce` a caller creates a name at most once in the life
of the process. The file is bounded since each backup starts by truncating it
and writes each name once. Symmetry is over callers, only in runs without
liveness. `hybrid_two` uses the view `LiveState`, which leaves out history, the
places of metrics in the heap (names do not share them) and the offset while
nobody writes; no action and no property of that run reads what it leaves out.
Deadlock is not checked in the runs where the system may really stop: a
storage left locked, a process killed by the runtime, a start that is refused.

In `db` two callers make every circle of two transactions; a third would make
longer ones, which the detector treats alike. A row meets two creations, a batch
visits a name twice, and a counter overflows after two. In `agent` a capacity of
1 fills every channel, which 20 and 30 names do in the code; two polls let one
catch up with the other; the report ranges over three names, so that `chSend`
and the worker are full with one left. In `delivery` two reports are enough to
overtake each other, and one crash takes what is in hand. `MaxRequests` of 2 in
`server` lets one request load the key while the other waits, or hold up the
drain, or leave the mutex locked for the other. The servers that are started with a
file are there for their settings and end at their first unary call (gRPC with a
subnet that is none); the requests are those of the servers started by flags. None of
these runs has a symmetry or a constraint; the counters `polls`, `reports`, `crashes` and `requests` are bounded in the guards, by constants that
are declared as bounds. Deadlock is checked in `db`; the other three come to
their end.

**Fairness** is weak fairness of each goroutine that can take a step: the Go
scheduler is preemptive and `sync.Mutex` hands over to starving waiters, and
`Batches` are finite. Weak fairness is enough for the mutex because it is never
held across a blocking call. Requests, signals, crashes and restarts are not
fair: nothing makes them happen. `db` has strong fairness of each caller: other
callers may take a row again and again, and PostgreSQL gives a row's lock to
those who wait for it in turn. `agent` and `server` have it as above; a reply of
the server is fair only once the context is cancelled, since that ends the
request and nothing else does. In `delivery` only the agent's goroutines are
fair, not the network and not the server. In `server` a request's goroutine is fair
only when all of its request is there (`slot[r].whole`): nothing makes a client send
the rest of a body, and `net/http` and gRPC have no time limit here. A storage call
returns unless it finds the mutex locked; what then becomes of the final backup
`hybrid_wedge` shows.

## 4. What is proved

### The memory storage

For any sets of callers, readers and names, any floats, any `Half` > 0, any
non-empty requests and any initial lines (the assumptions of `MetricValues`
and `MemStorage`; TLC evaluates them on each run):

| Theorem | States |
|---|---|
| `MemInvariant` | `Spec => []MemInv` |
| `TypeCorrect`, `UpdateAlwaysFindsKey`, `NamesNeverAlias`, `OnlyRacingCreatesLose`, `ReplyIsCurrent` | the safety invariants, from `MemInv` |
| `SettledNamesStaySettled`, `WedgedStorageIsFrozen` | the action properties |
| `MemStorageImplementsMetricMap` | `Spec => MM!Spec` |

`MemInv` is the conjunction of the properties and of four facts that make it
inductive:

- `WriterIsAlone`: a caller inside `Insert` holds the mutex and its metric is
  in no entry yet. Without it `NoAlias` and the value of a new counter are not
  preserved by `InsertEnd`.
- `CreatedIsBound`: names are bound exactly when a creation has completed, and
  unbound names have no delta. It makes the first `InsertEnd`
  start `sum` right and every second one a race.
- `CreatesOnce`: a caller that is about to create a name has not created it
  before; with `CreatedIsBound`, if the name is bound by then, it was another
  caller, so `Raced` holds after `InsertEnd`.
- `StoredIsBound`: it carries `ptr[c] = values[Name(c)]` through `NextItem`.

The proof has one lemma for the initial state (`LoadedMemInv`: what `Restore`
leaves) and one per action; updates use `UpdatedFacts` and `WrapType` of
`MetricValues_proofs`, which reduce int64 arithmetic to a few facts so that no
later step divides. The action properties and the refinement follow from
`MemInv` and `[Next]_vars`, again action by action: `UpdateApply` is `Bump`,
`InsertEnd` is `Create`, everything else stutters.

### The backup file

For any callers, names, requests, interval, starting file and stops of the
process:

| Theorem | States |
|---|---|
| `BackupInvariant`, `BackupTypeCorrect` | `HSpec => []HybridInv`, `[]HTypeOK` |
| `StorageInvariantSurvives` | `HSpec => []MemInv` |
| `CleanExitIsWhole`, `CleanRestartIsLossless` | `CleanExitSavesEverything`, `CleanRestartLosesNothing` |
| `LoneInvariant` | with one caller, `[](HybridInv /\ LoneInv)` |
| `LoneServerAlwaysStarts`, `LoneBackupIsCurrent`, `LoneCallsAreSaved` | with one caller, `StartsReadAll`, `BackupHoldsNoOldValue`, `ReturnedIsSaved` |

`HybridInv` is `MemInv`, `HTypeOK` and two facts. `WhoBacksUp` says which
goroutine can be inside a backup: a request only at the end of its call, and
the main goroutine only when no request is left. So the final backup runs alone,
and for a backup that does `SoleBackup` describes the file at each of its steps:
empty after the truncation, then the current lines of just the names visited
(`Mirrors`), with the position at the end. `FinalBackup` states it of the main
goroutine, whatever lines the requests' backups had torn before the truncation;
`MirrorIsCurrent` gets from the finished mirror to what a restart reads.

With one caller (`OneCaller`, the agent that sends in batches or through one
worker) every backup runs alone: `LoneInv` is `SoleBackup` of every goroutine
and a file of whole lines, also after a kill. `hybrid_two` shows that none of
the three theorems holds without that hypothesis. `LoneCallsAreSaved` also
assumes that every name has a type which requests and starting files respect
(`Fitting`): after an update of the wrong type the storage is left locked
and `BackupCaller` is never reached.

### The database storage

For any callers, names, limits of the columns, single updates and batches:

| Theorem | States |
|---|---|
| `RowsInvariant`, `RowsTypeCorrect` | `Spec => []DBInv`, `[]TypeOK` |
| `OnlyClashesLoseDeltas` | `OnlyClashesLose` |
| `UniformReadersAgree` | `ReadersAgree` |
| `SettledRowsNeverClash` | `SettledNeverClash` |
| `DBStorageImplementsAtomicCalls` | `Spec => AC!Spec` |

What makes `OnlyClashesLose` inductive is what a transaction owes.
`LocksAreHeld`: a lock belongs to a batch under way that has written the row,
and deltas are owed for locked rows only. `DraftsAddUp`: the draft of a row is
the sum that is committed plus what its transaction owes, so that `Commit` adds
to both sides. `NothingBeforeTheRow` and `UpdateFindsRow` start a row at zero
and say that no update runs into a missing row: rows are never deleted, and a
lock is never taken away from its holder. `RowsAreWhole` keeps the column of
the row's type filled, and the other one `NULL` while all values have one type:
that is `ReadersAgree`. Sums wrap: `WrapAbsorbs` says that they may wrap at each
step or once at the end.

`AtomicCalls` applies all items of a batch in one step, by recursion over the
items (`Stages`), where the code takes a step per statement. `ReplayInv` says
how far each transaction is (`PartDone`): the rows of the items it has written
are locked, and what it sees is the committed table with just these items
applied. Another call's step changes no row it has locked (`Frame`), so the same
items, applied to the new table, still give what it sees (`PartStays`); its own
statement applies one more item (`PartGrows`); and `Commit` makes what it sees
the table. That the recursion defines what it says (`StagesReplay`), and that
its results agree when the tables do on the items' rows (`StagesAgree`), is
proved by induction in the form of a least counterexample: `LeastNumber` gets it
from the fact that the finite sets are well-founded under inclusion
(`FS_StrictSubsetOrderingWellFounded`), which takes no operator as a parameter.

### Delivery

`DeliveryImplementsAtMostOnce`: `Spec => AMO!Spec`, for any set of senders, any
number of reports, attempts and crashes (`NAssumption`, `TriesAssumption`).
`AtMostOnce` counts how often the server applied a report; the proof does not
count but shows where a report can be. `OnceInv` says that it is either waiting
in the queue, once, or with one sender (`OneSender`); that it is with one
handler or applied at one place, and whoever still sends it finds the body read
(`OneHandler`); and that a good answer is the answer of a handler that has
applied it (`OkIsDone`). The clause about the body is the heart of it: `Write`
requires an unread body, so the request it puts into `handling` is the first
with its report. `WriteRewound`, a retry that resends the body, breaks exactly
this clause. The set of places of a report in `applied` is then empty or a
singleton, `Handle` is `Apply`, the end of a report `Succeed` or `Fail`, and
everything else stutters.

`DeliveryTypeCorrect`, `LossHasAReason` and `LoneSenderKeepsOrder` are `TypeOK`,
`LostOnlyIf` and `OrderKept`. For the second, `LossInv` adds a count to
`OnceInv`: a report whose connection never broke has missed the server in every
attempt that is over (`UncutMissed`), and its body is read only while its sender
waits; so when its attempts are used up, all of them missed. For the third,
`OrderInv` adds that reports are taken from the queue in order (`InOrder`), that
a sender alone has the last one taken (`LoneSender`), and that a handler's
sender waits for it unless the connection broke (`SenderWaits`). Senders are a
finite set (`SendersAssumption`): `OrderKept` asks how many there are.

### Agent

For any collectors, names, capacity, rate limits, number of polls and moment of
the signal, of collectors none of which reads a name that another one reads or
that it has read in the same poll (`PollAssumption`, which the lists of
`agent/collect.go` satisfy), and fewer than 2^63 polls (`MaxPollsAssumption`):

| Theorem | States |
|---|---|
| `NoSendOnClosed` | `Spec => []NeverSendsOnClosed` |
| `AgentTypeCorrect` | `Spec => []TypeOK` |
| `StorageFollowsPolls` | `Spec => []StoredInPollOrder` |
| `NoPollIsLost` | `Spec => []PollsAreCounted` |

`CloseInv` follows the closing down the pipeline: a channel that is closed has
nobody left to send to it, a forwarder that is done has an empty hand and an
empty, closed channel, and `chUpdate` is closed only when all forwarders are
done. `AgentTypes` adds that every item has its name's type, without which
`Updated` would not stay within the metrics.

`StoredInPollOrder` compares readings in the storage; what it rests on is where
every item is. `OrderInv` numbers the items of a collector: the names left, the
channel, the forwarder's hand and `chUpdate` hold consecutive numbers, from those
not yet sent back to the first that is not stored. In `chUpdate` the items of
the collectors are mixed, and an item does not show its number (PollCount is
always 1), so the invariant says that there are marks, a collector and a number
for each place (`Queue`, `Waiting`), and numbers `a[k]`, such that the storage is
what the first `a[k]` items of each collector make it (`StoreOrder`). A send
appends a mark (`PushQueue`), a store removes the first one, which is its
collector's next (`PopQueue`). Quotient and remainder by the length of a poll
turn a number into a poll and a name (`DivStep`).

`PollsAreCounted` is inductive with these: each step moves a name from one
place to the next (`ChannelPush`, `ChannelPop`, `NamesPop`), a poll adds 1 to
both sides, and storing adds the delta of 1 that leaves the updater's hand
(`HeldOne`, from `OrderInv`), wrapped or not (`WrapAbsorbs`). `OtherHands` shows
that no other collector's items are counted.

### Server

For any launches of server and agent, requests of other clients that send their
bodies or do not, and any number of requests, when the agent's keys are among the keys (`AgentsAssumption`):

| Theorem | States |
|---|---|
| `ServerInvariant`, `ServerTypeCorrect` | `Spec => []ServerInv`, `[]TypeOK` |
| `StorageOutlivesHandlers` | `Spec => []NoHandlerAfterClose` |
| `AnswersAreTrue` | `Spec => []AnswersTellTheTruth` |
| `SettingsAreInOrder` | `Spec => SettingsInOrder` |

`DrainInv` ties the request goroutines to the place of `main`: an open listener
means that `main` serves and no signal came; a request under way that `main`
serves or waits for `idleConnsClosed`, which is closed only when no request is
left; and until `main` is past that wait the storage is open, with its mutex locked or not. For the answers,
`Follows(q, chain)` says of an agent's report in front of every part of the
chain what is left of its body and that the layers it has passed agreed with
the settings; it holds for the whole chain when the report arrives
(`ReportChain`), each layer either refuses for a reason `Acceptable` knows or leaves
it to the rest of the chain, and for the empty chain it is the verdict.
`KeyInv` is what `once.Do` leaves behind: whoever is past it finds the key of the
settings, or nil for good, although the loading is a step of its own. Two key
pairs and two secret keys are told apart, so that a wrong key is a refusal.

**Only model-checked**: liveness (`EveryCallReturns`, `SignalledStops`,
`PollsReachTheStore`, `SignalledExits`, `SignalledSendsEnd`), which the prover
cannot do.

## 5. What is not modelled

- Opening, truncating or writing the file never fails, and the data written
  before a crash is not lost by the operating system. A server without a file
  is `MemStorage`. The flag `-r=false` (start empty, ignore the file) is left
  out.
- `HybridStorage` reads the map while it is being written as any state between
  the two halves of `Insert`; that the runtime may kill the process there is
  included in `Crash`.
- A batch without items writes nothing but is followed by a backup as any other is;
  `HybridStorage` has no such call, whose backup would be like the others.
- In `HybridStorage` a request that begins on an open connection between the signal
  and the end of the drain counts as begun before the signal: no request looks at
  the signal, and the drain waits for both. `Server` has both orders.
- `CryptoCert` is no setting of the model: a gRPC server with a private key has the
  certificate that belongs to it, or `ListenFails`. One without serves without TLS.
- The text of requests and answers, the log, and the response side of the
  middleware (compressed and signed answers): no part of the program reads it.
- PostgreSQL beyond what `DBStorage` states of it, the creation of the table by
  two servers at once, and the pool of connections, which has no limit here.
- The numbers the operating system reports, durations, and the length of a
  sleep or of an interval: any step may take any time.
- `env/v6`, `encoding/json`, `net/http` and the gRPC library, which are modelled
  by what the code relies on. `Settings` has one setting of each type and kind
  of name in the file, not all twelve.
- A body too long for its RSA key, and key files of the agent that can not be
  read: the report then fails before it is sent.
- The profiling server and the static checks have no state of interest; the
  gRPC stubs are generated.

## 6. Plan

The components are modelled, and every safety invariant, action property and
refinement that a passing run checks is a theorem. What is left:

1. The memory part of `HSpec` refines `MetricMap` between restarts, which
   `StorageInvariantSurvives` prepares.
