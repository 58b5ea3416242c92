------------------------------ MODULE DBStorage ------------------------------
(***************************************************************************)
(* The database storage (storage/db.go) and its callers: a handler does    *)
(* Get and then Update or Insert, each a statement of its own; BatchUpdate *)
(* does all its statements in one transaction.  Many requests run against  *)
(* one table.                                                              *)
(*                                                                         *)
(* The database is external: READ COMMITTED isolation, a lock per written  *)
(* row until the transaction ends, a deadlock detector that aborts one     *)
(* transaction of a cycle.  It may not know that a client is gone: a       *)
(* statement or a COMMIT that was sent to it may run although the context  *)
(* has ended or the connection is broken, and the handler has been told of *)
(* an error long ago.  A call therefore lasts, here, until the database    *)
(* has done with it, and a caller is a request goroutine with its session. *)
(***************************************************************************)
EXTENDS MetricRows, FiniteSets, Functions

CONSTANTS
    Callers,    \* request goroutines
    Singles,    \* what the handlers UpdateJSON and Update carry: one DTO
    Batches,    \* what Updates carries: non-empty sequences of DTO
    NoCaller    \* the holder of a row nobody has locked

ASSUME DBCallersAssumption == NoCaller \notin Callers
ASSUME SinglesAssumption == Singles \subseteq DTO
ASSUME DBBatchesAssumption == \A b \in Batches : b \in Seq(DTO) /\ b # <<>>

VARIABLES
    table,      \* the committed rows, Absent for a name without one
    lock,       \* per name, whose open transaction has written its row
    draft,      \* per locked name, the row that transaction will commit
    pc,         \* where each call is
    call,       \* the items it carries
    at,         \* the item it is at
    tx,         \* it runs in a transaction: BatchUpdate
    ctx,        \* its context lives: the client is still there
    seen,       \* what Get returned: a metric or Absent
    \* history, read by no action
    sum,        \* per name, the deltas of the calls that were done
    owed,       \* per transaction and name, the deltas it will have done
    clash       \* names on which a creation met a row that was there

rowVars  == <<table, lock, draft>>
callVars == <<pc, call, at, tx, ctx, seen>>
vars     == <<rowVars, callVars, sum, owed, clash>>

Item(c)  == call[c][at[c]]
Name(c)  == Item(c).id
Given(c) == Item(c).value

(* What a statement of c sees: its own writes and what is committed. *)
Visible(c, n) == IF lock[n] = c THEN draft[n] ELSE table[n]

Mine(c, n) == lock[n] \in {c, NoCaller}
Delta(c)   == IF Given(c).type = "counter" THEN Given(c).val ELSE 0
GoTo(c, p) == pc' = [pc EXCEPT ![c] = p]
Nothing    == [n \in Names |-> 0]

Init ==
    /\ table = [n \in Names |-> Absent]
    /\ lock = [n \in Names |-> NoCaller]
    /\ draft = [n \in Names |-> Absent]
    /\ pc = [c \in Callers |-> "idle"]
    /\ call = [c \in Callers |-> <<>>]
    /\ at = [c \in Callers |-> 0]
    /\ tx = [c \in Callers |-> FALSE]
    /\ ctx = [c \in Callers |-> TRUE]
    /\ seen = [c \in Callers |-> Absent]
    /\ sum = Nothing
    /\ owed = [c \in Callers |-> Nothing]
    /\ clash = {}

-----------------------------------------------------------------------------
(* A request arrives: one update, or a batch, whose transaction begins. *)
Begin(c, items, batch) ==
    /\ pc[c] = "idle"
    /\ call' = [call EXCEPT ![c] = items]
    /\ at' = [at EXCEPT ![c] = 1]
    /\ tx' = [tx EXCEPT ![c] = batch]
    /\ GoTo(c, "look")
    /\ UNCHANGED <<rowVars, ctx, seen, sum, owed, clash>>

(* The client goes away: the call sends no statement any more, but what it *)
(* has sent may still run.                                                 *)
Cancel(c) ==
    /\ pc[c] # "idle" /\ ctx[c]
    /\ ctx' = [ctx EXCEPT ![c] = FALSE]
    /\ UNCHANGED <<rowVars, pc, call, at, tx, seen, sum, owed, clash>>

(* Get, or the SELECT COUNT of a batch, which waits for no lock.  A batch   *)
(* only asks whether the row is there; an item without a value ends it.     *)
Look(c) ==
    LET row == Visible(c, Name(c))
    IN  /\ pc[c] = "look" /\ ctx[c]
        /\ IF tx[c] /\ Given(c) = Nil THEN GoTo(c, "failing") /\ UNCHANGED seen
           ELSE IF row = Absent THEN GoTo(c, "insert") /\ UNCHANGED seen
           ELSE /\ GoTo(c, "update")
                /\ seen' = [seen EXCEPT ![c] = IF tx[c] THEN Absent ELSE Answer(row)]
        /\ UNCHANGED <<rowVars, call, at, tx, ctx, sum, owed, clash>>

(* The context ends between the query and rows.Next, which then returns    *)
(* FALSE: Get does not ask rows.Err and answers that the name is missing.  *)
(* The INSERT that follows has a dead context from the start, so it is      *)
(* never sent.                                                              *)
GetMisread(c) ==
    /\ pc[c] = "look" /\ ~ctx[c] /\ ~tx[c]
    /\ GoTo(c, "misled")
    /\ UNCHANGED <<rowVars, call, at, tx, ctx, seen, sum, owed, clash>>

(* Mutated form of Put: the statements of a batch run outside of it. *)
PutAtOnce(c, row) ==
    /\ table' = [table EXCEPT ![Name(c)] = row]
    /\ sum' = [sum EXCEPT ![Name(c)] = Wrap(@ + Delta(c))]
    /\ UNCHANGED <<draft, lock, owed>>

(* What a statement writes goes to the table at once, or to the draft of   *)
(* the transaction, which locks the row.                                   *)
Put(c, row) ==
    LET n == Name(c)
    IN  IF tx[c]
        THEN /\ draft' = [draft EXCEPT ![n] = row]
             /\ lock' = [lock EXCEPT ![n] = c]
             /\ owed' = [owed EXCEPT ![c][n] = Wrap(@ + Delta(c))]
             /\ UNCHANGED <<table, sum>>
        ELSE /\ table' = [table EXCEPT ![n] = row]
             /\ sum' = [sum EXCEPT ![n] = Wrap(@ + Delta(c))]
             /\ UNCHANGED <<draft, lock, owed>>

(* After a statement: the next item, or the commit, or the call is done,    *)
(* unless the answer is lost on its way from the database.                  *)
Advance(c) ==
    IF ~tx[c] THEN (GoTo(c, "done") \/ GoTo(c, "failing")) /\ UNCHANGED at
    ELSE IF at[c] = Len(call[c]) THEN GoTo(c, "commit") /\ UNCHANGED at
    ELSE GoTo(c, "look") /\ at' = [at EXCEPT ![c] = @ + 1]

(* UPDATE waits for the row's lock, and may get it when its context has     *)
(* ended.  Outside a transaction the local metric is updated next, which    *)
(* panics when its type is not the value's: the client gets no answer       *)
(* though the statement was done.                                           *)
UpdateRow(c) ==
    LET row == Touched(Visible(c, Name(c)), Given(c))
    IN  /\ pc[c] = "update"
        /\ Given(c) # Nil /\ Mine(c, Name(c)) /\ Fits(row)
        /\ Put(c, row)
        /\ IF ~tx[c] /\ seen[c].type # Given(c).type
           THEN GoTo(c, "failing") /\ UNCHANGED at
           ELSE Advance(c)
        /\ UNCHANGED <<call, tx, ctx, seen, clash>>

(* Mutated form of InsertRow: the statement has a context of its own, and is *)
(* sent also when Get was misread.                                           *)
InsertAnyway(c) ==
    LET n == Name(c)
        old == Visible(c, n)
        row == IF old = Absent THEN NewRow(Given(c)) ELSE Clashed(old, Given(c))
    IN  /\ pc[c] \in {"insert", "misled"}
        /\ Given(c) # Nil /\ n \notin TooLong /\ Mine(c, n) /\ Fits(row)
        /\ Put(c, row)
        /\ clash' = IF old = Absent THEN clash ELSE clash \cup {n}
        /\ Advance(c)
        /\ UNCHANGED <<call, tx, ctx, seen>>

(* INSERT waits for a transaction that has the name; by then the row may be *)
(* there, and ON CONFLICT updates it, whether the client still waits or not. *)
InsertRow(c) ==
    LET n == Name(c)
        old == Visible(c, n)
        row == IF old = Absent THEN NewRow(Given(c)) ELSE Clashed(old, Given(c))
    IN  /\ pc[c] = "insert"
        /\ Given(c) # Nil /\ n \notin TooLong /\ Mine(c, n) /\ Fits(row)
        /\ Put(c, row)
        /\ clash' = IF old = Absent THEN clash ELSE clash \cup {n}
        /\ Advance(c)
        /\ UNCHANGED <<call, tx, ctx, seen>>

(* What the locks of a transaction become when it ends. *)
Released(c) == [n \in Names |-> IF lock[n] = c THEN NoCaller ELSE lock[n]]
Forgotten(c) ==
    /\ draft' = [n \in Names |-> IF lock[n] = c THEN Absent ELSE draft[n]]
    /\ owed' = [owed EXCEPT ![c] = Nothing]

(* Commit: the drafts become the rows.  The answer may get lost, and the *)
(* COMMIT may be under way when the context ends.                        *)
Commit(c) ==
    /\ pc[c] = "commit"
    /\ table' = [n \in Names |-> Visible(c, n)]
    /\ sum' = [n \in Names |-> Wrap(sum[n] + owed[c][n])]
    /\ lock' = Released(c) /\ Forgotten(c)
    /\ GoTo(c, "done") \/ GoTo(c, "failing")
    /\ UNCHANGED <<call, at, tx, ctx, seen, clash>>

(* A statement that fails by itself: its context has ended before it was    *)
(* sent, or the database has cancelled it, there is no value to write, the  *)
(* name is too long, the counter would overflow.                            *)
Doomed(c) ==
    \/ ~ctx[c]
    \/ pc[c] \in {"update", "insert"} /\ Given(c) = Nil
    \/ pc[c] = "insert" /\ Name(c) \in TooLong
    \/ /\ pc[c] = "update" /\ Given(c) # Nil /\ Mine(c, Name(c))
       /\ ~Fits(Touched(Visible(c, Name(c)), Given(c)))
    \/ /\ pc[c] = "insert" /\ Given(c) # Nil /\ Mine(c, Name(c))
       /\ Visible(c, Name(c)) # Absent
       /\ ~Fits(Clashed(Visible(c, Name(c)), Given(c)))

Working(c) == pc[c] \in {"look", "misled", "update", "insert", "commit"}

Abort(c) ==
    /\ GoTo(c, "failing")
    /\ UNCHANGED <<rowVars, call, at, tx, ctx, seen, sum, owed, clash>>

Fail(c) == Working(c) /\ Doomed(c) /\ Abort(c)

(* The connection to the database breaks, and what was sent is not run. *)
LoseConnection(c) == Working(c) /\ ~Doomed(c) /\ Abort(c)

(* Callers that wait for each other's rows in a circle: the database aborts *)
(* one of them.                                                             *)
Blocked(c) == pc[c] \in {"update", "insert"} /\ ~Mine(c, Name(c))

Deadlocked(c) ==
    \E ring \in SUBSET Callers :
        /\ c \in ring
        /\ \A d \in ring : Blocked(d) /\ lock[Name(d)] \in ring
        /\ \A d \in ring : \E e \in ring : Blocked(e) /\ lock[Name(e)] = d

DeadlockAbort(c) == Deadlocked(c) /\ Abort(c)

(* Mutated form of Return: no deferred Rollback. *)
ReturnWithoutRollback(c) ==
    /\ pc[c] \in {"done", "failing"}
    /\ GoTo(c, "idle")
    /\ call' = [call EXCEPT ![c] = <<>>]
    /\ at' = [at EXCEPT ![c] = 0] /\ seen' = [seen EXCEPT ![c] = Absent]
    /\ tx' = [tx EXCEPT ![c] = FALSE] /\ ctx' = [ctx EXCEPT ![c] = TRUE]
    /\ UNCHANGED <<rowVars, sum, owed, clash>>

(* The deferred Rollback, or the database at the end of the connection,     *)
(* undoes what is not committed; the call is over.                          *)
Return(c) ==
    /\ pc[c] \in {"done", "failing"}
    /\ lock' = Released(c) /\ Forgotten(c)
    /\ GoTo(c, "idle")
    /\ call' = [call EXCEPT ![c] = <<>>]
    /\ at' = [at EXCEPT ![c] = 0] /\ seen' = [seen EXCEPT ![c] = Absent]
    /\ tx' = [tx EXCEPT ![c] = FALSE] /\ ctx' = [ctx EXCEPT ![c] = TRUE]
    /\ UNCHANGED <<table, sum, clash>>

Step(c) ==
    \/ Look(c) \/ GetMisread(c) \/ UpdateRow(c) \/ InsertRow(c)
    \/ Commit(c) \/ Fail(c) \/ DeadlockAbort(c) \/ Return(c)

Next ==
    \E c \in Callers :
        \/ \E d \in Singles : Begin(c, <<d>>, FALSE)
        \/ \E b \in Batches : Begin(c, b, TRUE)
        \/ Step(c)
        \/ Cancel(c)
        \/ LoseConnection(c)

Spec == Init /\ [][Next]_vars

(* A statement that can run is run, and the locks of a row are given in the *)
(* order they were asked for, so no caller waits for ever while others take *)
(* turns.  Requests, clients that go away and broken connections are not    *)
(* fair.                                                                    *)
Fairness == \A c \in Callers : SF_vars(Step(c))
FairSpec == Spec /\ Fairness

-----------------------------------------------------------------------------
(* The types of the state. *)
TypeOK ==
    /\ table \in [Names -> Row \cup {Absent}]
    /\ draft \in [Names -> Row \cup {Absent}]
    /\ lock \in [Names -> Callers \cup {NoCaller}]
    /\ pc \in [Callers -> {"idle", "look", "misled", "update", "insert",
                           "commit", "done", "failing"}]
    /\ call \in [Callers -> Seq(DTO)]
    /\ at \in [Callers -> Nat]
    /\ \A c \in Callers : pc[c] # "idle" => at[c] \in DOMAIN call[c]
    /\ tx \in [Callers -> BOOLEAN] /\ ctx \in [Callers -> BOOLEAN]
    /\ seen \in [Callers -> Metric \cup {Absent}]
    /\ sum \in [Names -> Int64]
    /\ owed \in [Callers -> [Names -> Int64]]
    /\ clash \subseteq Names

(* A row that was created as a counter is the sum of every delta of every  *)
(* call that was done, single or batch, however they interleave, fail, are *)
(* cancelled or aborted, unless a creation met the row.                    *)
OnlyClashesLose ==
    \A n \in Names \ clash :
        table[n] # Absent /\ table[n].mtype = "counter"
            => table[n].counter = sum[n]

(* A row that is there, and that nobody is about to create or has asked the *)
(* database to create.                                                      *)
Settled(n) ==
    /\ table[n] # Absent
    /\ \A c \in Callers : pc[c] = "insert" => Name(c) # n

(* From the moment a row is settled no creation ever meets it, although Get *)
(* takes a query that was cancelled for a missing name: whoever makes that  *)
(* mistake has a context no INSERT is sent with.  Creations that were sent  *)
(* before may run much later, after their clients have gone; until then the *)
(* row is not settled.                                                      *)
SettledNeverClash ==
    [][\A n \in Names : Settled(n) => Settled(n)' /\ (n \in clash' => n \in clash)]_vars

(* Names all requests give values of one type. *)
Uniform ==
    {n \in Names : \E t \in {"gauge", "counter"} :
        \A d \in Singles \cup UNION {Range(b) : b \in Batches} :
            d.id = n => d.value.type \in {t, "nil"}}

(* The two readers of a row agree on it: Get on the gauge column first,     *)
(* GetAll on the counter column last.  Names that get values of both types  *)
(* are the exception, and stay it for good.                                 *)
ReadersAgree ==
    \A n \in Uniform : table[n] # Absent => Answer(table[n]) = Listed(table[n])

(* Every call comes to its end, though batches lock rows in any order and   *)
(* wait for each other: the deferred Rollback frees what a failed one had   *)
(* locked.                                                                  *)
EveryCallReturns == \A c \in Callers : pc[c] # "idle" ~> pc[c] = "idle"

(* A batch is seen as a whole or not at all, whatever runs beside it. *)
AC == INSTANCE AtomicCalls WITH
        Calls <- {<<d>> : d \in Singles} \cup Batches

ImplementsAtomicCalls == AC!Spec
=============================================================================
