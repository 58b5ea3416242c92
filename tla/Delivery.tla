------------------------------ MODULE Delivery ------------------------------
(***************************************************************************)
(* What becomes of the agent's reports (agent/send.go, retry/): senders    *)
(* take them from chSend in order, a sender is a worker or, in batch mode,  *)
(* the main goroutine, and each report is one request with up to `tries`   *)
(* attempts, over a network that loses connections to a server that may    *)
(* crash, refuse, or leave a request unanswered for ever: the client has no *)
(* timeout.                                                                *)
(*                                                                         *)
(* All attempts share one request, whose body is a buffer.  An attempt that *)
(* finds no connection leaves the buffer as it is; one that has begun to    *)
(* write has emptied it, and every later attempt then fails by itself, for *)
(* its length is no longer the one that was announced.                     *)
(***************************************************************************)
EXTENDS Integers, Sequences, FiniteSets

CONSTANTS
    Senders,    \* the workers
    N,          \* bound: reports
    Tries,      \* len(retriesSchedule), 4 in the code
    MaxCrashes  \* bound: crashes of the server

Reports == 1 .. N

ASSUME SendersAssumption == IsFiniteSet(Senders)
ASSUME NAssumption == N \in Nat
ASSUME TriesAssumption == Tries \in Nat \ {0}
ASSUME CrashAssumption == MaxCrashes \in Nat

VARIABLES
    tries,      \* attempts per request, by the transport in use
    batch,      \* the main goroutine sends: one sender, and it is waited for
    queue,      \* chSend, or the ticks to come
    at,         \* where each sender is
    job,        \* the report it sends, 0 for none
    try,        \* the attempt it is at
    read,       \* the body of its request has been read
    answer,     \* what has come back for its attempt
    cancelled, exited,
    up, crashes,
    handling,   \* requests a server handler has in hand
    applied,    \* the reports the server has applied, in that order
    outcome,    \* per report what the agent knows
    \* history, read by no action
    cut,        \* reports whose connection broke once it was written to
    refused,    \* reports answered with an error
    missed      \* per report, attempts that found no server

sendVars   == <<queue, at, job, try, read, answer, outcome>>
serverVars == <<up, crashes, handling, applied>>
history    == <<cut, refused, missed>>
life       == <<tries, batch, cancelled, exited>>
vars == <<sendVars, serverVars, history, life>>

(* By HTTP, with workers or in batches; by gRPC only in batches: the first *)
(* single metric panics the agent (sendMetricGRPC writes to a nil Delta).  *)
Modes == {<<Tries, FALSE>>, <<Tries, TRUE>>, <<1, TRUE>>}

Init ==
    /\ \E m \in Modes : tries = m[1] /\ batch = m[2]
    /\ queue = [r \in Reports |-> r]
    /\ at = [w \in Senders |-> "idle"] /\ job = [w \in Senders |-> 0]
    /\ try = [w \in Senders |-> 0] /\ read = [w \in Senders |-> FALSE]
    /\ answer = [w \in Senders |-> "none"]
    /\ cancelled = FALSE /\ exited = FALSE
    /\ up = TRUE /\ crashes = 0
    /\ handling = {} /\ applied = <<>>
    /\ outcome = [r \in Reports |-> "open"]
    /\ cut = {} /\ refused = {} /\ missed = [r \in Reports |-> 0]

Live(w) == ~exited /\ (batch => \A v \in Senders \ {w} : at[v] = "idle")

-----------------------------------------------------------------------------
(* A worker gets the next metric; the main goroutine starts a report. *)
Take(w) ==
    /\ Live(w) /\ at[w] = "idle" /\ queue # <<>>
    /\ job' = [job EXCEPT ![w] = Head(queue)] /\ queue' = Tail(queue)
    /\ at' = [at EXCEPT ![w] = "dial"] /\ try' = [try EXCEPT ![w] = 1]
    /\ read' = [read EXCEPT ![w] = FALSE]
    /\ UNCHANGED <<answer, outcome, serverVars, history, life>>

(* Mutated form of End: a report that failed is sent again later. *)
EndByRequeue(w, result) ==
    /\ outcome' = [outcome EXCEPT ![job[w]] = result]
    /\ queue' = IF result = "error" THEN Append(queue, job[w]) ELSE queue
    /\ at' = [at EXCEPT ![w] = "idle"] /\ job' = [job EXCEPT ![w] = 0]
    /\ answer' = [answer EXCEPT ![w] = "none"]
    /\ UNCHANGED <<try, read>>

(* sendMetric or sendReportInBatch returns; an error is logged. *)
End(w, result) ==
    /\ outcome' = [outcome EXCEPT ![job[w]] = result]
    /\ at' = [at EXCEPT ![w] = "idle"] /\ job' = [job EXCEPT ![w] = 0]
    /\ answer' = [answer EXCEPT ![w] = "none"]
    /\ UNCHANGED <<queue, try, read>>

(* Mutated form of Attempt: a failed attempt ends the loop. *)
AttemptOnce(w, drained) == End(w, "error")

(* Mutated form of Attempt: the schedule is counted from nought. *)
AttemptOneMore(w, drained) ==
    IF try[w] > tries THEN End(w, "error")
    ELSE /\ at' = [at EXCEPT ![w] = "sleep"]
         /\ read' = [read EXCEPT ![w] = @ \/ drained]
         /\ answer' = [answer EXCEPT ![w] = "none"]
         /\ UNCHANGED <<queue, job, try, outcome>>

(* An attempt has failed: another one after a sleep, if there is one left. *)
Attempt(w, drained) ==
    IF try[w] = tries THEN End(w, "error")
    ELSE /\ at' = [at EXCEPT ![w] = "sleep"]
         /\ read' = [read EXCEPT ![w] = @ \/ drained]
         /\ answer' = [answer EXCEPT ![w] = "none"]
         /\ UNCHANGED <<queue, job, try, outcome>>

(* Nobody listens at the server's address. *)
DialFails(w) ==
    /\ Live(w) /\ at[w] = "dial" /\ ~cancelled
    /\ Attempt(w, FALSE)
    /\ missed' = [missed EXCEPT ![job[w]] = @ + 1]
    /\ UNCHANGED <<serverVars, cut, refused, life>>

(* Mutated form of Write: each attempt starts with the whole body. *)
WriteRewound(w) ==
    /\ Live(w) /\ at[w] = "dial" /\ ~cancelled /\ up
    /\ handling' = handling \cup {[by |-> w, report |-> job[w], try |-> try[w]]}
    /\ at' = [at EXCEPT ![w] = "wait"] /\ read' = [read EXCEPT ![w] = TRUE]
    /\ UNCHANGED <<queue, job, try, answer, outcome, up, crashes, applied,
                   history, life>>

(* The whole body is written and a handler of the server has it. *)
Write(w) ==
    /\ Live(w) /\ at[w] = "dial" /\ ~cancelled /\ up /\ ~read[w]
    /\ handling' = handling \cup {[by |-> w, report |-> job[w], try |-> try[w]]}
    /\ at' = [at EXCEPT ![w] = "wait"] /\ read' = [read EXCEPT ![w] = TRUE]
    /\ UNCHANGED <<queue, job, try, answer, outcome, up, crashes, applied,
                   history, life>>

(* The connection breaks while the body is written. *)
WriteBreaks(w) ==
    /\ Live(w) /\ at[w] = "dial" /\ ~cancelled /\ ~read[w]
    /\ Attempt(w, TRUE)
    /\ cut' = cut \cup {job[w]}
    /\ UNCHANGED <<serverVars, refused, missed, life>>

(* A later attempt with an emptied body: fewer bytes than announced.  (The  *)
(* transport itself could rewind it after a failure on a connection used    *)
(* before.  It has none: the agent closes answers without reading them, so  *)
(* that each attempt dials anew.)                                           *)
NothingToWrite(w) ==
    /\ Live(w) /\ at[w] = "dial" /\ ~cancelled /\ read[w]
    /\ Attempt(w, TRUE)
    /\ UNCHANGED <<serverVars, history, life>>

(* The connection breaks before the answer is in. *)
AnswerLost(w) ==
    /\ Live(w) /\ at[w] = "wait"
    /\ Attempt(w, TRUE)
    /\ cut' = cut \cup {job[w]}
    /\ UNCHANGED <<serverVars, refused, missed, life>>

(* Mutated form of Cancelled: the request does not have the context. *)
NotCancelled(w) == FALSE

(* The context ends what is under way and what is about to begin. *)
Cancelled(w) ==
    /\ Live(w) /\ cancelled /\ at[w] \in {"dial", "wait"}
    /\ End(w, "error")
    /\ UNCHANGED <<serverVars, history, life>>

(* time.Sleep, which nothing interrupts. *)
Wake(w) ==
    /\ Live(w) /\ at[w] = "sleep"
    /\ at' = [at EXCEPT ![w] = "dial"] /\ try' = [try EXCEPT ![w] = @ + 1]
    /\ UNCHANGED <<queue, job, read, answer, outcome, serverVars, history, life>>

(* Any status but 200 is an error, and is not tried again. *)
Receive(w) ==
    /\ Live(w) /\ at[w] = "wait" /\ answer[w] # "none"
    /\ End(w, answer[w])
    /\ UNCHANGED <<serverVars, history, life>>

(* A signal; SendMetrics returns, without a word to the workers. *)
Signal ==
    /\ ~cancelled /\ cancelled' = TRUE
    /\ UNCHANGED <<sendVars, serverVars, history, tries, batch, exited>>

Exit ==
    /\ cancelled /\ ~exited
    /\ batch => \A w \in Senders : at[w] = "idle"
    /\ exited' = TRUE
    /\ UNCHANGED <<sendVars, serverVars, history, tries, batch, cancelled>>

-----------------------------------------------------------------------------
(* The answer to request h, if its sender still waits for it. *)
Answered(h, what) ==
    answer' = IF job[h.by] = h.report /\ at[h.by] = "wait" /\ try[h.by] = h.try
              THEN [answer EXCEPT ![h.by] = what] ELSE answer

(* A handler applies its report.  The client that sent it may be gone.  The *)
(* answer may be an error all the same: a backup that fails.                *)
Handle(h) ==
    /\ up /\ h \in handling
    /\ handling' = handling \ {h}
    /\ applied' = Append(applied, h.report)
    /\ \/ Answered(h, "ok") /\ UNCHANGED refused
       \/ Answered(h, "error") /\ refused' = refused \cup {h.report}
    /\ UNCHANGED <<queue, at, job, try, read, outcome, up, crashes, cut, missed, life>>

(* The chain of middleware or the handler turns the request down. *)
Refuse(h) ==
    /\ up /\ h \in handling
    /\ handling' = handling \ {h} /\ refused' = refused \cup {h.report}
    /\ Answered(h, "error")
    /\ UNCHANGED <<queue, at, job, try, read, outcome, up, crashes, applied,
                   cut, missed, life>>

Crash ==
    /\ up /\ crashes < MaxCrashes
    /\ up' = FALSE /\ crashes' = crashes + 1 /\ handling' = {}
    /\ UNCHANGED <<sendVars, applied, history, life>>

Restart ==
    /\ ~up /\ up' = TRUE
    /\ UNCHANGED <<sendVars, crashes, handling, applied, history, life>>

-----------------------------------------------------------------------------
Ends(w) == Cancelled(w) \/ Receive(w) \/ Wake(w)

Next ==
    \/ \E w \in Senders :
        \/ Take(w) \/ Ends(w) \/ DialFails(w) \/ Write(w) \/ WriteBreaks(w)
        \/ NothingToWrite(w) \/ AnswerLost(w)
    \/ \E h \in handling : Handle(h) \/ Refuse(h)
    \/ Signal \/ Exit \/ Crash \/ Restart

Spec == Init /\ [][Next]_vars

(* A goroutine that can run is run, and a sleep ends.  The network and the *)
(* server owe nothing.                                                     *)
Fairness == \A w \in Senders : WF_vars(Take(w)) /\ WF_vars(Ends(w))
FairSpec == Spec /\ Fairness

-----------------------------------------------------------------------------
(* The types of the state. *)
TypeOK ==
    /\ <<tries, batch>> \in Modes /\ {cancelled, exited, up} \subseteq BOOLEAN
    /\ queue \in Seq(Reports)
    /\ at \in [Senders -> {"idle", "dial", "wait", "sleep"}]
    /\ job \in [Senders -> 0 .. N]
    /\ \A w \in Senders : job[w] = 0 <=> at[w] = "idle"
    /\ try \in [Senders -> 0 .. tries]
    /\ read \in [Senders -> BOOLEAN]
    /\ answer \in [Senders -> {"none", "ok", "error"}]
    /\ crashes \in 0 .. MaxCrashes
    /\ handling \subseteq [by : Senders, report : Reports, try : 1 .. tries]
    /\ applied \in Seq(Reports)
    /\ outcome \in [Reports -> {"open", "ok", "error"}]
    /\ cut \subseteq Reports /\ refused \subseteq Reports
    /\ missed \in [Reports -> 0 .. tries]

(* A report is lost only if it was refused, or its connection broke after  *)
(* the first byte was written, or a signal ended it, or not one of the     *)
(* attempts found a server.  Only this last case is one that another       *)
(* attempt would have helped.                                              *)
LostOnlyIf ==
    \A r \in Reports :
        outcome[r] = "error" /\ ~cancelled /\ r \notin cut \cup refused
            => missed[r] = tries

(* A report is applied after a later one, and sets the gauge back, only if *)
(* there are several workers, or its connection broke under it or a signal *)
(* cut it off, and the server went on with what nobody waited for.         *)
Alone == batch \/ Cardinality(Senders) = 1
OrderKept ==
    [][LET r == applied'[Len(applied')]
       IN  applied' # applied /\ Alone /\ ~cancelled /\ r \notin cut
            => \A i \in DOMAIN applied : applied[i] < r]_vars

(* A signal ends every send: the context ends those the server keeps       *)
(* waiting, the others give up at their next attempt.                      *)
SignalledSendsEnd ==
    cancelled ~> (exited \/ \A w \in Senders : at[w] = "idle")

(* Retries and all, a report is applied at most once, and only reports that *)
(* were applied are taken for sent.                                        *)
AMO == INSTANCE AtMostOnce WITH
        times <- [r \in Reports |-> Cardinality({i \in DOMAIN applied : applied[i] = r})]

ImplementsAtMostOnce == AMO!Spec
=============================================================================
