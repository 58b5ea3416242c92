--------------------------- MODULE Delivery_proofs ---------------------------
(***************************************************************************)
(* However many attempts are made, for any number of senders, reports,     *)
(* attempts and crashes, a report is applied at most once, and is taken for *)
(* sent only if it was: Delivery implements AtMostOnce.  A report that is   *)
(* lost has a reason, and one sender alone keeps the order of its reports   *)
(* unless a connection breaks.                                             *)
(***************************************************************************)
EXTENDS Delivery, FiniteSetTheorems, TLAPS

InQueue(r) == \E i \in DOMAIN queue : queue[i] = r
Done(r)    == \E i \in DOMAIN applied : applied[i] = r

Types ==
    /\ queue \in Seq(Reports) /\ applied \in Seq(Reports)
    /\ at \in [Senders -> {"idle", "dial", "wait", "sleep"}]
    /\ job \in [Senders -> 0 .. N]
    /\ \A w \in Senders : job[w] = 0 <=> at[w] = "idle"
    /\ read \in [Senders -> BOOLEAN]
    /\ answer \in [Senders -> {"none", "ok", "error"}]
    /\ outcome \in [Reports -> {"open", "ok", "error"}]
    /\ handling \subseteq [by : Senders, report : Reports, try : Nat]
    /\ try \in [Senders -> Nat]

(* A report is waiting once, or with one sender. *)
OneSender ==
    /\ \A i, j \in DOMAIN queue : queue[i] = queue[j] => i = j
    /\ \A r \in Reports : InQueue(r) => outcome[r] = "open"
    /\ \A w \in Senders : job[w] # 0 => ~InQueue(job[w]) /\ outcome[job[w]] = "open"
    /\ \A v, w \in Senders : job[v] = job[w] /\ job[w] # 0 => v = w

(* It is with one handler or applied once, and whoever still sends it has  *)
(* no body left to send.                                                   *)
OneHandler ==
    /\ \A h \in handling : ~InQueue(h.report) /\ ~Done(h.report)
    /\ \A g, h \in handling : g.report = h.report => g = h
    /\ \A h \in handling : \A w \in Senders : job[w] = h.report => read[w]
    /\ \A r \in Reports : Done(r) =>
            ~InQueue(r) /\ \A w \in Senders : job[w] = r => read[w]
    /\ \A i, j \in DOMAIN applied : applied[i] = applied[j] => i = j

(* A good answer is the answer of a handler that has applied the report. *)
OkIsDone == \A w \in Senders : answer[w] = "ok" => job[w] # 0 /\ Done(job[w])

OnceInv == Types /\ OneSender /\ OneHandler /\ OkIsDone

LEMMA JobIsReport ==
  ASSUME Types, NEW w \in Senders, at[w] # "idle"
  PROVE  job[w] \in Reports
  BY NAssumption DEF Types, Reports

LEMMA InitOnceInv == Init => OnceInv
<1> SUFFICES ASSUME Init PROVE OnceInv
  OBVIOUS
<1>1. queue \in Seq(Reports) /\ DOMAIN queue = Reports /\ \A r \in Reports : queue[r] = r
  BY NAssumption DEF Init, Reports
<1>2. applied \in Seq(Reports) /\ \A r : ~Done(r)
  BY DEF Init, Done
<1>3. Types
  BY <1>1, <1>2, NAssumption DEF Init, Types
<1>4. OneSender
  BY <1>1 DEF Init, OneSender, InQueue
<1>5. OneHandler /\ OkIsDone
  BY <1>2 DEF Init, OneHandler, OkIsDone
<1> QED
  BY <1>3, <1>4, <1>5 DEF OnceInv

(* The head of the queue is with no sender, with no handler, and not done. *)
LEMMA TakeStep ==
  ASSUME OnceInv, NEW w \in Senders, Take(w)
  PROVE  OnceInv'
<1> DEFINE r == queue[1]
<1> USE DEF OnceInv
<1>1. /\ queue \in Seq(Reports) /\ queue # <<>> /\ r \in Reports
      /\ Head(queue) = r
      /\ Tail(queue) \in Seq(Reports) /\ DOMAIN queue = 1 .. Len(queue)
      /\ DOMAIN Tail(queue) = 1 .. Len(queue) - 1
      /\ \A i \in 1 .. Len(queue) - 1 : Tail(queue)[i] = queue[i + 1]
      /\ Len(queue) \in Nat /\ 1 \in DOMAIN queue
  BY DEF Take, Types
<1>2. InQueue(r) /\ job[w] = 0
  BY <1>1 DEF InQueue, Take, Types
<1>3. job' = [job EXCEPT ![w] = r] /\ queue' = Tail(queue)
  BY <1>1 DEF Take
<1>4. \A s : InQueue(s)' => InQueue(s) /\ s # r
  <2> SUFFICES ASSUME NEW i \in DOMAIN Tail(queue)
               PROVE  InQueue(Tail(queue)[i]) /\ Tail(queue)[i] # r
    BY <1>3 DEF InQueue
  <2>1. i + 1 \in DOMAIN queue /\ Tail(queue)[i] = queue[i + 1] /\ i + 1 # 1
    BY <1>1
  <2> QED
    BY <1>1, <2>1 DEF InQueue, OneSender
<1>5. \A s : Done(s)' <=> Done(s)
  BY DEF Take, serverVars, Done
<1>6. Types'
  BY <1>1, <1>3, NAssumption DEF Types, Take, serverVars, Reports
<1>7. OneSender'
  <2>1. \A i, j \in DOMAIN queue' : queue'[i] = queue'[j] => i = j
    <3> SUFFICES ASSUME NEW i \in 1 .. Len(queue) - 1, NEW j \in 1 .. Len(queue) - 1,
                        queue[i + 1] = queue[j + 1]
                 PROVE  i = j
      <4>1. DOMAIN queue' = 1 .. Len(queue) - 1
        BY <1>1, <1>3
      <4>2. \A k \in 1 .. Len(queue) - 1 : queue'[k] = queue[k + 1]
        BY <1>1, <1>3
      <4> QED
        BY <4>1, <4>2
    <3>1. i + 1 \in DOMAIN queue /\ j + 1 \in DOMAIN queue
      BY <1>1
    <3>2. i + 1 = j + 1
      BY <3>1 DEF OneSender
    <3> QED
      BY <1>1, <3>2
  <2>2. \A s \in Reports : InQueue(s)' => outcome'[s] = "open"
    BY <1>4 DEF OneSender, Take
  <2>3. \A v \in Senders : job'[v] # 0 =>
            ~(\E i \in DOMAIN queue' : queue'[i] = job'[v]) /\ outcome'[job'[v]] = "open"
    <3> SUFFICES ASSUME NEW v \in Senders, job'[v] # 0
                 PROVE  /\ ~(\E i \in DOMAIN queue' : queue'[i] = job'[v])
                        /\ outcome'[job'[v]] = "open"
      OBVIOUS
    <3>1. CASE v = w
      <4>1. job'[v] = r /\ outcome' = outcome
        BY <1>3, <3>1 DEF Take, Types
      <4> QED
        BY <1>1, <1>2, <1>4, <4>1 DEF OneSender, InQueue
    <3>2. CASE v # w
      <4>1. job'[v] = job[v] /\ outcome' = outcome
        BY <1>3, <3>2 DEF Take, Types
      <4> QED
        BY <1>4, <4>1 DEF OneSender, InQueue
    <3> QED
      BY <3>1, <3>2
  <2>4. \A u, v \in Senders : job'[u] = job'[v] /\ job'[v] # 0 => u = v
    BY <1>1, <1>2, <1>3, NAssumption DEF OneSender, Types, Reports
  <2> QED
    BY <2>1, <2>2, <2>3, <2>4 DEF OneSender, InQueue
<1>8. OneHandler'
  <2>1. UNCHANGED <<handling, applied>>
    BY DEF Take, serverVars
  <2>2. ~Done(r) /\ \A h \in handling : h.report # r
    BY <1>1, <1>2 DEF OneHandler
  <2>3. \A v \in Senders : v # w => read'[v] = read[v] /\ job'[v] = job[v]
    BY <1>3 DEF Take, Types
  <2>4. job'[w] = r
    BY <1>3 DEF Types
  <2> QED
    BY <1>4, <1>5, <2>1, <2>2, <2>3, <2>4 DEF OneHandler
<1>9. OkIsDone'
  BY <1>2, <1>3, <1>5 DEF OkIsDone, Take, Types
<1> QED
  BY <1>6, <1>7, <1>8, <1>9

(* The end of a report for its sender: nobody has it any more. *)
LEMMA EndStep ==
  ASSUME OnceInv, NEW w \in Senders, at[w] # "idle", NEW result \in {"ok", "error"},
         End(w, result), UNCHANGED <<handling, applied>>
  PROVE  OnceInv'
<1> USE DEF OnceInv
<1>1. job[w] \in Reports
  BY JobIsReport
<1>2. \A s : (InQueue(s)' <=> InQueue(s)) /\ (Done(s)' <=> Done(s))
  BY DEF End, InQueue, Done
<1>3. \A v \in Senders : v # w => job'[v] = job[v] /\ answer'[v] = answer[v]
  BY DEF End, Types
<1>4. job'[w] = 0 /\ answer'[w] = "none"
  BY DEF End, Types
<1>5. Types'
  BY <1>1, NAssumption DEF Types, End
<1>6. OneSender'
  <2>1. \A s \in Reports : s # job[w] => outcome'[s] = outcome[s]
    BY DEF End, Types
  <2>2. \A v \in Senders : v # w /\ job[v] # 0 => job[v] # job[w] /\ job[v] \in Reports
    BY NAssumption, <1>1 DEF OneSender, Types, Reports
  <2>3. ~InQueue(job[w]) /\ UNCHANGED queue
    BY <1>1, NAssumption DEF OneSender, End, Reports
  <2> QED
    BY <1>2, <1>3, <1>4, <2>1, <2>2, <2>3 DEF OneSender
<1>7. OneHandler'
  <2>1. \A h \in handling : h.report # 0
    BY NAssumption DEF Types, Reports
  <2>2. UNCHANGED read /\ 0 \notin Reports
    BY NAssumption DEF End, Reports
  <2> QED
    BY <1>2, <1>3, <1>4, <2>1, <2>2 DEF OneHandler
<1>8. OkIsDone'
  BY <1>2, <1>3, <1>4 DEF OkIsDone
<1> QED
  BY <1>5, <1>6, <1>7, <1>8

(* A step of a sender that keeps its report: it may find its body read, it  *)
(* loses no answer it had to keep, and the server does nothing.            *)
LEMMA StayStep ==
  ASSUME OnceInv, NEW w \in Senders, Types', UNCHANGED <<queue, job, outcome, handling, applied>>,
         \A v \in Senders : read[v] => read'[v],
         \A v \in Senders : answer'[v] = "ok" => answer[v] = "ok"
  PROVE  OnceInv'
<1>1. \A s : (InQueue(s)' <=> InQueue(s)) /\ (Done(s)' <=> Done(s))
  BY DEF InQueue, Done
<1>2. OneSender'
  BY <1>1 DEF OnceInv, OneSender
<1>3. OneHandler'
  BY <1>1 DEF OnceInv, OneHandler
<1>4. OkIsDone'
  BY <1>1 DEF OnceInv, OkIsDone
<1> QED
  BY <1>2, <1>3, <1>4 DEF OnceInv

LEMMA AttemptStep ==
  ASSUME OnceInv, NEW w \in Senders, at[w] # "idle", NEW drained \in BOOLEAN,
         Attempt(w, drained), UNCHANGED <<handling, applied>>
  PROVE  OnceInv'
<1>1. CASE try[w] = tries
  BY <1>1, EndStep DEF Attempt
<1>2. CASE try[w] # tries
  <2>1. /\ at' = [at EXCEPT ![w] = "sleep"]
        /\ read' = [read EXCEPT ![w] = @ \/ drained]
        /\ answer' = [answer EXCEPT ![w] = "none"]
        /\ UNCHANGED <<queue, job, try, outcome>>
    BY <1>2 DEF Attempt
  <2>2. Types'
    BY <2>1 DEF OnceInv, Types
  <2>3. \A v \in Senders : read[v] => read'[v]
    BY <2>1 DEF OnceInv, Types
  <2>4. \A v \in Senders : answer'[v] = "ok" => answer[v] = "ok"
    BY <2>1 DEF OnceInv, Types
  <2> QED
    BY <2>1, <2>2, <2>3, <2>4, StayStep
<1> QED
  BY <1>1, <1>2

(* The request that is written now is the first to carry its report. *)
LEMMA WriteStep ==
  ASSUME OnceInv, NEW w \in Senders, Write(w)
  PROVE  OnceInv'
<1> DEFINE h == [by |-> w, report |-> job[w], try |-> try[w]]
<1> USE DEF OnceInv
<1>1. job[w] \in Reports /\ at[w] = "dial" /\ ~read[w]
  BY JobIsReport DEF Write
<1>2. handling' = handling \cup {h} /\ read' = [read EXCEPT ![w] = TRUE]
      /\ UNCHANGED <<queue, job, outcome, answer, applied>>
  BY DEF Write
<1>3. \A s : (InQueue(s)' <=> InQueue(s)) /\ (Done(s)' <=> Done(s))
  BY <1>2 DEF InQueue, Done
<1>4. ~Done(job[w]) /\ ~InQueue(job[w]) /\ \A g \in handling : g.report # job[w]
  BY <1>1, NAssumption DEF OneHandler, OneSender, Reports
<1>5. Types'
  BY <1>1 DEF Types, Write
<1>6. \A v \in Senders : (read[v] => read'[v]) /\ (job[v] = job[w] => read'[v])
  BY <1>1, <1>2, NAssumption DEF Types, OneSender, Reports
<1>7. OneHandler'
  BY <1>2, <1>3, <1>4, <1>6 DEF OneHandler
<1>8. OneSender' /\ OkIsDone'
  BY <1>2, <1>3 DEF OneSender, OkIsDone
<1> QED
  BY <1>5, <1>7, <1>8

(* What a handler's answer may do to the senders. *)
LEMMA AnsweredFacts ==
  ASSUME Types, NEW h \in handling, NEW what \in {"ok", "error"}, Answered(h, what)
  PROVE  /\ answer' \in [Senders -> {"none", "ok", "error"}]
         /\ \A v \in Senders : answer'[v] = "ok" =>
                answer[v] = "ok" \/ (what = "ok" /\ job[v] = h.report)
  BY DEF Answered, Types

LEMMA HandleStep ==
  ASSUME OnceInv, NEW h \in handling, Handle(h)
  PROVE  OnceInv'
<1> USE DEF OnceInv
<1>1. PICK what \in {"ok", "error"} : Answered(h, what)
  BY DEF Handle
<1>2. h.report \in Reports /\ applied \in Seq(Reports) /\ Len(applied) \in Nat
  BY DEF Types
<1>3. /\ applied' = Append(applied, h.report) /\ handling' = handling \ {h}
      /\ UNCHANGED <<queue, at, job, try, read, outcome>>
  BY DEF Handle
<1>4. /\ DOMAIN applied = 1 .. Len(applied) /\ DOMAIN applied' = 1 .. Len(applied) + 1
      /\ applied'[Len(applied) + 1] = h.report
      /\ \A i \in DOMAIN applied : applied'[i] = applied[i]
  BY <1>2, <1>3
<1>5. \A s : Done(s)' <=> Done(s) \/ s = h.report
  BY <1>2, <1>4 DEF Done
<1>6. \A s : InQueue(s)' <=> InQueue(s)
  BY <1>3 DEF InQueue
<1>7. Types'
  <2>1. applied' \in Seq(Reports)
    BY <1>2, <1>3
  <2> QED
    BY <1>1, <1>3, <2>1, AnsweredFacts DEF Types
<1>8. OneSender'
  BY <1>3, <1>6 DEF OneSender
<1>9. OneHandler'
  <2>1. \A i, j \in DOMAIN applied' : applied'[i] = applied'[j] => i = j
    <3>1. \A i \in DOMAIN applied : applied[i] # h.report
      BY DEF OneHandler, Done
    <3> QED
      BY <1>2, <1>4, <3>1 DEF OneHandler
  <2>2. \A g \in handling' : g \in handling /\ g.report # h.report
    BY <1>3 DEF OneHandler
  <2>3. \A g \in handling' : ~InQueue(g.report)' /\ ~Done(g.report)'
    BY <1>5, <1>6, <2>2 DEF OneHandler
  <2>4. \A r \in Reports : Done(r)' =>
            ~InQueue(r)' /\ \A w \in Senders : job'[w] = r => read'[w]
    BY <1>3, <1>5, <1>6 DEF OneHandler
  <2> QED
    BY <1>3, <2>1, <2>2, <2>3, <2>4 DEF OneHandler
<1>10. OkIsDone'
  <2>1. h.report # 0
    BY <1>2, NAssumption DEF Reports
  <2> QED
    BY <1>1, <1>3, <1>5, <2>1, AnsweredFacts DEF OkIsDone
<1> QED
  BY <1>7, <1>8, <1>9, <1>10

(* A handler that refuses, a crash, a restart: at most there are fewer     *)
(* handlers.                                                               *)
LEMMA ServerStep ==
  ASSUME OnceInv, Crash \/ Restart \/ \E h \in handling : Refuse(h)
  PROVE  OnceInv'
<1> USE DEF OnceInv
<1>1. /\ UNCHANGED <<queue, at, job, try, read, outcome, applied>>
      /\ handling' \subseteq handling
  BY DEF Crash, Restart, Refuse, sendVars
<1>2. /\ answer' \in [Senders -> {"none", "ok", "error"}]
      /\ \A v \in Senders : answer'[v] = "ok" => answer[v] = "ok"
  BY AnsweredFacts DEF Crash, Restart, Refuse, sendVars, Types
<1>3. \A s : (InQueue(s)' <=> InQueue(s)) /\ (Done(s)' <=> Done(s))
  BY <1>1 DEF InQueue, Done
<1>4. Types'
  BY <1>1, <1>2 DEF Types
<1>5. OneSender'
  BY <1>1, <1>3 DEF OneSender
<1>6. OneHandler'
  BY <1>1, <1>3 DEF OneHandler
<1>7. OkIsDone'
  BY <1>1, <1>2, <1>3 DEF OkIsDone
<1> QED
  BY <1>4, <1>5, <1>6, <1>7

LEMMA NextOnceInv == OnceInv /\ [Next]_vars => OnceInv'
<1> SUFFICES ASSUME OnceInv, [Next]_vars PROVE OnceInv'
  OBVIOUS
<1>1. ASSUME NEW w \in Senders, Take(w) PROVE OnceInv'
  BY <1>1, TakeStep
<1>2. ASSUME NEW w \in Senders, Ends(w) PROVE OnceInv'
  <2>1. CASE Cancelled(w)
    BY <2>1, EndStep DEF Cancelled, serverVars
  <2>2. CASE Receive(w)
    <3>1. answer[w] \in {"ok", "error"}
      BY <2>2 DEF Receive, OnceInv, Types
    <3> QED
      BY <2>2, <3>1, EndStep DEF Receive, serverVars
  <2>3. CASE Wake(w)
    <3>1. Types'
      BY <2>3 DEF Wake, serverVars, OnceInv, Types
    <3> QED
      BY <2>3, <3>1, StayStep DEF Wake, serverVars
  <2> QED
    BY <1>2, <2>1, <2>2, <2>3 DEF Ends
<1>3. ASSUME NEW w \in Senders,
             DialFails(w) \/ WriteBreaks(w) \/ NothingToWrite(w) \/ AnswerLost(w)
      PROVE  OnceInv'
  <2>1. at[w] # "idle" /\ UNCHANGED <<handling, applied>>
    BY <1>3 DEF DialFails, WriteBreaks, NothingToWrite, AnswerLost, serverVars
  <2>2. Attempt(w, FALSE) \/ Attempt(w, TRUE)
    BY <1>3 DEF DialFails, WriteBreaks, NothingToWrite, AnswerLost
  <2> QED
    BY <2>1, <2>2, AttemptStep
<1>4. ASSUME NEW w \in Senders, Write(w) PROVE OnceInv'
  BY <1>4, WriteStep
<1>5. ASSUME NEW h \in handling, Handle(h) PROVE OnceInv'
  BY <1>5, HandleStep
<1>6. CASE Crash \/ Restart \/ \E h \in handling : Refuse(h)
  BY <1>6, ServerStep
<1>7. CASE Signal \/ Exit \/ UNCHANGED vars
  <2>1. UNCHANGED <<queue, at, job, try, read, answer, outcome, handling, applied>>
    BY <1>7 DEF Signal, Exit, vars, sendVars, serverVars
  <2> QED
    BY <2>1 DEF OnceInv, Types, OneSender, OneHandler, OkIsDone, InQueue, Done
<1> QED
  BY <1>1, <1>2, <1>3, <1>4, <1>5, <1>6, <1>7 DEF Next

-----------------------------------------------------------------------------
(* The refinement: times[r] is 1 once a handler has applied r. *)
Times == [r \in Reports |-> Cardinality({i \in DOMAIN applied : applied[i] = r})]

LEMMA TimesIsDone == OnceInv => \A r \in Reports : Times[r] = IF Done(r) THEN 1 ELSE 0
<1> SUFFICES ASSUME OnceInv, NEW r \in Reports
             PROVE  Times[r] = IF Done(r) THEN 1 ELSE 0
  OBVIOUS
<1> DEFINE P == {i \in DOMAIN applied : applied[i] = r}
<1>1. Times[r] = Cardinality(P)
  BY DEF Times
<1>2. CASE Done(r)
  <2>1. PICK i \in DOMAIN applied : applied[i] = r
    BY <1>2 DEF Done
  <2>2. P = {i}
    BY <2>1 DEF OnceInv, OneHandler
  <2> QED
    BY <1>1, <1>2, <2>2, FS_Singleton
<1>3. CASE ~Done(r)
  <2>1. P = {}
    BY <1>3 DEF Done
  <2> QED
    BY <1>1, <1>3, <2>1, FS_EmptySet
<1> QED
  BY <1>2, <1>3

LEMMA InitMaps == Init => AMO!Init
<1> SUFFICES ASSUME Init PROVE AMO!Init
  OBVIOUS
<1>1. \A r \in Reports : {i \in DOMAIN applied : applied[i] = r} = {}
  BY DEF Init
<1> QED
  BY <1>1, FS_EmptySet DEF Init, AMO!Init

(* The end of a report is the end of it above; one that ends well is done. *)
LEMMA EndMaps ==
  ASSUME OnceInv, NEW w \in Senders, at[w] # "idle", NEW result \in {"ok", "error"},
         End(w, result), result = "ok" => answer[w] = "ok", UNCHANGED applied
  PROVE  AMO!Next
<1>1. job[w] \in Reports /\ outcome[job[w]] = "open"
  BY JobIsReport, NAssumption DEF OnceInv, OneSender, Reports
<1>2. outcome' = [outcome EXCEPT ![job[w]] = result] /\ UNCHANGED Times
  BY DEF End, Times
<1>3. CASE result = "ok"
  <2>1. Times[job[w]] = 1
    BY <1>1, <1>3, TimesIsDone DEF OnceInv, OkIsDone
  <2>2. AMO!Succeed(job[w])
    BY <1>1, <1>2, <1>3, <2>1 DEF AMO!Succeed, Times
  <2> QED
    BY <1>1, <2>2 DEF AMO!Next
<1>4. CASE result = "error"
  <2>1. AMO!Fail(job[w])
    BY <1>1, <1>2, <1>4 DEF AMO!Fail, Times
  <2> QED
    BY <1>1, <2>1 DEF AMO!Next
<1> QED
  BY <1>3, <1>4

LEMMA HandleMaps ==
  ASSUME OnceInv, OnceInv', NEW h \in handling, Handle(h)
  PROVE  AMO!Next
<1>1. h.report \in Reports /\ applied \in Seq(Reports) /\ ~Done(h.report)
  BY DEF OnceInv, Types, OneHandler
<1>2. applied' = Append(applied, h.report) /\ UNCHANGED outcome
  BY DEF Handle
<1>3. \A s : Done(s)' <=> Done(s) \/ s = h.report
  BY <1>1, <1>2 DEF Done
<1>4. (\A r \in Reports : Times[r] = IF Done(r) THEN 1 ELSE 0)'
  BY TimesIsDone, PTL
<1>5. Times' = [Times EXCEPT ![h.report] = 1]
  <2>1. \A r \in Reports : Times[r] = IF Done(r) THEN 1 ELSE 0
    BY TimesIsDone
  <2>2. \A r \in Reports : Times'[r] = [Times EXCEPT ![h.report] = 1][r]
    BY <1>1, <1>3, <1>4, <2>1 DEF Times
  <2> QED
    BY <2>2 DEF Times
<1>6. Times[h.report] = 0
  BY <1>1, TimesIsDone
<1>7. AMO!Apply(h.report)
  BY <1>2, <1>5, <1>6 DEF AMO!Apply, Times
<1> QED
  BY <1>1, <1>7 DEF AMO!Next

LEMMA NextMaps ==
  OnceInv /\ OnceInv' /\ [Next]_vars => [AMO!Next]_<<Times, outcome>>
<1> SUFFICES ASSUME OnceInv, OnceInv', [Next]_vars
             PROVE  AMO!Next \/ UNCHANGED <<Times, outcome>>
  OBVIOUS
<1>1. ASSUME NEW w \in Senders, Cancelled(w) PROVE AMO!Next
  BY <1>1, EndMaps DEF Cancelled, serverVars
<1>2. ASSUME NEW w \in Senders, Receive(w) PROVE AMO!Next
  <2>1. answer[w] \in {"ok", "error"}
    BY <1>2 DEF Receive, OnceInv, Types
  <2> QED
    BY <1>2, <2>1, EndMaps DEF Receive, serverVars
<1>3. ASSUME NEW w \in Senders,
             DialFails(w) \/ WriteBreaks(w) \/ NothingToWrite(w) \/ AnswerLost(w)
      PROVE  AMO!Next \/ UNCHANGED <<Times, outcome>>
  <2>1. at[w] # "idle" /\ UNCHANGED applied
    BY <1>3 DEF DialFails, WriteBreaks, NothingToWrite, AnswerLost, serverVars
  <2>2. PICK drained \in BOOLEAN : Attempt(w, drained)
    BY <1>3 DEF DialFails, WriteBreaks, NothingToWrite, AnswerLost
  <2>3. CASE End(w, "error")
    BY <2>1, <2>3, EndMaps
  <2>4. CASE UNCHANGED outcome
    BY <2>1, <2>4 DEF Times
  <2> QED
    BY <2>2, <2>3, <2>4 DEF Attempt
<1>4. ASSUME NEW h \in handling, Handle(h) PROVE AMO!Next
  BY <1>4, HandleMaps
<1>5. ASSUME NEW w \in Senders, Take(w) \/ Wake(w) \/ Write(w)
      PROVE  UNCHANGED <<Times, outcome>>
  BY <1>5 DEF Take, Wake, Write, serverVars, Times
<1>6. CASE \/ Crash \/ Restart \/ (\E h \in handling : Refuse(h))
           \/ Signal \/ Exit \/ UNCHANGED vars
  BY <1>6 DEF Crash, Restart, Refuse, Signal, Exit, vars, sendVars, serverVars, Times
<1> QED
  BY <1>1, <1>2, <1>3, <1>4, <1>5, <1>6 DEF Next, Ends

(* Retries, lost answers, crashes and all, no report is applied twice, and  *)
(* the agent takes a report for sent only if the server has applied it: the *)
(* senders of agent/send.go implement AtMostOnce.                          *)
THEOREM DeliveryImplementsAtMostOnce == Spec => ImplementsAtMostOnce
<1>1. Init => AMO!Init
  BY InitMaps
<1>2. OnceInv /\ OnceInv' /\ [Next]_vars => [AMO!Next]_<<Times, outcome>>
  BY NextMaps
<1>3. Spec => []OnceInv
  BY InitOnceInv, NextOnceInv, PTL DEF Spec
<1> QED
  BY <1>1, <1>2, <1>3, PTL DEF Spec, ImplementsAtMostOnce, AMO!Spec, Times

-----------------------------------------------------------------------------
(* The rest of the types, and what the sender's place says of its attempts. *)
MoreTypes ==
    /\ <<tries, batch>> \in Modes /\ {cancelled, exited, up} \subseteq BOOLEAN
    /\ crashes \in 0 .. MaxCrashes
    /\ \A h \in handling : h.try \in 1 .. tries
    /\ cut \subseteq Reports /\ refused \subseteq Reports
    /\ missed \in [Reports -> Nat]

(* The attempts of a report: those its sender has made, and how many of     *)
(* them found no server.                                                   *)
Failed(w) == IF at[w] = "sleep" THEN try[w] ELSE try[w] - 1

Budget ==
    /\ \A w \in Senders : try[w] <= tries
    /\ \A w \in Senders : at[w] # "idle" =>
        /\ try[w] >= 1 /\ (at[w] = "sleep" => try[w] < tries)
        /\ missed[job[w]] <= Failed(w)
    /\ \A r \in Reports : missed[r] <= tries
    /\ \A r \in Reports : InQueue(r) => missed[r] = 0

(* A report whose connection did not break has missed the server in every  *)
(* attempt that is over, and still has its body while it has no answer.     *)
UncutMissed ==
    /\ \A w \in Senders : at[w] # "idle" /\ job[w] \notin cut =>
        /\ missed[job[w]] = Failed(w)
        /\ read[w] => at[w] = "wait"
    /\ \A w \in Senders : answer[w] # "none" => at[w] = "wait"
    /\ \A w \in Senders : answer[w] = "error" => job[w] \in refused

LossInv == OnceInv /\ MoreTypes /\ Budget /\ UncutMissed /\ LostOnlyIf

(* The reports are taken in order, *)
Taken == N - Len(queue)
InOrder ==
    /\ Len(queue) <= N
    /\ \A i \in DOMAIN queue : queue[i] = Taken + i
    /\ \A w \in Senders : job[w] <= Taken
    /\ \A h \in handling : h.report <= Taken
    /\ \A i \in DOMAIN applied : applied[i] <= Taken

(* a lone sender has the last of them, *)
LoneSender == Alone => \A w \in Senders : job[w] # 0 => job[w] = Taken

(* and waits for its answer while a handler has it. *)
SenderWaits ==
    /\ \A h \in handling : ~cancelled /\ h.report \notin cut =>
        at[h.by] = "wait" /\ job[h.by] = h.report
    /\ \A w \in Senders : answer[w] # "none" => \A h \in handling : h.report # job[w]

OrderInv == LossInv /\ InOrder /\ LoneSender /\ SenderWaits

-----------------------------------------------------------------------------
LEMMA TriesType == MoreTypes => tries \in Nat \ {0}
<1> SUFFICES ASSUME MoreTypes PROVE tries \in Nat \ {0}
  OBVIOUS
<1>1. PICK m \in Modes : <<tries, batch>> = m
  BY DEF MoreTypes
<1>2. m[1] \in {Tries, 1} /\ tries = m[1]
  BY <1>1 DEF Modes
<1> QED
  BY <1>2, TriesAssumption

LEMMA LossTypes == LossInv => TypeOK
<1> SUFFICES ASSUME LossInv PROVE TypeOK
  OBVIOUS
<1> USE DEF LossInv, OnceInv
<1>1. try \in [Senders -> 0 .. tries] /\ missed \in [Reports -> 0 .. tries]
  BY TriesType DEF Types, MoreTypes, Budget
<1>2. handling \subseteq [by : Senders, report : Reports, try : 1 .. tries]
  BY DEF Types, MoreTypes
<1> QED
  BY <1>1, <1>2 DEF Types, MoreTypes, TypeOK

LEMMA InitLossInv == Init => LossInv
<1> SUFFICES ASSUME Init PROVE LossInv
  OBVIOUS
<1>1. OnceInv
  BY InitOnceInv
<1>2. MoreTypes
  <2>1. PICK m \in Modes : tries = m[1] /\ batch = m[2]
    BY DEF Init
  <2>2. <<tries, batch>> \in Modes /\ batch \in BOOLEAN
    <3>1. CASE m = <<Tries, FALSE>>
      BY <2>1, <3>1 DEF Modes
    <3>2. CASE m = <<Tries, TRUE>>
      BY <2>1, <3>2 DEF Modes
    <3>3. CASE m = <<1, TRUE>>
      BY <2>1, <3>3 DEF Modes
    <3> QED
      BY <3>1, <3>2, <3>3 DEF Modes
  <2>3. {cancelled, exited, up} \subseteq BOOLEAN /\ crashes \in 0 .. MaxCrashes
    <3>1. cancelled \in BOOLEAN /\ exited \in BOOLEAN /\ up \in BOOLEAN
      BY DEF Init
    <3>2. crashes \in 0 .. MaxCrashes
      BY CrashAssumption DEF Init
    <3> QED
      BY <3>1, <3>2
  <2>4. (\A h \in handling : h.try \in 1 .. tries) /\ missed \in [Reports -> Nat]
        /\ cut \subseteq Reports /\ refused \subseteq Reports
    BY DEF Init
  <2> QED
    BY <2>2, <2>3, <2>4 DEF MoreTypes
<1>3. tries \in Nat
  BY <1>2, TriesType
<1> QED
  BY <1>1, <1>2, <1>3 DEF Init, LossInv, Budget, UncutMissed, LostOnlyIf

(* What the invariant says of the sender that moves, and of the others. *)
LEMMA SenderFacts ==
  ASSUME LossInv, NEW w \in Senders, at[w] # "idle"
  PROVE  /\ job[w] \in Reports /\ ~InQueue(job[w]) /\ outcome[job[w]] = "open"
         /\ \A v \in Senders : v # w /\ at[v] # "idle" => job[v] \in Reports /\ job[v] # job[w]
         /\ try[w] \in Nat /\ tries \in Nat /\ missed[job[w]] \in Nat
         /\ 1 <= try[w] /\ try[w] <= tries
<1>1. job[w] \in Reports /\ job[w] # 0
  BY JobIsReport, NAssumption DEF LossInv, OnceInv, Reports
<1>2. \A v \in Senders : v # w /\ at[v] # "idle" => job[v] \in Reports /\ job[v] # job[w]
  BY <1>1, JobIsReport DEF LossInv, OnceInv, OneSender
<1> QED
  BY <1>1, <1>2, TriesType DEF LossInv, OnceInv, OneSender, Types, MoreTypes, Budget

(* A report that is taken has made no attempt, and broken no connection of *)
(* its sender's.                                                           *)
LEMMA TakeLoss ==
  ASSUME LossInv, NEW w \in Senders, Take(w)
  PROVE  LossInv'
<1> USE DEF LossInv
<1>1. OnceInv'
  BY TakeStep
<1>2. MoreTypes' /\ LostOnlyIf'
  BY DEF Take, serverVars, history, life, MoreTypes, LostOnlyIf
<1>3. PICK r \in Reports : r = Head(queue) /\ InQueue(r) /\ missed[r] = 0
  <2>1. queue \in Seq(Reports) /\ queue # <<>>
    BY DEF Take, OnceInv, Types
  <2>2. Head(queue) = queue[1] /\ 1 \in DOMAIN queue /\ queue[1] \in Reports
    BY <2>1
  <2> QED
    BY <2>2 DEF InQueue, Budget
<1>4. /\ at' = [at EXCEPT ![w] = "dial"] /\ job' = [job EXCEPT ![w] = r]
      /\ try' = [try EXCEPT ![w] = 1] /\ read' = [read EXCEPT ![w] = FALSE]
      /\ UNCHANGED <<answer, cut, refused, missed, tries, handling>>
      /\ queue' = Tail(queue) /\ at[w] = "idle"
  BY <1>3 DEF Take, serverVars, history, life
<1>5. \A s : InQueue(s)' => InQueue(s)
  <2>1. queue \in Seq(Reports) /\ queue # <<>>
    BY DEF Take, OnceInv, Types
  <2>2. \A i \in DOMAIN Tail(queue) : i + 1 \in DOMAIN queue /\ Tail(queue)[i] = queue[i + 1]
    BY <2>1
  <2> QED
    BY <1>4, <2>2 DEF InQueue
<1>6. /\ at \in [Senders -> {"idle", "dial", "wait", "sleep"}]
      /\ job \in [Senders -> 0 .. N] /\ try \in [Senders -> Nat]
      /\ read \in [Senders -> BOOLEAN] /\ tries \in Nat /\ tries >= 1
  BY TriesType DEF OnceInv, Types
<1>7. Budget'
  BY <1>3, <1>4, <1>5, <1>6 DEF Budget, Failed
<1>8. UncutMissed'
  BY <1>3, <1>4, <1>6 DEF UncutMissed, Failed
<1> QED
  BY <1>1, <1>2, <1>7, <1>8

(* The end of a report that was refused, or is cancelled. *)
LEMMA EndLoss ==
  ASSUME LossInv, OnceInv', NEW w \in Senders, at[w] # "idle",
         NEW result \in {"ok", "error"}, End(w, result),
         UNCHANGED <<serverVars, history, life>>,
         result = "error" => cancelled \/ job[w] \in refused
  PROVE  LossInv'
<1> USE DEF LossInv
<1>1. MoreTypes'
  BY DEF serverVars, history, life, MoreTypes
<1>2. /\ at' = [at EXCEPT ![w] = "idle"] /\ job' = [job EXCEPT ![w] = 0]
      /\ answer' = [answer EXCEPT ![w] = "none"]
      /\ outcome' = [outcome EXCEPT ![job[w]] = result]
      /\ UNCHANGED <<queue, try, read, cut, refused, missed, tries, cancelled>>
  BY DEF End, history, life
<1>3. /\ at \in [Senders -> {"idle", "dial", "wait", "sleep"}]
      /\ job \in [Senders -> 0 .. N] /\ answer \in [Senders -> {"none", "ok", "error"}]
      /\ outcome \in [Reports -> {"open", "ok", "error"}]
  BY DEF OnceInv, Types
<1>4. Budget'
  BY <1>2, <1>3 DEF Budget, Failed, InQueue
<1>5. UncutMissed'
  BY <1>2, <1>3 DEF UncutMissed, Failed
<1>6. LostOnlyIf'
  BY <1>2, <1>3, SenderFacts DEF LostOnlyIf
<1> QED
  BY <1>1, <1>4, <1>5, <1>6

(* An attempt that fails is counted when it found no server; one that broke  *)
(* its connection, or has no body left, is one of a report that was cut.    *)
LEMMA AttemptLoss ==
  ASSUME LossInv, OnceInv', NEW w \in Senders, at[w] # "idle", NEW drained \in BOOLEAN,
         Attempt(w, drained), UNCHANGED <<serverVars, refused, life>>,
         cut \subseteq cut', cut' \subseteq cut \cup {job[w]},
         NEW m \in Nat, missed' = [missed EXCEPT ![job[w]] = m], m <= try[w],
         job[w] \notin cut' => m = try[w] /\ ~drained /\ ~read[w]
  PROVE  LossInv'
<1> USE DEF LossInv
<1>1. /\ at \in [Senders -> {"idle", "dial", "wait", "sleep"}]
      /\ job \in [Senders -> 0 .. N] /\ answer \in [Senders -> {"none", "ok", "error"}]
      /\ outcome \in [Reports -> {"open", "ok", "error"}]
      /\ missed \in [Reports -> Nat] /\ try \in [Senders -> Nat]
      /\ read \in [Senders -> BOOLEAN]
  BY DEF OnceInv, Types, MoreTypes
<1>2. /\ job[w] \in Reports /\ ~InQueue(job[w]) /\ outcome[job[w]] = "open"
      /\ \A v \in Senders : v # w /\ at[v] # "idle" => job[v] \in Reports /\ job[v] # job[w]
      /\ try[w] \in Nat /\ tries \in Nat
      /\ 1 <= try[w] /\ try[w] <= tries
  BY SenderFacts
<1>3. MoreTypes'
  BY <1>2 DEF serverVars, life, MoreTypes
<1>4. UNCHANGED <<queue, try, tries, refused, cancelled>>
  BY DEF Attempt, End, life
<1>5. missed'[job[w]] = m /\ \A r \in Reports : r # job[w] => missed'[r] = missed[r]
  BY <1>1, <1>2
<1>6. answer' = [answer EXCEPT ![w] = "none"]
  BY DEF Attempt, End
<1>7. (\A r \in Reports : missed'[r] <= tries) /\ \A r \in Reports : InQueue(r) => missed'[r] = 0
  BY <1>2, <1>5 DEF Budget
<1>8. CASE try[w] = tries
  <2>1. /\ at' = [at EXCEPT ![w] = "idle"] /\ job' = [job EXCEPT ![w] = 0]
        /\ outcome' = [outcome EXCEPT ![job[w]] = "error"] /\ read' = read
    BY <1>8 DEF Attempt, End
  <2>2. \A v \in Senders : at'[v] # "idle" =>
            v # w /\ at'[v] = at[v] /\ job'[v] = job[v] /\ missed'[job[v]] = missed[job[v]]
    BY <1>1, <1>2, <1>5, <2>1
  <2>3. Budget'
    BY <1>4, <1>7, <2>2 DEF Budget, Failed, InQueue
  <2>4. UncutMissed'
    BY <1>1, <1>4, <1>6, <2>1, <2>2 DEF UncutMissed, Failed
  <2>5. LostOnlyIf'
    BY <1>1, <1>2, <1>4, <1>5, <1>8, <2>1 DEF LostOnlyIf
  <2> QED
    BY <1>3, <2>3, <2>4, <2>5
<1>9. CASE try[w] # tries
  <2>1. /\ at' = [at EXCEPT ![w] = "sleep"] /\ read' = [read EXCEPT ![w] = @ \/ drained]
        /\ UNCHANGED <<job, outcome>>
    BY <1>9 DEF Attempt
  <2>2. \A v \in Senders : v # w /\ at'[v] # "idle" =>
            /\ at'[v] = at[v] /\ read'[v] = read[v] /\ missed'[job[v]] = missed[job[v]]
            /\ job[v] # job[w]
    BY <1>1, <1>2, <1>5, <2>1
  <2>3. at'[w] = "sleep" /\ read'[w] = (read[w] \/ drained) /\ try[w] < tries
    BY <1>1, <1>2, <1>9, <2>1
  <2>4. Budget'
    BY <1>2, <1>4, <1>5, <1>7, <2>1, <2>2, <2>3 DEF Budget, Failed, InQueue
  <2>5. UncutMissed'
    BY <1>1, <1>4, <1>5, <1>6, <2>1, <2>2, <2>3 DEF UncutMissed, Failed
  <2>6. LostOnlyIf'
    BY <1>2, <1>4, <1>5, <2>1 DEF LostOnlyIf
  <2> QED
    BY <1>3, <2>4, <2>5, <2>6
<1> QED
  BY <1>8, <1>9

LEMMA WriteLoss ==
  ASSUME LossInv, NEW w \in Senders, Write(w)
  PROVE  LossInv'
<1> USE DEF LossInv
<1>1. OnceInv'
  BY WriteStep
<1>2. /\ at' = [at EXCEPT ![w] = "wait"] /\ read' = [read EXCEPT ![w] = TRUE]
      /\ handling' = handling \cup {[by |-> w, report |-> job[w], try |-> try[w]]}
      /\ UNCHANGED <<queue, job, try, answer, outcome, cut, refused, missed, tries, cancelled>>
      /\ at[w] = "dial"
  BY DEF Write, history, life
<1>3. /\ at \in [Senders -> {"idle", "dial", "wait", "sleep"}]
      /\ read \in [Senders -> BOOLEAN]
  BY DEF OnceInv, Types
<1>4. try[w] \in 1 .. tries
  BY <1>2, SenderFacts
<1>5. MoreTypes'
  BY <1>2, <1>4 DEF Write, history, life, MoreTypes
<1>6. Budget'
  BY <1>2, <1>3 DEF Budget, Failed, InQueue
<1>7. UncutMissed' /\ LostOnlyIf'
  BY <1>2, <1>3 DEF UncutMissed, LostOnlyIf, Failed
<1> QED
  BY <1>1, <1>5, <1>6, <1>7

LEMMA WakeLoss ==
  ASSUME LossInv, OnceInv', NEW w \in Senders, Wake(w)
  PROVE  LossInv'
<1> USE DEF LossInv
<1>1. /\ at' = [at EXCEPT ![w] = "dial"] /\ try' = [try EXCEPT ![w] = @ + 1]
      /\ UNCHANGED <<queue, job, read, answer, outcome, cut, refused, missed, tries, cancelled>>
      /\ at[w] = "sleep"
  BY DEF Wake, history, life
<1>2. /\ at \in [Senders -> {"idle", "dial", "wait", "sleep"}] /\ try \in [Senders -> Nat]
      /\ tries \in Nat
  BY TriesType DEF OnceInv, Types
<1>3. MoreTypes'
  BY DEF Wake, serverVars, history, life, MoreTypes
<1>4. try'[w] = try[w] + 1 /\ try[w] \in Nat /\ try[w] < tries
      /\ \A v \in Senders : v # w => try'[v] = try[v] /\ at'[v] = at[v]
  BY <1>1, <1>2 DEF Budget
<1>5. \A v \in Senders : at'[v] # "idle" => Failed(v)' = Failed(v) /\ at[v] # "idle"
  BY <1>1, <1>2, <1>4 DEF Failed
<1>6. Budget'
  BY <1>1, <1>2, <1>4, <1>5 DEF Budget, InQueue
<1>7. UncutMissed' /\ LostOnlyIf'
  BY <1>1, <1>2, <1>5 DEF UncutMissed, LostOnlyIf
<1> QED
  BY <1>3, <1>6, <1>7

(* The server's steps: an error it answers is one it refused with. *)
LEMMA ServerLoss ==
  ASSUME LossInv, OnceInv',
         Crash \/ Restart \/ Signal \/ Exit \/ \E h \in handling : Handle(h) \/ Refuse(h)
  PROVE  LossInv'
<1> USE DEF LossInv
<1>1. /\ UNCHANGED <<queue, at, job, try, read, outcome, cut, missed, tries>>
      /\ handling' \subseteq handling /\ refused \subseteq refused'
      /\ cancelled => cancelled'
  BY DEF Crash, Restart, Signal, Exit, Handle, Refuse, sendVars, history, life, serverVars
<1>2. MoreTypes'
  <2>1. \A h \in handling : h.report \in Reports
    BY DEF OnceInv, Types
  <2>2. crashes' \in 0 .. MaxCrashes
    BY CrashAssumption
       DEF Crash, Restart, Signal, Exit, Handle, Refuse, serverVars, MoreTypes
  <2>3. {cancelled, exited, up}' \subseteq BOOLEAN
    BY DEF Crash, Restart, Signal, Exit, Handle, Refuse, serverVars, life, MoreTypes
  <2>4. refused' \subseteq Reports
    BY <2>1 DEF Crash, Restart, Signal, Exit, Handle, Refuse, history, MoreTypes
  <2>5. UNCHANGED <<tries, batch>>
    BY DEF Crash, Restart, Signal, Exit, Handle, Refuse, life
  <2> QED
    BY <1>1, <2>2, <2>3, <2>4, <2>5 DEF MoreTypes
<1>3. Budget' /\ LostOnlyIf'
  BY <1>1 DEF Budget, Failed, InQueue, LostOnlyIf
<1>4. ASSUME NEW w \in Senders, answer'[w] # "none"
      PROVE  at[w] = "wait" /\ (answer'[w] = "error" => job[w] \in refused')
  <2>1. CASE UNCHANGED answer
    BY <1>1, <1>4, <2>1 DEF UncutMissed
  <2>2. ASSUME NEW h \in handling, NEW what \in {"ok", "error"}, Answered(h, what),
               what = "error" => h.report \in refused'
        PROVE  at[w] = "wait" /\ (answer'[w] = "error" => job[w] \in refused')
    <3>1. CASE answer'[w] = answer[w]
      BY <1>1, <1>4, <3>1 DEF UncutMissed
    <3>2. CASE answer'[w] # answer[w]
      BY <2>2, <3>2 DEF Answered, OnceInv, Types
    <3> QED
      BY <3>1, <3>2
  <2> QED
    BY <2>1, <2>2 DEF Crash, Restart, Signal, Exit, Handle, Refuse, sendVars
<1>5. UncutMissed'
  BY <1>1, <1>4 DEF UncutMissed, Failed
<1> QED
  BY <1>2, <1>3, <1>5

LEMMA NextLossInv == LossInv /\ [Next]_vars => LossInv'
<1> SUFFICES ASSUME LossInv, [Next]_vars PROVE LossInv'
  OBVIOUS
<1>0. OnceInv'
  BY NextOnceInv DEF LossInv
<1>1. ASSUME NEW w \in Senders, Take(w) \/ Write(w) \/ Wake(w) PROVE LossInv'
  BY <1>0, <1>1, TakeLoss, WriteLoss, WakeLoss
<1>2. ASSUME NEW w \in Senders, Cancelled(w) PROVE LossInv'
  BY <1>0, <1>2, EndLoss DEF Cancelled
<1>3. ASSUME NEW w \in Senders, Receive(w) PROVE LossInv'
  <2>1. answer[w] \in {"ok", "error"} /\ (answer[w] = "error" => job[w] \in refused)
    BY <1>3 DEF Receive, LossInv, UncutMissed, OnceInv, Types
  <2> QED
    BY <1>0, <1>3, <2>1, EndLoss DEF Receive
<1>4. ASSUME NEW w \in Senders,
             DialFails(w) \/ WriteBreaks(w) \/ NothingToWrite(w) \/ AnswerLost(w)
      PROVE  LossInv'
  <2> DEFINE m == IF DialFails(w) THEN missed[job[w]] + 1 ELSE missed[job[w]]
  <2>0. at[w] \in {"dial", "wait"}
    BY <1>4 DEF DialFails, WriteBreaks, NothingToWrite, AnswerLost
  <2>1. /\ job[w] \in Reports /\ missed[job[w]] \in Nat /\ try[w] \in Nat /\ 1 <= try[w]
        /\ missed \in [Reports -> Nat] /\ cut \subseteq Reports
    BY <2>0, SenderFacts DEF LossInv, MoreTypes
  <2>2. /\ missed[job[w]] <= try[w] - 1
        /\ job[w] \notin cut => missed[job[w]] = try[w] - 1
        /\ job[w] \notin cut /\ at[w] = "dial" => ~read[w]
    BY <2>0 DEF LossInv, Budget, UncutMissed, Failed
  <2>3. CASE DialFails(w)
    <3>1. /\ at[w] = "dial" /\ Attempt(w, FALSE) /\ UNCHANGED <<serverVars, cut, refused, life>>
          /\ missed' = [missed EXCEPT ![job[w]] = missed[job[w]] + 1]
      BY <2>3 DEF DialFails
    <3>2. missed[job[w]] + 1 \in Nat /\ missed[job[w]] + 1 <= try[w]
          /\ (job[w] \notin cut => missed[job[w]] + 1 = try[w])
      BY <2>1, <2>2
    <3> QED
      BY <1>0, <2>2, <3>1, <3>2, AttemptLoss
  <2>4. CASE ~DialFails(w)
    <3>1. /\ Attempt(w, TRUE) /\ UNCHANGED <<serverVars, refused, missed, life>>
          /\ cut \subseteq cut' /\ cut' \subseteq cut \cup {job[w]} /\ job[w] \in cut'
      <4>1. CASE WriteBreaks(w) \/ AnswerLost(w)
        BY <4>1 DEF WriteBreaks, AnswerLost
      <4>2. CASE NothingToWrite(w)
        BY <2>2, <4>2 DEF NothingToWrite, history
      <4> QED
        BY <1>4, <2>4, <4>1, <4>2
    <3>2. missed' = [missed EXCEPT ![job[w]] = missed[job[w]]] /\ missed[job[w]] <= try[w]
      BY <2>1, <2>2, <3>1
    <3> QED
      BY <1>0, <2>0, <2>1, <3>1, <3>2, AttemptLoss
  <2> QED
    BY <2>3, <2>4
<1>5. CASE \/ Crash \/ Restart \/ Signal \/ Exit
           \/ \E h \in handling : Handle(h) \/ Refuse(h)
  BY <1>0, <1>5, ServerLoss
<1>6. CASE UNCHANGED vars
  BY <1>0, <1>6 DEF vars, sendVars, serverVars, history, life, LossInv, MoreTypes, Budget,
         UncutMissed, LostOnlyIf, Failed, InQueue
<1> QED
  BY <1>1, <1>2, <1>3, <1>4, <1>5, <1>6 DEF Next, Ends

(* Delivery's state always has the types Delivery.tla gives it: no sender    *)
(* makes more attempts than the retry schedule has.                         *)
THEOREM DeliveryTypeCorrect == Spec => []TypeOK
  BY InitLossInv, NextLossInv, LossTypes, PTL DEF Spec

(* Without a signal the agent gives a report up only when the server turned  *)
(* it down, its connection broke under it, or every attempt of the schedule *)
(* found nobody listening.                                                  *)
THEOREM LossHasAReason == Spec => []LostOnlyIf
<1>1. LossInv => LostOnlyIf
  BY DEF LossInv
<1> QED
  BY <1>1, InitLossInv, NextLossInv, PTL DEF Spec

-----------------------------------------------------------------------------
(* The order of the reports. *)
LEMMA OneOf == Cardinality(Senders) = 1 => \A v, w \in Senders : v = w
  BY SendersAssumption, FS_Singleton

LEMMA InitOrderInv == Init => OrderInv
<1> SUFFICES ASSUME Init PROVE OrderInv
  OBVIOUS
<1>1. LossInv
  BY InitLossInv
<1>2. Len(queue) = N /\ DOMAIN queue = 1 .. N /\ \A i \in DOMAIN queue : queue[i] = i
  BY NAssumption DEF Init, Reports
<1>3. InOrder
  BY <1>2, NAssumption DEF Init, InOrder, Taken
<1> QED
  BY <1>1, <1>3 DEF Init, OrderInv, LoneSender, SenderWaits

(* The report that is taken is the next one; a lone sender has no other. *)
LEMMA TakeOrder ==
  ASSUME OrderInv, LossInv', NEW w \in Senders, Take(w)
  PROVE  OrderInv'
<1> USE DEF OrderInv, LossInv, OnceInv
<1>1. /\ queue \in Seq(Reports) /\ queue # <<>> /\ Len(queue) \in Nat /\ Len(queue) # 0
      /\ Tail(queue) \in Seq(Reports) /\ Len(Tail(queue)) = Len(queue) - 1
      /\ \A i \in DOMAIN Tail(queue) : i \in Nat /\ i + 1 \in DOMAIN queue /\ Tail(queue)[i] = queue[i + 1]
      /\ Head(queue) = queue[1] /\ 1 \in DOMAIN queue
  BY DEF Take, Types
<1>2. /\ at' = [at EXCEPT ![w] = "dial"] /\ job' = [job EXCEPT ![w] = Head(queue)]
      /\ queue' = Tail(queue) /\ at[w] = "idle"
      /\ UNCHANGED <<answer, handling, applied, cut, cancelled, batch>>
  BY DEF Take, serverVars, history, life
<1>3. Taken \in Int /\ Taken' = Taken + 1 /\ Head(queue) = Taken + 1
  BY <1>1, <1>2, NAssumption DEF InOrder, Taken
<1>4. /\ job \in [Senders -> 0 .. N] /\ at \in [Senders -> {"idle", "dial", "wait", "sleep"}]
      /\ \A h \in handling : h.report \in Nat /\ h.by \in Senders
      /\ \A i \in DOMAIN applied : applied[i] \in Nat
      /\ \A v \in Senders : job[v] = 0 <=> at[v] = "idle"
  BY NAssumption DEF Types, Reports
<1>5. InOrder'
  <2>1. Len(queue') <= N /\ \A i \in DOMAIN queue' : queue'[i] = Taken' + i
    BY <1>1, <1>2, <1>3, NAssumption DEF InOrder
  <2>2. \A v \in Senders : job'[v] <= Taken'
    BY <1>2, <1>3, <1>4 DEF InOrder
  <2>3. \A h \in handling' : h.report <= Taken'
    BY <1>2, <1>3, <1>4 DEF InOrder
  <2>4. \A i \in DOMAIN applied' : applied'[i] <= Taken'
    BY <1>2, <1>3, <1>4 DEF InOrder
  <2> QED
    BY <2>1, <2>2, <2>3, <2>4 DEF InOrder
<1>6. LoneSender'
  <2> SUFFICES ASSUME Alone, NEW v \in Senders, job'[v] # 0 PROVE job'[v] = Taken'
    BY <1>2 DEF LoneSender, Alone
  <2>1. v # w => at[v] = "idle"
    BY OneOf DEF Alone, Take, Live
  <2> QED
    BY <1>2, <1>3, <1>4, <2>1
<1>7. SenderWaits'
  <2>1. \A h \in handling : h.by = w => cancelled \/ h.report \in cut
    BY <1>2, <1>4 DEF SenderWaits
  <2>2. \A v \in Senders : answer[v] # "none" => v # w
    BY <1>2 DEF UncutMissed
  <2> QED
    BY <1>2, <1>4, <2>1, <2>2 DEF SenderWaits
<1> QED
  BY <1>5, <1>6, <1>7

(* A sender that leaves off waiting for an answer has it, or has broken its *)
(* connection, or is cancelled: no handler has its report in hand.          *)
LEMMA LeaveOrder ==
  ASSUME OrderInv, LossInv', NEW w \in Senders,
         UNCHANGED <<queue, handling, applied, batch, cancelled>>, cut \subseteq cut',
         \A v \in Senders : v # w =>
            at'[v] = at[v] /\ job'[v] = job[v] /\ answer'[v] = answer[v],
         job'[w] \in {0, job[w]}, answer'[w] = "none",
         \A h \in handling : ~cancelled /\ h.report \notin cut' => h.by # w
  PROVE  OrderInv'
<1> USE DEF OrderInv, LossInv, OnceInv
<1>1. InOrder'
  <2>1. Taken' = Taken /\ Taken \in Int /\ 0 <= Taken
    BY NAssumption DEF Taken, Types, InOrder
  <2> QED
    BY <2>1 DEF InOrder
<1>2. LoneSender'
  BY DEF LoneSender, Alone, Taken
<1>3. SenderWaits'
  <2>1. \A h \in handling : h.by \in Senders
    BY DEF Types
  <2> QED
    BY <2>1 DEF SenderWaits
<1> QED
  BY <1>1, <1>2, <1>3

LEMMA WriteOrder ==
  ASSUME OrderInv, LossInv', NEW w \in Senders, Write(w)
  PROVE  OrderInv'
<1> DEFINE g == [by |-> w, report |-> job[w], try |-> try[w]]
<1> USE DEF OrderInv, LossInv, OnceInv
<1>1. /\ at' = [at EXCEPT ![w] = "wait"] /\ handling' = handling \cup {g}
      /\ UNCHANGED <<queue, job, answer, applied, batch, cancelled, cut>>
      /\ at[w] = "dial"
  BY DEF Write, history, life
<1>2. /\ at \in [Senders -> {"idle", "dial", "wait", "sleep"}]
      /\ \A h \in handling : h.by \in Senders
      /\ g.by = w /\ g.report = job[w]
  BY DEF Types
<1>3. InOrder' /\ LoneSender'
  BY <1>1 DEF InOrder, LoneSender, Alone, Taken
<1>4. \A v \in Senders : answer[v] # "none" => at[v] = "wait" /\ job[v] # job[w]
  <2>1. job[w] # 0
    BY <1>1 DEF Types
  <2>2. \A v \in Senders : answer[v] # "none" => at[v] = "wait" /\ v # w
    BY <1>1 DEF UncutMissed
  <2> QED
    BY <2>1, <2>2 DEF OneSender
<1>5. SenderWaits'
  BY <1>1, <1>2, <1>4 DEF SenderWaits
<1> QED
  BY <1>3, <1>5

(* A handler that answers has its report no more, and no other had it. *)
LEMMA ServerOrder ==
  ASSUME OrderInv, LossInv', Crash \/ Restart \/ \E h \in handling : Handle(h) \/ Refuse(h)
  PROVE  OrderInv'
<1> USE DEF OrderInv, LossInv, OnceInv
<1>1. /\ UNCHANGED <<queue, at, job, cut, cancelled, batch>> /\ handling' \subseteq handling
  BY DEF Crash, Restart, Handle, Refuse, sendVars, history, life
<1>2. InOrder'
  <2>1. \A i \in DOMAIN applied' : applied'[i] <= Taken
    <3>1. CASE UNCHANGED applied
      BY <3>1 DEF InOrder
    <3>2. ASSUME NEW h \in handling, applied' = Append(applied, h.report)
          PROVE  \A i \in DOMAIN applied' : applied'[i] <= Taken
      <4>1. applied \in Seq(Reports) /\ h.report \in Reports /\ h.report <= Taken
        BY DEF Types, InOrder
      <4>2. \A i \in DOMAIN applied' :
                applied'[i] = h.report \/ (i \in DOMAIN applied /\ applied'[i] = applied[i])
        BY <3>2, <4>1
      <4> QED
        BY <4>1, <4>2 DEF InOrder
    <3> QED
      BY <3>1, <3>2 DEF Crash, Restart, Handle, Refuse
  <2> QED
    BY <1>1, <2>1 DEF InOrder, Taken
<1>3. LoneSender'
  BY <1>1 DEF LoneSender, Alone, Taken
<1>4. ASSUME NEW w \in Senders, answer'[w] # "none", NEW k \in handling' PROVE k.report # job[w]
  <2>1. CASE answer[w] # "none"
    BY <1>1, <1>4, <2>1 DEF SenderWaits
  <2>2. CASE answer[w] = "none"
    <3>1. PICK h \in handling :
            /\ handling' = handling \ {h}
            /\ \E what \in {"ok", "error"} : Answered(h, what)
      BY <1>4, <2>2 DEF Crash, Restart, Handle, Refuse, sendVars
    <3>2. job[w] = h.report
      <4>1. PICK what \in {"ok", "error"} : Answered(h, what)
        BY <3>1
      <4>2. answer' = [answer EXCEPT ![h.by] = what] /\ job[h.by] = h.report
        BY <1>4, <2>2, <4>1 DEF Answered
      <4> QED
        BY <1>4, <2>2, <4>2 DEF Types
    <3> QED
      BY <1>4, <3>1, <3>2 DEF OneHandler
  <2> QED
    BY <2>1, <2>2
<1>5. SenderWaits'
  BY <1>1, <1>4 DEF SenderWaits
<1> QED
  BY <1>2, <1>3, <1>5

LEMMA NextOrderInv == OrderInv /\ [Next]_vars => OrderInv'
<1> SUFFICES ASSUME OrderInv, [Next]_vars PROVE OrderInv'
  OBVIOUS
<1>0. /\ LossInv'
      /\ at \in [Senders -> {"idle", "dial", "wait", "sleep"}]
      /\ job \in [Senders -> 0 .. N]
      /\ answer \in [Senders -> {"none", "ok", "error"}]
  BY NextLossInv DEF OrderInv, LossInv, OnceInv, Types
<1>1. ASSUME NEW w \in Senders, Take(w) PROVE OrderInv'
  BY <1>0, <1>1, TakeOrder
<1>2. ASSUME NEW w \in Senders, Write(w) PROVE OrderInv'
  BY <1>0, <1>2, WriteOrder
<1>3. ASSUME NEW w \in Senders, Wake(w) PROVE OrderInv'
  <2>1. /\ at[w] = "sleep" /\ at' = [at EXCEPT ![w] = "dial"]
        /\ UNCHANGED <<queue, job, answer, handling, applied, batch, cancelled, cut>>
    BY <1>3 DEF Wake, serverVars, history, life
  <2>2. answer[w] = "none" /\ \A h \in handling : ~cancelled /\ h.report \notin cut => h.by # w
    BY <2>1 DEF OrderInv, LossInv, UncutMissed, SenderWaits
  <2> QED
    BY <1>0, <2>1, <2>2, LeaveOrder
<1>4. ASSUME NEW w \in Senders, Cancelled(w) \/ Receive(w) PROVE OrderInv'
  <2>1. /\ at' = [at EXCEPT ![w] = "idle"] /\ job' = [job EXCEPT ![w] = 0]
        /\ answer' = [answer EXCEPT ![w] = "none"]
        /\ UNCHANGED <<queue, handling, applied, batch, cancelled, cut>>
        /\ cancelled \/ answer[w] # "none"
    BY <1>4 DEF Cancelled, Receive, End, serverVars, history, life
  <2>2. \A h \in handling : ~cancelled /\ h.report \notin cut => h.by # w
    BY <2>1 DEF OrderInv, SenderWaits
  <2> QED
    BY <1>0, <2>1, <2>2, LeaveOrder
<1>5. ASSUME NEW w \in Senders,
             DialFails(w) \/ WriteBreaks(w) \/ NothingToWrite(w) \/ AnswerLost(w)
      PROVE  OrderInv'
  <2>1. /\ at[w] = "dial" \/ (at[w] = "wait" /\ job[w] \in cut')
        /\ UNCHANGED <<handling, applied, batch, cancelled>> /\ cut \subseteq cut'
    BY <1>5 DEF DialFails, WriteBreaks, NothingToWrite, AnswerLost, serverVars, history, life
  <2>2. /\ \/ (at' = [at EXCEPT ![w] = "idle"] /\ job' = [job EXCEPT ![w] = 0])
           \/ (at' = [at EXCEPT ![w] = "sleep"] /\ UNCHANGED job)
        /\ answer' = [answer EXCEPT ![w] = "none"] /\ UNCHANGED queue
    BY <1>5 DEF DialFails, WriteBreaks, NothingToWrite, AnswerLost, Attempt, End
  <2>3. \A h \in handling : ~cancelled /\ h.report \notin cut' => h.by # w
    BY <2>1 DEF OrderInv, SenderWaits
  <2> QED
    BY <1>0, <2>1, <2>2, <2>3, LeaveOrder
<1>6. CASE Crash \/ Restart \/ \E h \in handling : Handle(h) \/ Refuse(h)
  BY <1>0, <1>6, ServerOrder
<1>7. CASE Signal \/ Exit \/ UNCHANGED vars
  <2>1. /\ UNCHANGED <<queue, at, job, answer, handling, applied, batch, cut>>
        /\ cancelled => cancelled'
    BY <1>7 DEF Signal, Exit, vars, sendVars, serverVars, history, life
  <2> QED
    BY <1>0, <2>1 DEF OrderInv, InOrder, LoneSender, SenderWaits, Alone, Taken
<1> QED
  BY <1>1, <1>2, <1>3, <1>4, <1>5, <1>6, <1>7 DEF Next, Ends

(* A worker alone, or the main goroutine in batch mode, never sets a gauge  *)
(* back to an older report, unless a connection broke under a handler that  *)
(* went on, or a signal ended the wait: for any number of reports, crashes  *)
(* and retries.                                                             *)
THEOREM LoneSenderKeepsOrder == Spec => OrderKept
<1>1. ASSUME OrderInv, [Next]_vars, applied' # applied, Alone, ~cancelled,
             applied'[Len(applied')] \notin cut
      PROVE  \A i \in DOMAIN applied : applied[i] < applied'[Len(applied')]
  <2> USE DEF OrderInv, LossInv, OnceInv
  <2>1. PICK h \in handling : applied' = Append(applied, h.report)
    BY <1>1 DEF Next, Take, Ends, Cancelled, Receive, Wake, DialFails, Write, WriteBreaks,
           NothingToWrite, AnswerLost, Handle, Refuse, Signal, Exit, Crash, Restart, vars,
           serverVars
  <2>2. /\ applied \in Seq(Reports) /\ h.report \in Reports /\ h.by \in Senders
        /\ applied'[Len(applied')] = h.report
    BY <1>1, <2>1 DEF Types
  <2>3. job[h.by] = h.report /\ h.report = Taken
    BY <1>1, <2>2, NAssumption DEF SenderWaits, LoneSender, Reports
  <2>4. \A i \in DOMAIN applied : applied[i] <= h.report /\ applied[i] # h.report
    BY <1>1, <2>3 DEF InOrder, OneHandler, Done
  <2>5. \A i \in DOMAIN applied : applied[i] \in Int
    BY <2>2, NAssumption DEF Reports
  <2> QED
    BY <2>2, <2>4, <2>5 DEF Reports
<1>2. OrderInv /\ [Next]_vars
        => [LET r == applied'[Len(applied')]
            IN  applied' # applied /\ Alone /\ ~cancelled /\ r \notin cut
                 => \A i \in DOMAIN applied : applied[i] < r]_vars
  BY <1>1
<1> QED
  BY <1>2, InitOrderInv, NextOrderInv, PTL DEF Spec, OrderKept
=============================================================================
