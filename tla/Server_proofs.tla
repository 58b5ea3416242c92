---------------------------- MODULE Server_proofs ----------------------------
(***************************************************************************)
(* The storage outlives the requests, their answers tell the truth, and    *)
(* settings have their order: for any settings of both programs, any       *)
(* requests and any number of connections, by HTTP and by gRPC.            *)
(***************************************************************************)
EXTENDS Server, SequenceTheorems, TLAPS

(* A request needs an open listener to arrive, or a connection from the     *)
(* time before the signal that closed it; main goes on when none is left.   *)
DrainInv ==
    /\ slot = [r \in Slots |-> slot[r]]
    /\ Up /\ lis = "open" => main = "serve" /\ sig = "ready"
    /\ Up /\ lis = "closed" => sig \in {"draining", "done"}
    /\ Up /\ lis = "closed" /\ sig = "draining" => main \in {"serve", "wait"}
    /\ main \in {"config", "open", "listen"} => lis = "none"
    /\ \A r \in Slots : Up /\ Active(r) =>
            main \in {"serve", "wait"} /\ sig \in {"ready", "draining"}
    /\ main \in {"listen", "serve", "wait"} => store \in {"open", "locked"}

LEMMA InitDrainInv == Init => DrainInv
  BY DEF Init, DrainInv, Active, Idle, Up

(* A layer, the handler or the storage call: of all requests only this one  *)
(* changes, and main goes on as before unless the process panics.           *)
LEMMA RequestStep ==
  ASSUME DrainInv, NEW r \in Slots, Active(r), NEW x,
         slot' = [slot EXCEPT ![r] = x],
         main' = main \/ main' = "panicked",
         store' \in {store, "locked"}, UNCHANGED <<lis, sig>>
  PROVE  DrainInv'
<1>1. \A s \in Slots : Active(s)' => Active(s)
  BY DEF DrainInv, Active
<1>2. slot' = [s \in Slots |-> slot'[s]]
  BY DEF DrainInv
<1> QED
  BY <1>1, <1>2 DEF DrainInv, Up

LEMMA LayerStep ==
  ASSUME DrainInv, NEW r \in Slots, NEW name, NEW verdict, Layer(r, name, verdict)
  PROVE  DrainInv'
<1>1. Active(r) /\ (main' = main \/ main' = "panicked") /\ UNCHANGED <<lis, sig, store>>
  BY DEF Layer, At
<1>2. \E x : slot' = [slot EXCEPT ![r] = x]
  BY DEF Layer, Passed
<1> QED
  BY <1>1, <1>2, RequestStep

LEMMA ServingStep ==
  ASSUME DrainInv, NEW r \in Slots, Serving(r)
  PROVE  DrainInv'
<1>1. CASE AtIp(r) \/ AtGunzip(r) \/ AtSignature(r) \/ AtDecrypt(r) \/ AtHandler(r)
  BY <1>1, LayerStep DEF AtIp, AtGunzip, AtSignature, AtDecrypt, AtHandler
<1>2. CASE LoadFails(r)
  BY <1>2, LayerStep DEF LoadFails
<1>3. CASE BeginLoad(r) \/ Load(r)
  BY <1>3 DEF BeginLoad, Load, DrainInv, Active, Up, process
<1>4. CASE AtStorage(r) \/ StorageFails(r)
  <2>1. /\ Active(r) /\ UNCHANGED <<lis, sig>> /\ store' \in {store, "locked"}
        /\ main' = main \/ main' = "panicked"
    BY <1>4 DEF AtStorage, StorageFails, At, process
  <2>2. \E x : slot' = [slot EXCEPT ![r] = x]
    BY <1>4 DEF AtStorage, StorageFails, Answered
  <2> QED
    BY <2>1, <2>2, RequestStep
<1> QED
  BY <1>1, <1>2, <1>3, <1>4 DEF Serving

(* The main goroutine: it opens the storage before it listens, and leaves  *)
(* "wait" only when the drain is done.                                     *)
LEMMA MainStep ==
  ASSUME DrainInv, Main
  PROVE  DrainInv'
<1>1. UNCHANGED slot /\ \A r \in Slots : Active(r)' <=> Active(r)
  BY DEF Main, Configure, Open, Listen, ListenFails, Served, Waited, Close, reqVars, Active
<1>2. CASE Configure \/ Open
  BY <1>1, <1>2 DEF Configure, Open, DrainInv, Up
<1>3. CASE Listen
  BY <1>1, <1>3 DEF Listen, DrainInv, Up
<1>4. CASE ListenFails
  BY <1>1, <1>4 DEF ListenFails, DrainInv, Up
<1>5. CASE Served \/ Waited
  BY <1>1, <1>5 DEF Served, Waited, DrainInv, Up
<1>6. CASE Close
  BY <1>1, <1>6 DEF Close, DrainInv, Up
<1> QED
  BY <1>2, <1>3, <1>4, <1>5, <1>6 DEF Main

LEMMA NextDrainInv == DrainInv /\ [Next]_vars => DrainInv'
<1> SUFFICES ASSUME DrainInv, [Next]_vars PROVE DrainInv'
  OBVIOUS
<1>1. CASE UNCHANGED vars
  BY <1>1 DEF DrainInv, Active, Up, vars, process, reqVars
<1>2. CASE Main
  BY <1>2, MainStep
<1>3. CASE Signal
  BY <1>3 DEF Signal, DrainInv, Active, Up, reqVars
<1>4. CASE Drained
  BY <1>4 DEF Drained, DrainInv, Active, Up, reqVars
<1>5. ASSUME NEW r \in Slots, NEW q \in Clients, Arrive(r, q) PROVE DrainInv'
  <2>1. Up /\ UNCHANGED <<main, lis, sig, store>>
    BY <1>5 DEF Arrive, process
  <2>2. main \in {"serve", "wait"} /\ sig \in {"ready", "draining"}
    BY <1>5, <2>1 DEF Arrive, DrainInv
  <2>3. slot' = [s \in Slots |-> slot'[s]]
    BY <1>5 DEF Arrive, DrainInv
  <2> QED
    BY <2>1, <2>2, <2>3 DEF DrainInv, Up
<1>6. ASSUME NEW r \in Slots, BodyArrives(r) \/ ClientLeaves(r) PROVE DrainInv'
  <2>1. Active(r) /\ UNCHANGED <<main, lis, sig, store>>
    BY <1>6 DEF BodyArrives, ClientLeaves, process
  <2>2. \E x : slot' = [slot EXCEPT ![r] = x]
    BY <1>6 DEF BodyArrives, ClientLeaves
  <2> QED
    BY <2>1, <2>2, RequestStep
<1>7. ASSUME NEW r \in Slots, Serving(r) PROVE DrainInv'
  BY <1>7, ServingStep
<1> QED
  BY <1>1, <1>2, <1>3, <1>4, <1>5, <1>6, <1>7 DEF Next

(* Run's deferred Close comes behind the last handler, because both         *)
(* servers wait for idleConnsClosed when Serve has returned.               *)
THEOREM StorageOutlivesHandlers == Spec => []NoHandlerAfterClose
<1>1. DrainInv => NoHandlerAfterClose
  BY DEF DrainInv, NoHandlerAfterClose
<1> QED
  BY <1>1, InitDrainInv, NextDrainInv, PTL DEF Spec

-----------------------------------------------------------------------------
(* A flaw is found only if there is one. *)
LEMMA AllGood ==
  ASSUME NEW items, \A i \in 1 .. Len(items) : items[i] = "good", NEW flaws, "good" \notin flaws
  PROVE  FirstFlaw(items, flaws) = "none"
<1>1. {i \in 1 .. Len(items) : items[i] \in flaws} = {}
  OBVIOUS
<1> QED
  BY <1>1 DEF FirstFlaw, SelectInSeq

(* What an agent makes of a single report before it compresses it, if it   *)
(* has a key.                                                              *)
Sealed == IF agent.CryptoKey # "" THEN EncryptBody(<<>>, agent.CryptoKey) ELSE <<>>

(* A report of the agent's, whatever has become of its body since. *)
Reported(q) ==
    \E q0 \in AgentRequests(agent, AgentIp) : q = [q0 EXCEPT !.layers = q.layers]

(* What a report of the agent's is before it is compressed. *)
Inner(q) ==
    IF q.route = "UpdateJSON" THEN Sealed
    ELSE IF q.route = "Updates" THEN Marshal(q.items) ELSE <<>>

(* What both kinds of batch have in common. *)
Batch(q) ==
    /\ q.items \in Batches
    /\ q.signature = IF agent.SecretKey # "" THEN Sign(Inner(q), agent.SecretKey)
                     ELSE NoSignature

(* The parts of a report that tell its fate, but for the body. *)
LEMMA ReportFields ==
  ASSUME NEW q, Reported(q)
  PROVE  /\ q.by = "agent"
         /\ \/ /\ q.route = "UpdateJSON" /\ q.zip = TRUE /\ q.json = TRUE /\ q.ip = AgentIp
               /\ q.items = <<"good">>
            \/ q.route = "Updates" /\ q.zip = TRUE /\ q.json = TRUE /\ q.ip = "" /\ Batch(q)
            \/ q.route = "gBatchUpdate" /\ q.zip = FALSE /\ q.ip = AgentIp /\ Batch(q)
<1>1. PICK q0 \in AgentRequests(agent, AgentIp) : q = [q0 EXCEPT !.layers = q.layers]
  BY DEF Reported
<1>2. CASE q0 = SingleReport(agent, AgentIp)
  <2> DEFINE layers == q.layers
  <2> HIDE DEF layers
  <2>1. q = [q0 EXCEPT !.layers = layers]
    BY <1>1 DEF layers
  <2> QED
    BY <1>2, <2>1 DEF SingleReport
<1>3. ASSUME NEW items \in Batches, q0 = BatchReport(agent, items)
      PROVE  Batch(q) /\ q.by = "agent" /\ q.route = "Updates" /\ q.zip = TRUE /\ q.json = TRUE /\ q.ip = ""
  <2> DEFINE layers == q.layers
  <2> HIDE DEF layers
  <2>1. q = [q0 EXCEPT !.layers = layers]
    BY <1>1 DEF layers
  <2> QED
    BY <1>3, <2>1 DEF BatchReport, Batch, Inner
<1>4. ASSUME NEW items \in Batches, q0 = BatchReportGRPC(agent, AgentIp, items)
      PROVE  Batch(q) /\ q.by = "agent" /\ q.route = "gBatchUpdate" /\ q.zip = FALSE /\ q.ip = AgentIp
  <2> DEFINE layers == q.layers
  <2> HIDE DEF layers
  <2>1. q = [q0 EXCEPT !.layers = layers]
    BY <1>1 DEF layers
  <2> QED
    BY <1>4, <2>1 DEF BatchReportGRPC, Batch, Inner
<1>5. \/ q0 = SingleReport(agent, AgentIp)
      \/ \E items \in Batches : q0 = BatchReport(agent, items)
      \/ \E items \in Batches : q0 = BatchReportGRPC(agent, AgentIp, items)
  BY <1>1 DEF AgentRequests
<1> QED
  BY <1>2, <1>3, <1>4, <1>5

(* A handler goes on with a report of the agent's exactly when it finds it *)
(* plain; BatchUpdate finds no other.                                      *)
LEMMA ReportCalls ==
  ASSUME NEW q, Reported(q)
  PROVE  Verdict(q) = IF q.layers = <<>> \/ q.route = "gBatchUpdate" THEN "call" ELSE "invalid"
<1>0. q.items \in {<<>>, <<"good">>, <<"good", "good">>}
  BY ReportFields DEF Batch, Batches
<1>1. \A i \in 1 .. Len(q.items) : q.items[i] = "good"
  <2>1. CASE q.items = <<>>
    BY <2>1
  <2>2. CASE q.items = <<"good">>
    BY <2>2
  <2>3. CASE q.items = <<"good", "good">>
    BY <2>3
  <2> QED
    BY <1>0, <2>1, <2>2, <2>3
<1>2. CASE q.route \in {"UpdateJSON", "Updates"}
  <2>1. Verdict(q) = VerdictJSON(q)
    BY <1>2 DEF Verdict, ByGRPC
  <2>2. q.json = TRUE
    BY <1>2, ReportFields
  <2>3. FirstFlaw(q.items, {"unnamed", "untyped"}) = "none"
    BY <1>1, AllGood
  <2> QED
    BY <1>2, <2>1, <2>2, <2>3 DEF VerdictJSON
<1>3. CASE q.route = "gBatchUpdate"
  <2>1. FirstFlaw(q.items, {"untyped", "hollow"}) = "none"
    BY <1>1, AllGood
  <2>2. Verdict(q) = VerdictGRPC(q)
    BY <1>3 DEF Verdict, ByGRPC
  <2> QED
    BY <1>3, <2>1, <2>2 DEF VerdictGRPC
<1> QED
  BY <1>2, <1>3, ReportFields

(* The answers; those that refuse. *)
Statuses == {"none", "ok", "invalid", "unsupported", "missing", "forbidden", "failed",
             "aborted"}
Refusals == Statuses \ {"none", "ok"}

(* The first of the three conditions of Agree, the one that CheckIp asks    *)
(* for.                                                                    *)
SubnetAgrees(route) ==
    params.TrustedSubnet # "" => params.TrustedSubnet = AgentIp /\ route # "Updates"

(* A report of the agent's in front of the layers in chain: what is left   *)
(* of its body, and that what the layers behind it asked for was so.  The  *)
(* last disjuncts say that the verdict of the handler will be right.       *)
Follows(q, chain) ==
    /\ Reported(q)
    /\ \/ /\ chain = Chain(q)
          /\ q.layers = IF q.route = "gBatchUpdate" THEN <<>> ELSE GzipToBuffer(Inner(q))
       \/ /\ SubnetAgrees(q.route)
          /\ \/ /\ q.route # "gBatchUpdate" /\ chain = Tail(Chain(q))
                /\ q.layers = GzipToBuffer(Inner(q))
             \/ /\ q.route = "UpdateJSON" /\ chain = <<"decrypt", "handler">>
                /\ q.layers = Sealed
             \/ /\ q.route # "UpdateJSON" /\ chain = <<"signature", "handler">>
                /\ q.layers = Inner(q)
             \/ /\ chain = <<"handler">>
                /\ Acceptable(q) <=> q.layers = <<>>
                /\ q.route = "gBatchUpdate" => Acceptable(q)
             \/ chain = <<"storage">> /\ Acceptable(q)

Layers == {"ip", "gunzip", "signature", "decrypt", "handler", "storage"}

SlotType == [req : Request \cup {Spare}, whole : BOOLEAN, chain : Seq(Layers),
             status : Statuses, stored : Nat, fault : BOOLEAN]

(* AnswersTellTheTruth, of one slot. *)
Truth(s) ==
    /\ s.status \in {"invalid", "unsupported", "missing", "forbidden"} => s.stored = 0
    /\ s.status = "ok" /\ Writes(s.req) => s.stored = Len(s.req.items)
    /\ s.status # "none" /\ ~s.fault /\ s.req.by = "agent"
            => (s.status = "ok" <=> Acceptable(s.req))

(* The invariant of a slot: under way nothing is stored of a request, and  *)
(* a report of the agent's is where Follows says.                          *)
SlotOK(s) ==
    /\ s \in SlotType
    /\ s.chain # <<>> =>
        /\ s.req \in Request /\ s.status = "none" /\ s.stored = 0
        /\ s.req.by = "agent" => Follows(s.req, s.chain)
    /\ Truth(s)

(* A layer that answers must not answer a report that is to be accepted. *)
LEMMA RefusedOK ==
  ASSUME NEW s, SlotOK(s), s.chain # <<>>, NEW v \in Refusals,
         s.req.by = "agent" => ~Acceptable(s.req)
  PROVE  SlotOK([s EXCEPT !.chain = <<>>, !.status = v])
<1> DEFINE t == [s EXCEPT !.chain = <<>>, !.status = v]
<1>1. <<>> \in Seq(Layers) /\ v \in Statuses /\ v # "none" /\ v # "ok"
  BY DEF Refusals
<1>2. t \in SlotType /\ t.chain = <<>> /\ t.status = v /\ t.stored = 0 /\ t.req = s.req
  BY <1>1 DEF SlotOK, SlotType
<1> QED
  BY <1>1, <1>2 DEF SlotOK, Truth

(* A layer that passes a request on must leave a report where Follows      *)
(* says.                                                                   *)
LEMMA PassedOK ==
  ASSUME NEW s, SlotOK(s), s.chain # <<>>, NEW c \in Seq(Layers),
         s.req.by = "agent" => Follows(s.req, c)
  PROVE  SlotOK([s EXCEPT !.chain = c])
<1> DEFINE t == [s EXCEPT !.chain = c]
<1>1. /\ t \in SlotType /\ t.chain = c /\ t.status = "none" /\ t.stored = 0
      /\ t.req = s.req
  BY DEF SlotOK, SlotType
<1> QED
  BY <1>1 DEF SlotOK, Truth

(* Taking an encoding off changes nothing but the body. *)
LEMMA PeeledRequest ==
  ASSUME NEW q \in Request, NEW l \in Seq(Encodings)
  PROVE  /\ [q EXCEPT !.layers = l] \in Request
         /\ [q EXCEPT !.layers = l].by = q.by
         /\ [q EXCEPT !.layers = l].route = q.route
         /\ [q EXCEPT !.layers = l].layers = l
         /\ Inner([q EXCEPT !.layers = l]) = Inner(q)
         /\ Acceptable([q EXCEPT !.layers = l]) <=> Acceptable(q)
         /\ Reported(q) => Reported([q EXCEPT !.layers = l])
<1> DEFINE p == [q EXCEPT !.layers = l]
<1>1. p \in Request /\ p.by = q.by /\ p.route = q.route /\ p.layers = l /\ p.items = q.items
  BY DEF Request
<1>2. ASSUME Reported(q) PROVE Reported(p)
  <2>1. PICK q0 \in AgentRequests(agent, AgentIp) : q = [q0 EXCEPT !.layers = q.layers]
    BY <1>2 DEF Reported
  <2> DEFINE k == q.layers
  <2> HIDE DEF k
  <2>2. q = [q0 EXCEPT !.layers = k]
    BY <2>1 DEF k
  <2>3. [q EXCEPT !.layers = l] = [q0 EXCEPT !.layers = l]
    BY <2>2
  <2> QED
    BY <1>1, <2>3 DEF Reported
<1> QED
  BY <1>1, <1>2 DEF Inner, Acceptable

(* The same for a layer that takes an encoding off. *)
LEMMA PeeledOK ==
  ASSUME NEW s, SlotOK(s), s.chain # <<>>, NEW c \in Seq(Layers), NEW l \in Seq(Encodings),
         s.req.by = "agent" => Follows([s.req EXCEPT !.layers = l], c)
  PROVE  SlotOK([s EXCEPT !.chain = c, !.req = [s.req EXCEPT !.layers = l]])
<1> DEFINE q == [s.req EXCEPT !.layers = l]
           t == [s EXCEPT !.chain = c, !.req = q]
<1>1. q \in Request /\ q.by = s.req.by
  BY PeeledRequest DEF SlotOK
<1> HIDE DEF q
<1>2. t \in SlotType /\ t.chain = c /\ t.status = "none" /\ t.stored = 0 /\ t.req = q
  BY <1>1 DEF SlotOK, SlotType
<1> QED
  BY <1>1, <1>2 DEF SlotOK, Truth, q

(* What AgentsAssumption says of the agent that runs. *)
AgentKeys ==
    /\ agent.SecretKey \in SecretKeys \cup {""}
    /\ agent.CryptoKey \in KeyPairs \cup {""}

(* Sequences of one, for bodies with one encoding. *)
LEMMA Singleton ==
  ASSUME NEW S, NEW k \in S
  PROVE  /\ <<k>> \in Seq(S) /\ <<k>> # <<>> /\ <<k>>[1] = k /\ Tail(<<k>>) = <<>>
         /\ <<k>> \o <<>> = <<k>>
<1>1. <<k>> \in Seq(S) /\ <<k>> # <<>> /\ <<k>>[1] = k
  OBVIOUS
<1>2. Tail(<<k>>) = <<>>
  OBVIOUS
<1>3. <<k>> \o <<>> = <<k>>
  BY <1>1, ConcatEmptySeq
<1> QED
  BY <1>1, <1>2, <1>3

LEMMA TailType ==
  ASSUME NEW S, NEW t \in Seq(S), t # <<>>
  PROVE  Tail(t) \in Seq(S)
  OBVIOUS

(* The body of a single report names the key pair it is encrypted with. *)
LEMMA SealedType ==
  ASSUME AgentKeys
  PROVE  /\ Sealed \in Seq(Encodings)
         /\ agent.CryptoKey = "" => Sealed = <<>>
         /\ agent.CryptoKey # "" =>
              /\ Sealed = <<agent.CryptoKey>> /\ Sealed # <<>>
              /\ Sealed[1] = agent.CryptoKey /\ Tail(Sealed) = <<>>
<1> DEFINE k == agent.CryptoKey
<1>1. <<>> \in Seq(Encodings)
  OBVIOUS
<1>2. Sealed = IF k # "" THEN <<k>> \o <<>> ELSE <<>>
  BY DEF Sealed, EncryptBody
<1>3. k # "" => k \in Encodings
  BY DEF AgentKeys, Encodings
<1> HIDE DEF k
<1>4. CASE k = ""
  BY <1>1, <1>2, <1>4 DEF k
<1>5. CASE k # ""
  <2>1. /\ <<k>> \in Seq(Encodings) /\ <<k>> # <<>> /\ <<k>>[1] = k /\ Tail(<<k>>) = <<>>
        /\ <<k>> \o <<>> = <<k>>
    BY <1>3, <1>5, Singleton
  <2>2. Sealed = <<k>>
    BY <1>2, <1>5, <2>1
  <2> QED
    BY <1>5, <2>1, <2>2 DEF k
<1> QED
  BY <1>4, <1>5

(* What is behind each layer. *)
LEMMA ChainTails ==
  /\ Tail(<<"ip", "gunzip", "decrypt", "handler">>) = <<"gunzip", "decrypt", "handler">>
  /\ Tail(<<"ip", "gunzip", "signature", "handler">>) = <<"gunzip", "signature", "handler">>
  /\ Tail(<<"ip", "signature", "handler">>) = <<"signature", "handler">>
  /\ Tail(<<"gunzip", "decrypt", "handler">>) = <<"decrypt", "handler">>
  /\ Tail(<<"gunzip", "signature", "handler">>) = <<"signature", "handler">>
  /\ Tail(<<"decrypt", "handler">>) = <<"handler">>
  /\ Tail(<<"signature", "handler">>) = <<"handler">>
<1>1. Tail(<<"ip", "gunzip", "decrypt", "handler">>) = <<"gunzip", "decrypt", "handler">>
  OBVIOUS
<1>2. Tail(<<"ip", "gunzip", "signature", "handler">>) = <<"gunzip", "signature", "handler">>
  OBVIOUS
<1>3. Tail(<<"ip", "signature", "handler">>) = <<"signature", "handler">>
  OBVIOUS
<1>4. Tail(<<"gunzip", "decrypt", "handler">>) = <<"decrypt", "handler">>
  OBVIOUS
<1>5. Tail(<<"gunzip", "signature", "handler">>) = <<"signature", "handler">>
  OBVIOUS
<1>6. Tail(<<"decrypt", "handler">>) = <<"handler">>
  OBVIOUS
<1>7. Tail(<<"signature", "handler">>) = <<"handler">>
  OBVIOUS
<1> QED
  BY <1>1, <1>2, <1>3, <1>4, <1>5, <1>6, <1>7

(* The layers that reports of the agent's pass. *)
LEMMA ReportChain ==
  ASSUME NEW q, Reported(q)
  PROVE  /\ q.route \in {"UpdateJSON", "Updates", "gBatchUpdate"}
         /\ q.route = "UpdateJSON" => Chain(q) = <<"ip", "gunzip", "decrypt", "handler">>
         /\ q.route = "Updates" => Chain(q) = <<"ip", "gunzip", "signature", "handler">>
         /\ q.route = "gBatchUpdate" => Chain(q) = <<"ip", "signature", "handler">>
         /\ q.route = "UpdateJSON" => Tail(Chain(q)) = <<"gunzip", "decrypt", "handler">>
         /\ q.route = "Updates" => Tail(Chain(q)) = <<"gunzip", "signature", "handler">>
         /\ q.route = "gBatchUpdate" => Tail(Chain(q)) = <<"signature", "handler">>
<1>1. /\ q.route \in {"UpdateJSON", "Updates", "gBatchUpdate"}
      /\ q.route = "UpdateJSON" => Chain(q) = <<"ip", "gunzip", "decrypt", "handler">>
      /\ q.route = "Updates" => Chain(q) = <<"ip", "gunzip", "signature", "handler">>
      /\ q.route = "gBatchUpdate" => Chain(q) = <<"ip", "signature", "handler">>
  BY ReportFields DEF Chain, ByGRPC
<1> QED
  BY <1>1, ChainTails

(* Where a report is, by the layer that has it. *)
LEMMA Stages ==
  ASSUME NEW q, NEW chain, Follows(q, chain)
  PROVE  /\ chain[1] = "ip" => chain = Chain(q)
         /\ chain[1] = "gunzip" =>
              /\ SubnetAgrees(q.route) /\ q.route # "gBatchUpdate" /\ chain = Tail(Chain(q))
              /\ q.layers = GzipToBuffer(Inner(q))
         /\ chain[1] = "decrypt" =>
              /\ SubnetAgrees(q.route) /\ q.route = "UpdateJSON"
              /\ chain = <<"decrypt", "handler">> /\ q.layers = Sealed
         /\ chain[1] = "signature" =>
              /\ SubnetAgrees(q.route) /\ q.route # "UpdateJSON"
              /\ chain = <<"signature", "handler">> /\ q.layers = Inner(q)
         /\ chain[1] = "handler" =>
              /\ SubnetAgrees(q.route) /\ chain = <<"handler">>
              /\ Acceptable(q) <=> q.layers = <<>>
              /\ q.route = "gBatchUpdate" => Acceptable(q)
         /\ chain[1] = "storage" => Acceptable(q)
<1>1. Reported(q)
  BY DEF Follows
<1>2. CASE chain = Chain(q)
  <2>1. chain[1] = "ip"
    BY <1>1, <1>2, ReportChain
  <2> QED
    BY <1>2, <2>1
<1>3. CASE q.route # "gBatchUpdate" /\ chain = Tail(Chain(q))
  <2>1. chain[1] = "gunzip"
    BY <1>1, <1>3, ReportChain
  <2>2. /\ chain # Chain(q) /\ chain # <<"decrypt", "handler">> /\ chain # <<"handler">>
        /\ chain # <<"signature", "handler">> /\ chain # <<"storage">>
    BY <1>1, <2>1, ReportChain
  <2> QED
    BY <1>3, <2>1, <2>2 DEF Follows
<1>4. CASE chain = <<"decrypt", "handler">>
  <2>1. chain[1] = "decrypt" /\ chain # Chain(q)
    BY <1>1, <1>4, ReportChain
  <2>2. q.route # "gBatchUpdate" => chain # Tail(Chain(q))
    BY <1>1, <1>4, ReportChain
  <2> QED
    BY <1>4, <2>1, <2>2 DEF Follows
<1>5. CASE chain = <<"signature", "handler">>
  <2>1. chain[1] = "signature" /\ chain # Chain(q)
    BY <1>1, <1>5, ReportChain
  <2>2. q.route # "gBatchUpdate" => chain # Tail(Chain(q))
    BY <1>1, <1>5, ReportChain
  <2> QED
    BY <1>5, <2>1, <2>2 DEF Follows
<1>6. CASE chain = <<"handler">>
  <2>1. chain[1] = "handler" /\ chain # Chain(q)
    BY <1>1, <1>6, ReportChain
  <2>2. q.route # "gBatchUpdate" => chain # Tail(Chain(q))
    BY <1>1, <1>6, ReportChain
  <2> QED
    BY <1>6, <2>1, <2>2 DEF Follows
<1>7. CASE chain = <<"storage">>
  <2>1. chain[1] = "storage" /\ chain # Chain(q)
    BY <1>1, <1>7, ReportChain
  <2>2. q.route # "gBatchUpdate" => chain # Tail(Chain(q))
    BY <1>1, <1>7, ReportChain
  <2> QED
    BY <1>7, <2>1, <2>2 DEF Follows
<1> QED
  BY <1>2, <1>3, <1>4, <1>5, <1>6, <1>7 DEF Follows

(* ValidateIp lets a report through exactly when the subnet is right for   *)
(* it.                                                                     *)
LEMMA IpStage ==
  ASSUME NEW q, NEW chain, Follows(q, chain), chain[1] = "ip"
  PROVE  /\ CheckIp(q, params.TrustedSubnet) = "pass" => Follows(q, Tail(chain))
         /\ CheckIp(q, params.TrustedSubnet) # "pass" => ~Acceptable(q)
<1>1. Reported(q) /\ chain = Chain(q)
  BY Stages DEF Follows
<1>2. \/ q.route = "Updates" /\ q.ip = ""
      \/ q.route \in {"UpdateJSON", "gBatchUpdate"} /\ q.ip = AgentIp
  BY <1>1, ReportFields
<1>3. CheckIp(q, params.TrustedSubnet) = "pass" <=> SubnetAgrees(q.route)
  BY <1>2, AgentIpAssumption DEF CheckIp, SubnetAgrees
<1>4. SubnetAgrees(q.route) => Follows(q, Tail(chain))
  <2>1. q.route = "gBatchUpdate" => Tail(chain) = <<"signature", "handler">>
    BY <1>1, ReportChain
  <2>2. q.layers = IF q.route = "gBatchUpdate" THEN <<>>
                   ELSE GzipToBuffer(Inner(q))
    <3>1. chain # <<"handler">> /\ chain # <<"storage">> /\ chain # <<"decrypt", "handler">>
          /\ chain # <<"signature", "handler">>
      BY <1>1, ReportChain
    <3>2. q.route # "gBatchUpdate" => chain # Tail(Chain(q))
      BY <1>1, ReportChain
    <3> QED
      BY <3>1, <3>2 DEF Follows
  <2> QED
    BY <1>1, <2>1, <2>2 DEF Follows, Inner
<1> QED
  BY <1>3, <1>4 DEF Acceptable, Agree, SubnetAgrees

(* A compressed report is always decompressed: gRPC alone does without. *)
LEMMA GunzipStage ==
  ASSUME AgentKeys, NEW q \in Request, NEW chain, Follows(q, chain), chain[1] = "gunzip"
  PROVE  Gunzip(q) = "peel" /\ Follows([q EXCEPT !.layers = Tail(q.layers)], Tail(chain))
<1> DEFINE inner == Inner(q)
<1>1. /\ Reported(q) /\ SubnetAgrees(q.route) /\ q.route # "gBatchUpdate"
      /\ chain = Tail(Chain(q)) /\ q.layers = <<"gzip">> \o inner
  BY Stages DEF Follows, GzipToBuffer
<1>2. inner \in Seq(Encodings)
  <2>1. <<>> \in Seq(Encodings) /\ <<"null">> \in Seq(Encodings)
    BY DEF Encodings
  <2> QED
    BY <2>1, SealedType DEF Inner, Marshal
<1> HIDE DEF inner
<1>3. q.layers # <<>> /\ q.layers[1] = "gzip" /\ Tail(q.layers) = inner
  BY <1>1, <1>2
<1>4. Gunzip(q) = "peel"
  BY <1>1, <1>3, ReportFields DEF Gunzip
<1> DEFINE p == [q EXCEPT !.layers = inner]
<1>5. Reported(p) /\ p.route = q.route /\ p.layers = inner /\ Inner(p) = inner
  BY <1>1, <1>2, PeeledRequest DEF inner
<1> HIDE DEF p
<1>6. CASE q.route = "UpdateJSON"
  <2>1. Tail(chain) = <<"decrypt", "handler">>
    BY <1>1, <1>6, ReportChain, ChainTails
  <2>2. inner = Sealed
    BY <1>6 DEF inner, Inner
  <2>3. Follows(p, Tail(chain))
    BY <1>1, <1>5, <1>6, <2>1, <2>2 DEF Follows
  <2> QED
    BY <1>3, <1>4, <2>3 DEF p
<1>7. CASE q.route = "Updates"
  <2>1. Tail(chain) = <<"signature", "handler">>
    BY <1>1, <1>7, ReportChain, ChainTails
  <2>2. Follows(p, Tail(chain))
    BY <1>1, <1>5, <1>7, <2>1 DEF Follows
  <2> QED
    BY <1>3, <1>4, <2>2 DEF p
<1> QED
  BY <1>1, <1>6, <1>7, ReportChain

(* ValidateSignature, behind decompression, sees what the agent signed. *)
LEMMA SignatureStage ==
  ASSUME NEW q, NEW chain, Follows(q, chain), chain[1] = "signature"
  PROVE  /\ CheckSignature(q, params.SecretKey) \in {"pass", "invalid"}
         /\ CheckSignature(q, params.SecretKey) = "pass" => Follows(q, Tail(chain))
         /\ CheckSignature(q, params.SecretKey) # "pass" => ~Acceptable(q)
<1> DEFINE over == q.layers
<1>1. /\ Reported(q) /\ SubnetAgrees(q.route) /\ q.route # "UpdateJSON"
      /\ chain = <<"signature", "handler">> /\ over = Inner(q)
  BY Stages DEF Follows
<1>2. q.route \in {"Updates", "gBatchUpdate"} /\ Batch(q)
  BY <1>1, ReportFields
<1>3. /\ agent.SecretKey = "" => q.signature = NoSignature
      /\ agent.SecretKey # "" => q.signature = [key |-> agent.SecretKey, over |-> over]
  BY <1>1, <1>2 DEF Batch, Sign
<1>4. Agree(q.route) <=> params.SecretKey \in {"", agent.SecretKey}
  BY <1>1, <1>2 DEF Agree, SubnetAgrees
<1>5. over = <<>> <=> (q.route = "Updates" => q.items # <<>>)
  <2>1. <<"null">> # <<>>
    OBVIOUS
  <2> HIDE DEF over
  <2> QED
    BY <1>1, <1>2, <2>1 DEF Inner, Marshal
<1>6. CheckSignature(q, params.SecretKey) = IF params.SecretKey \in {"", agent.SecretKey}
                                            THEN "pass" ELSE "invalid"
  <2>1. CASE params.SecretKey = ""
    BY <2>1 DEF CheckSignature
  <2>2. CASE params.SecretKey # "" /\ agent.SecretKey = ""
    BY <1>2, <1>3, <2>2 DEF CheckSignature
  <2>3. CASE params.SecretKey # "" /\ agent.SecretKey # ""
    <3>1. q.signature.key = agent.SecretKey /\ q.signature.over = over
      <4> DEFINE sig0 == [key |-> agent.SecretKey, over |-> over]
      <4>1. sig0.key = agent.SecretKey
        OBVIOUS
      <4>2. sig0.over = over
        OBVIOUS
      <4>3. q.signature = sig0
        BY <1>3, <2>3
      <4> HIDE DEF sig0
      <4> QED
        BY <4>1, <4>2, <4>3
    <3>2. NoSignature.key = ""
      BY DEF NoSignature
    <3>3. q.signature # NoSignature
      BY <2>3, <3>1, <3>2
    <3> QED
      BY <1>2, <2>3, <3>1, <3>3 DEF CheckSignature, IsValid
  <2> QED
    BY <2>1, <2>2, <2>3
<1>7. Tail(chain) = <<"handler">>
  BY <1>1, ChainTails
<1> QED
  BY <1>1, <1>2, <1>4, <1>5, <1>6, <1>7 DEF Follows, Acceptable

(* What once.Do leaves behind: the key, or nil for good. *)
KeyInv ==
    /\ once \in {"fresh", "loading", "done"}
    /\ once = "loading" <=> loader \in Slots
    /\ once # "fresh" => params.CryptoKey # ""
    /\ key = IF once = "done" /\ params.CryptoKey \notin Unreadable THEN params.CryptoKey
             ELSE "nil"

(* A report is decrypted exactly when both sides name one pair, whoever    *)
(* loaded the key; without a key on either side it goes on as it is.       *)
LEMMA DecryptStage ==
  ASSUME AgentKeys, KeyInv, NEW q \in Request, NEW chain, Follows(q, chain),
         chain[1] = "decrypt"
  PROVE  /\ params.CryptoKey = "" => Follows(q, Tail(chain))
         /\ params.CryptoKey # "" /\ once = "done" =>
              /\ Decrypt(q, key) = "peel" =>
                    Follows([q EXCEPT !.layers = Tail(q.layers)], Tail(chain))
              /\ Decrypt(q, key) # "peel" => ~Acceptable(q)
         /\ params.CryptoKey \in Unreadable => ~Acceptable(q)
<1>1. /\ Reported(q) /\ SubnetAgrees(q.route) /\ q.route = "UpdateJSON"
      /\ chain = <<"decrypt", "handler">> /\ q.layers = Sealed
  BY Stages DEF Follows
<1>2. Tail(chain) = <<"handler">>
  BY <1>1, ChainTails
<1>3. Acceptable(q) <=> agent.CryptoKey = params.CryptoKey
  BY <1>1 DEF Acceptable, Agree, SubnetAgrees
<1>4. /\ q.layers = <<>> <=> agent.CryptoKey = ""
      /\ q.layers # <<>> => q.layers[1] = agent.CryptoKey /\ Tail(q.layers) = <<>>
  BY <1>1, SealedType
<1>5. params.CryptoKey = "" => Follows(q, Tail(chain))
  <2>1. params.CryptoKey = "" => (Acceptable(q) <=> q.layers = <<>>)
    BY <1>3, <1>4
  <2> QED
    BY <1>1, <1>2, <2>1 DEF Follows
<1>6. ASSUME params.CryptoKey # "", once = "done", Decrypt(q, key) = "peel"
      PROVE  Follows([q EXCEPT !.layers = Tail(q.layers)], Tail(chain))
  <2>1. q.layers # <<>> /\ key # "nil" /\ q.layers[1] = key
    BY <1>6 DEF Decrypt
  <2>2. agent.CryptoKey = params.CryptoKey /\ Tail(q.layers) = <<>>
    BY <1>4, <2>1 DEF KeyInv
  <2>3. <<>> \in Seq(Encodings)
    OBVIOUS
  <2>4. /\ Reported([q EXCEPT !.layers = <<>>])
        /\ [q EXCEPT !.layers = <<>>].route = "UpdateJSON"
        /\ [q EXCEPT !.layers = <<>>].layers = <<>>
        /\ Acceptable([q EXCEPT !.layers = <<>>]) <=> Acceptable(q)
    BY <1>1, <2>3, PeeledRequest
  <2> QED
    BY <1>1, <1>2, <1>3, <2>2, <2>4 DEF Follows
<1>7. ASSUME params.CryptoKey # "", once = "done", Decrypt(q, key) # "peel",
             agent.CryptoKey = params.CryptoKey
      PROVE  FALSE
  <2>1. q.layers # <<>> /\ q.layers[1] = agent.CryptoKey
    BY <1>4, <1>7
  <2>2. key = agent.CryptoKey /\ key \notin {"nil", "gzip", "garbage", "null"}
    BY <1>7, KeyPairsAssumption DEF KeyInv, AgentKeys, Unreadable
  <2> QED
    BY <1>7, <2>1, <2>2 DEF Decrypt
<1> QED
  BY <1>3, <1>5, <1>6, <1>7, KeyPairsAssumption DEF AgentKeys, Unreadable

(* The handler turns down what is still encrypted or null, nothing else. *)
LEMMA HandlerStage ==
  ASSUME NEW q, NEW chain, Follows(q, chain), chain[1] = "handler"
  PROVE  /\ Verdict(q) \in {"call", "invalid"}
         /\ Verdict(q) = "call" => Follows(q, <<"storage">>)
         /\ Verdict(q) # "call" => ~Acceptable(q)
<1>1. /\ Reported(q) /\ SubnetAgrees(q.route)
      /\ Acceptable(q) <=> q.layers = <<>>
      /\ q.route = "gBatchUpdate" => Acceptable(q)
  BY Stages DEF Follows
<1> QED
  BY <1>1, ReportCalls DEF Follows

(* What the layers may say of any request. *)
LEMMA Verdicts ==
  ASSUME NEW q \in Request, NEW k, NEW subnet
  PROVE  /\ CheckIp(q, subnet) \in {"pass", "panic", "forbidden"}
         /\ Gunzip(q) \in {"pass", "peel", "failed"}
         /\ CheckSignature(q, k) \in {"pass", "invalid"}
         /\ Decrypt(q, k) \in {"failed", "panic", "peel"}
         /\ Verdict(q) \in {"call", "invalid", "unsupported", "missing", "failed", "panic"}
         /\ Gunzip(q) = "peel" => q.layers # <<>>
         /\ Decrypt(q, k) = "peel" => q.layers # <<>>
<1>1. VerdictJSON(q) \in {"call", "invalid", "unsupported", "missing"}
  BY DEF VerdictJSON
<1>2. VerdictPath(q) \in {"call", "invalid", "missing"}
  BY DEF VerdictPath
<1>3. VerdictGRPC(q) \in {"call", "missing", "failed", "invalid", "panic"}
  BY DEF VerdictGRPC
<1>4. Verdict(q) \in {"call", "invalid", "unsupported", "missing", "failed", "panic"}
  BY <1>1, <1>2, <1>3 DEF Verdict, ByGRPC
<1> QED
  BY <1>4 DEF CheckIp, Gunzip, CheckSignature, Decrypt

SlotsInv ==
    /\ \A r \in Slots : SlotOK(slot[r])
    /\ main = "config" => once = "fresh" /\ \A r \in Slots : slot[r].status = "none"

(* A slot that is as it should be under the old settings is so under the   *)
(* new ones, if these are the same.                                        *)
LEMMA SameMeaning ==
  ASSUME UNCHANGED <<params, agent>>, NEW x \in Slots, SlotOK(slot'[x])
  PROVE  SlotOK(slot[x])'
<1>1. Truth(slot[x])'
  BY DEF SlotOK, Truth, Acceptable, Agree
<1>2. ASSUME slot'[x].chain # <<>>, slot'[x].req.by = "agent"
      PROVE  Follows(slot[x].req, slot[x].chain)'
  <2>1. Follows(slot'[x].req, slot'[x].chain)
    BY <1>2 DEF SlotOK
  <2>2. Reported(slot[x].req)'
    BY <2>1 DEF Follows, Reported
  <2>3. Inner(slot[x].req)' = Inner(slot'[x].req)
    BY DEF Inner, Sealed
  <2>4. Acceptable(slot[x].req)' <=> Acceptable(slot'[x].req)
    BY DEF Acceptable, Agree
  <2>5. SubnetAgrees(slot[x].req.route)' <=> SubnetAgrees(slot'[x].req.route)
    BY DEF SubnetAgrees
  <2>6. Sealed' = Sealed
    BY DEF Sealed
  <2> QED
    BY <2>1, <2>2, <2>3, <2>4, <2>5, <2>6 DEF Follows
<1> QED
  BY <1>1, <1>2 DEF SlotOK

(* A step of one request. *)
LEMMA OneSlot ==
  ASSUME DrainInv, SlotsInv, NEW r \in Slots, Active(r), NEW s, SlotOK(s),
         slot' = [slot EXCEPT ![r] = s], main' = main \/ main' = "panicked",
         UNCHANGED <<params, agent>>
  PROVE  SlotsInv'
<1>1. main # "config" /\ main' # "config"
  BY DEF DrainInv, Up
<1>2. \A x \in Slots : slot'[x] = IF x = r THEN s ELSE slot[x]
  BY DEF DrainInv
<1>3. ASSUME NEW x \in Slots PROVE SlotOK(slot[x])'
  <2>1. SlotOK(slot'[x])
    BY <1>2 DEF SlotsInv
  <2> QED
    BY <2>1, SameMeaning
<1> QED
  BY <1>1, <1>3 DEF SlotsInv

(* A layer that treats the reports as it should. *)
LEMMA LayerSlots ==
  ASSUME DrainInv, SlotsInv, NEW r \in Slots, NEW name,
         NEW v \in {"pass", "peel", "call", "panic", "invalid", "unsupported", "missing",
                    "forbidden", "failed"},
         Layer(r, name, v),
         v = "peel" => slot[r].req.layers # <<>>,
         slot[r].req.by = "agent" =>
            /\ v = "pass" => Follows(slot[r].req, Tail(slot[r].chain))
            /\ v = "call" => Follows(slot[r].req, <<"storage">>)
            /\ v = "peel" => Follows([slot[r].req EXCEPT !.layers = Tail(slot[r].req.layers)],
                                     Tail(slot[r].chain))
            /\ v \notin {"pass", "call", "peel"} => ~Acceptable(slot[r].req)
  PROVE  SlotsInv'
<1> DEFINE s == slot[r]
<1>1. /\ SlotOK(s) /\ s.chain # <<>> /\ Active(r) /\ s.req \in Request
      /\ main' = main \/ main' = "panicked"
      /\ UNCHANGED <<params, agent>> /\ slot' = Passed(r, v)
  BY DEF SlotsInv, Layer, At, Active, SlotOK
<1>2. s.chain \in Seq(Layers) /\ s.req.layers \in Seq(Encodings)
  BY <1>1 DEF SlotOK, SlotType, Request
<1>3. Tail(s.chain) \in Seq(Layers)
  BY <1>1, <1>2, TailType
<1>4. s \in SlotType /\ r \in DOMAIN slot
  BY <1>1 DEF SlotOK, SlotType, DrainInv
<1>5. CASE v = "pass"
  <2>1. SlotOK([s EXCEPT !.chain = Tail(s.chain)])
    BY <1>1, <1>3, <1>5, PassedOK
  <2>2. slot' = [slot EXCEPT ![r] = [s EXCEPT !.chain = Tail(s.chain)]]
    BY <1>1, <1>5 DEF Passed
  <2> QED
    BY <1>1, <2>1, <2>2, OneSlot
<1>6. CASE v = "call"
  <2>1. <<"storage">> \in Seq(Layers)
    <3>1. "storage" \in Layers
      BY DEF Layers
    <3> QED
      BY <3>1, Singleton
  <2>2. SlotOK([s EXCEPT !.chain = <<"storage">>])
    BY <1>1, <1>6, <2>1, PassedOK
  <2>3. slot' = [slot EXCEPT ![r] = [s EXCEPT !.chain = <<"storage">>]]
    BY <1>1, <1>6 DEF Passed
  <2> QED
    BY <1>1, <2>2, <2>3, OneSlot
<1>7. CASE v = "peel"
  <2> DEFINE l == Tail(s.req.layers)
             t == [s EXCEPT !.chain = Tail(s.chain), !.req = [s.req EXCEPT !.layers = l]]
  <2>1. l \in Seq(Encodings)
    BY <1>2, <1>7, TailType
  <2>2. SlotOK(t)
    BY <1>1, <1>3, <1>7, <2>1, PeeledOK
  <2>3. slot' = [slot EXCEPT ![r] = t]
    BY <1>1, <1>7 DEF Passed
  <2> HIDE DEF t
  <2> QED
    BY <1>1, <2>2, <2>3, OneSlot
<1>8. CASE v \in {"panic", "invalid", "unsupported", "missing", "forbidden", "failed"}
  <2> DEFINE w == IF v = "panic" THEN "aborted" ELSE v
             t == [s EXCEPT !.chain = <<>>, !.status = w]
  <2>1. w \in Refusals
    BY <1>8 DEF Refusals, Statuses
  <2>2. SlotOK(t)
    BY <1>1, <1>8, <2>1, RefusedOK
  <2>3. slot' = [slot EXCEPT ![r] = t]
    BY <1>1, <1>8 DEF Passed
  <2> HIDE DEF t
  <2> QED
    BY <1>1, <2>2, <2>3, OneSlot
<1> QED
  BY <1>5, <1>6, <1>7, <1>8

(* The request that a layer has. *)
LEMMA AtFacts ==
  ASSUME SlotsInv, NEW r \in Slots, NEW name, At(r, name)
  PROVE  /\ slot[r].req \in Request /\ slot[r].chain[1] = name
         /\ slot[r].req.by = "agent" => Follows(slot[r].req, slot[r].chain)
  BY DEF SlotsInv, At, Active, SlotOK

(* The layers that need no key. *)
LEMMA ChecksStep ==
  ASSUME DrainInv, SlotsInv, AgentKeys, NEW r \in Slots,
         AtIp(r) \/ AtGunzip(r) \/ AtSignature(r) \/ AtHandler(r)
  PROVE  SlotsInv'
<1> DEFINE q == slot[r].req
<1>1. CASE AtIp(r)
  <2> DEFINE v == CheckIp(q, params.TrustedSubnet)
  <2>1. Layer(r, "ip", v) /\ At(r, "ip")
    BY <1>1 DEF AtIp, Layer
  <2>2. v \in {"pass", "panic", "forbidden"}
    BY <2>1, AtFacts, Verdicts
  <2>3. q.by = "agent" => /\ v = "pass" => Follows(q, Tail(slot[r].chain))
                          /\ v # "pass" => ~Acceptable(q)
    BY <2>1, AtFacts, IpStage
  <2> HIDE DEF v
  <2> QED
    BY <2>1, <2>2, <2>3, LayerSlots
<1>2. CASE AtGunzip(r)
  <2> DEFINE v == Gunzip(q)
  <2>1. Layer(r, "gunzip", v) /\ At(r, "gunzip")
    BY <1>2 DEF AtGunzip, Layer
  <2>2. v \in {"pass", "peel", "failed"} /\ (v = "peel" => q.layers # <<>>)
    BY <2>1, AtFacts, Verdicts
  <2>3. q.by = "agent" =>
            v = "peel" /\ Follows([q EXCEPT !.layers = Tail(q.layers)], Tail(slot[r].chain))
    BY <2>1, AtFacts, GunzipStage
  <2> HIDE DEF v
  <2> QED
    BY <2>1, <2>2, <2>3, LayerSlots
<1>3. CASE AtSignature(r)
  <2> DEFINE v == CheckSignature(q, params.SecretKey)
  <2>1. Layer(r, "signature", v) /\ At(r, "signature")
    BY <1>3 DEF AtSignature, Layer
  <2>2. v \in {"pass", "invalid"}
    BY <2>1, AtFacts, Verdicts
  <2>3. q.by = "agent" => /\ v = "pass" => Follows(q, Tail(slot[r].chain))
                          /\ v # "pass" => ~Acceptable(q)
    BY <2>1, AtFacts, SignatureStage
  <2> HIDE DEF v
  <2> QED
    BY <2>1, <2>2, <2>3, LayerSlots
<1>4. CASE AtHandler(r)
  <2> DEFINE v == Verdict(q)
  <2>1. Layer(r, "handler", v) /\ At(r, "handler")
    BY <1>4 DEF AtHandler, Layer
  <2>2. v \in {"call", "invalid", "unsupported", "missing", "failed", "panic"}
    BY <2>1, AtFacts, Verdicts
  <2>3. q.by = "agent" => /\ v = "call" => Follows(q, <<"storage">>)
                          /\ v # "call" => ~Acceptable(q)
    BY <2>1, AtFacts, HandlerStage
  <2> HIDE DEF v
  <2> QED
    BY <2>1, <2>2, <2>3, LayerSlots
<1> QED
  BY <1>1, <1>2, <1>3, <1>4

(* Decryption, and the load that fails. *)
LEMMA DecryptStep ==
  ASSUME DrainInv, SlotsInv, KeyInv, AgentKeys, NEW r \in Slots, AtDecrypt(r) \/ LoadFails(r)
  PROVE  SlotsInv'
<1> DEFINE q == slot[r].req
<1>1. CASE AtDecrypt(r) /\ params.CryptoKey = ""
  <2>1. Layer(r, "decrypt", "pass") /\ At(r, "decrypt")
    BY <1>1 DEF AtDecrypt, Ready
  <2>2. q.by = "agent" => Follows(q, Tail(slot[r].chain))
    BY <1>1, <2>1, AtFacts, DecryptStage
  <2> QED
    BY <2>1, <2>2, LayerSlots
<1>2. CASE AtDecrypt(r) /\ params.CryptoKey # ""
  <2> DEFINE v == Decrypt(q, key)
  <2>1. Layer(r, "decrypt", v) /\ At(r, "decrypt") /\ once = "done"
    BY <1>2 DEF AtDecrypt, Ready
  <2>2. v \in {"failed", "panic", "peel"} /\ (v = "peel" => q.layers # <<>>)
    BY <2>1, AtFacts, Verdicts
  <2>3. q.by = "agent" =>
          /\ v = "peel" =>
                Follows([q EXCEPT !.layers = Tail(q.layers)], Tail(slot[r].chain))
          /\ v # "peel" => ~Acceptable(q)
    BY <1>2, <2>1, AtFacts, DecryptStage
  <2> HIDE DEF v
  <2> QED
    BY <2>1, <2>2, <2>3, LayerSlots
<1>3. CASE LoadFails(r)
  <2> DEFINE v == IF params.CryptoKey = "missing" THEN "failed" ELSE "panic"
  <2>1. Layer(r, "decrypt", v) /\ At(r, "decrypt") /\ params.CryptoKey \in Unreadable
    BY <1>3 DEF LoadFails, Layer
  <2>2. q.by = "agent" => ~Acceptable(q)
    BY <2>1, AtFacts, DecryptStage
  <2>3. v \in {"failed", "panic"}
    OBVIOUS
  <2> HIDE DEF v
  <2> QED
    BY <2>1, <2>2, <2>3, LayerSlots
<1> QED
  BY <1>1, <1>2, <1>3

(* The storage call is the last step of a report that is to be accepted. *)
LEMMA StorageStep ==
  ASSUME DrainInv, SlotsInv, NEW r \in Slots, AtStorage(r) \/ StorageFails(r)
  PROVE  SlotsInv'
<1> DEFINE s == slot[r]
           T(status, n, fault) == [s EXCEPT !.chain = <<>>, !.status = status,
                                            !.stored = n, !.fault = fault]
<1>1. /\ SlotOK(s) /\ s.chain # <<>> /\ Active(r) /\ s.req \in Request
      /\ main' = main \/ main' = "panicked"
      /\ UNCHANGED <<params, agent>>
      /\ s.req.by = "agent" => Acceptable(s.req)
  <2>1. At(r, "storage")
    BY DEF AtStorage, StorageFails
  <2>2. s.req.by = "agent" => Acceptable(s.req)
    BY <2>1, AtFacts, Stages
  <2> QED
    BY <2>1, <2>2, AtFacts DEF SlotsInv, At, Active, AtStorage, StorageFails, process
<1>2. Len(s.req.items) \in Nat
  <2>1. s.req.items \in Seq(ItemKinds)
    BY <1>1 DEF Request
  <2> QED
    BY <2>1
<1>3. ASSUME NEW status \in Statuses, NEW n \in Nat, NEW fault \in BOOLEAN,
             status # "none",
             status \in {"invalid", "unsupported", "missing", "forbidden"} => n = 0,
             status = "ok" /\ Writes(s.req) => n = Len(s.req.items),
             status # "ok" /\ s.req.by = "agent" => fault,
             slot' = [slot EXCEPT ![r] = T(status, n, fault)]
      PROVE  SlotsInv'
  <2> DEFINE t == T(status, n, fault)
  <2>1. <<>> \in Seq(Layers)
    OBVIOUS
  <2>2. /\ t \in SlotType /\ t.chain = <<>> /\ t.status = status /\ t.stored = n
        /\ t.fault = fault /\ t.req = s.req
    BY <1>1, <2>1 DEF SlotOK, SlotType
  <2>3. SlotOK(t)
    <3> HIDE DEF t
    <3> QED
      BY <1>1, <1>3, <2>2 DEF SlotOK, Truth
  <2> HIDE DEF t
  <2>4. slot' = [slot EXCEPT ![r] = t]
    BY <1>3 DEF t
  <2> QED
    BY <1>1, <2>3, <2>4, OneSlot
<1>4. CASE AtStorage(r) /\ Writes(s.req)
  <2>1. slot' = [slot EXCEPT ![r] = T("ok", Len(s.req.items), FALSE)]
    BY <1>4 DEF AtStorage, Answered
  <2> QED
    BY <1>2, <1>3, <2>1 DEF Statuses
<1>5. CASE AtStorage(r) /\ ~Writes(s.req)
  <2>1. s.req.by # "agent"
    <3>1. ASSUME s.req.by = "agent" PROVE FALSE
      <4>1. Follows(s.req, s.chain)
        BY <1>5, <3>1, AtFacts DEF AtStorage
      <4> QED
        BY <1>5, <4>1, ReportFields DEF Follows, Writes
    <3> QED
      BY <3>1
  <2>2. PICK status \in {"ok", "missing", "failed"} :
            slot' = [slot EXCEPT ![r] = T(status, 0, FALSE)]
    BY <1>5 DEF AtStorage, Answered
  <2>3. status \in Statuses /\ status # "none" /\ 0 \in Nat /\ FALSE \in BOOLEAN
    BY DEF Statuses
  <2> QED
    BY <1>3, <1>5, <2>1, <2>2, <2>3
<1>6. CASE StorageFails(r)
  <2>1. PICK n \in 0 .. Len(s.req.items), status \in {"failed", "aborted"} :
            slot' = Answered(r, status, n, TRUE)
    BY <1>6 DEF StorageFails
  <2>2. n \in Nat /\ status \in Statuses /\ status # "none" /\ TRUE \in BOOLEAN
    BY <1>2 DEF Statuses
  <2>3. slot' = [slot EXCEPT ![r] = T(status, n, TRUE)]
    BY <2>1 DEF Answered
  <2> HIDE DEF T
  <2> QED
    BY <1>3, <2>2, <2>3
<1> QED
  BY <1>4, <1>5, <1>6

(* A report as the agent sends it is at the start of its way. *)
LEMMA ReportType ==
  ASSUME AgentKeys, NEW q \in AgentRequests(agent, AgentIp)
  PROVE  q \in Request /\ q.by = "agent" /\ Follows(q, Chain(q))
<1>1. Sealed \in Seq(Encodings) /\ <<>> \in Seq(Encodings)
  <2>1. <<>> \in Seq(Encodings)
    OBVIOUS
  <2> QED
    BY <2>1, SealedType
<1>2. <<"gzip">> \in Seq(Encodings)
  <2>1. "gzip" \in Encodings
    BY DEF Encodings
  <2> QED
    BY <2>1, Singleton
<1>3. ASSUME NEW items PROVE Marshal(items) \in Seq(Encodings)
  <2>1. <<"null">> \in Seq(Encodings)
    BY DEF Encodings
  <2> QED
    BY <1>1, <2>1 DEF Marshal
<1>4. ASSUME NEW l \in Seq(Encodings) PROVE GzipToBuffer(l) \in Seq(Encodings)
  BY <1>2, ConcatProperties DEF GzipToBuffer
<1>5. <<"good">> \in Seq(ItemKinds) /\ Batches \subseteq Seq(ItemKinds)
  BY DEF ItemKinds, Batches
<1>6. /\ NoSignature \in [key : SecretKeys \cup {""}, over : Seq(Encodings)]
      /\ \A l \in Seq(Encodings) : Sign(l, agent.SecretKey)
                \in [key : SecretKeys \cup {""}, over : Seq(Encodings)]
  BY <1>1 DEF NoSignature, Sign, AgentKeys
<1>7. \/ q = SingleReport(agent, AgentIp)
      \/ \E items \in Batches : q = BatchReport(agent, items)
      \/ \E items \in Batches : q = BatchReportGRPC(agent, AgentIp, items)
  BY DEF AgentRequests
<1>8. Reported(q)
  <2>1. q = [q EXCEPT !.layers = q.layers]
    BY <1>7 DEF SingleReport, BatchReport, BatchReportGRPC
  <2> QED
    BY <2>1 DEF Reported
<1>9. CASE q = SingleReport(agent, AgentIp)
  <2>1. q.layers = GzipToBuffer(Sealed) /\ q.route = "UpdateJSON" /\ q.by = "agent"
    BY <1>9 DEF SingleReport, Sealed
  <2>2. q \in Request
    <3>1. GzipToBuffer(Sealed) \in Seq(Encodings)
      BY <1>1, <1>4
    <3> QED
      BY <1>5, <1>6, <1>9, <3>1, AgentIpAssumption DEF SingleReport, Sealed, Request
  <2> QED
    BY <1>8, <2>1, <2>2 DEF Follows, Inner
<1>10. ASSUME NEW items \in Batches, q = BatchReport(agent, items)
       PROVE  q \in Request /\ q.by = "agent" /\ Follows(q, Chain(q))
  <2>1. /\ q.layers = GzipToBuffer(Marshal(items)) /\ q.route = "Updates" /\ q.by = "agent"
        /\ q.items = items
    BY <1>10 DEF BatchReport
  <2>2. q \in Request
    <3>1. Marshal(items) \in Seq(Encodings)
      BY <1>3
    <3>2. GzipToBuffer(Marshal(items)) \in Seq(Encodings)
      BY <1>4, <3>1
    <3>3. Sign(Marshal(items), agent.SecretKey)
            \in [key : SecretKeys \cup {""}, over : Seq(Encodings)]
      BY <1>6, <3>1
    <3> QED
      BY <1>5, <1>6, <1>10, <3>2, <3>3 DEF BatchReport, Request
  <2> QED
    BY <1>8, <2>1, <2>2 DEF Follows, Inner
<1>11. ASSUME NEW items \in Batches, q = BatchReportGRPC(agent, AgentIp, items)
       PROVE  q \in Request /\ q.by = "agent" /\ Follows(q, Chain(q))
  <2>1. q.layers = <<>> /\ q.route = "gBatchUpdate" /\ q.by = "agent"
    BY <1>11 DEF BatchReportGRPC
  <2>2. q \in Request
    BY <1>1, <1>5, <1>6, <1>11, AgentIpAssumption DEF BatchReportGRPC, Request
  <2> QED
    BY <1>8, <2>1, <2>2 DEF Follows
<1> QED
  BY <1>7, <1>9, <1>10, <1>11

LEMMA ArriveStep ==
  ASSUME DrainInv, SlotsInv, AgentKeys, NEW r \in Slots, NEW q \in Clients, Arrive(r, q)
  PROVE  SlotsInv'
<1> DEFINE s == [Idle EXCEPT !.req = q, !.chain = Chain(q)]
<1>1. /\ main \in {"serve", "wait"} /\ UNCHANGED <<main, params, agent>>
      /\ slot' = [slot EXCEPT ![r] = s]
  BY DEF Arrive, DrainInv, process
<1>2. q \in Request /\ (q.by = "agent" => Follows(q, Chain(q)))
  BY ReportType, OthersAssumption DEF Clients
<1>3. Chain(q) \in Seq(Layers)
  <2>1. /\ "ip" \in Layers /\ "gunzip" \in Layers /\ "signature" \in Layers
        /\ "decrypt" \in Layers /\ "handler" \in Layers
    BY DEF Layers
  <2>2. /\ <<"ip", "gunzip", "decrypt", "handler">> \in Seq(Layers)
        /\ <<"ip", "gunzip", "signature", "handler">> \in Seq(Layers)
    BY <2>1
  <2>3. /\ <<"handler">> \in Seq(Layers) /\ <<"ip", "signature", "handler">> \in Seq(Layers)
        /\ <<"ip", "gunzip", "handler">> \in Seq(Layers)
    BY <2>1
  <2> QED
    BY <2>2, <2>3 DEF Chain
<1>4. /\ s \in SlotType /\ s.req = q /\ s.chain = Chain(q) /\ s.status = "none"
      /\ s.stored = 0
  BY <1>2, <1>3 DEF SlotType, Idle, Statuses
<1> HIDE DEF s
<1>5. SlotOK(s)
  BY <1>2, <1>4 DEF SlotOK, Truth
<1>6. ASSUME NEW x \in Slots PROVE SlotOK(slot[x])'
  <2>1. SlotOK(slot'[x])
    BY <1>1, <1>5 DEF SlotsInv, DrainInv
  <2> QED
    BY <1>1, <2>1, SameMeaning
<1> QED
  BY <1>1, <1>6 DEF SlotsInv

(* Of a request that is not there in full nothing has been answered; that  *)
(* its client fails it is no answer either.                                *)
LEMMA BodyStep ==
  ASSUME DrainInv, SlotsInv, NEW r \in Slots, BodyArrives(r) \/ ClientLeaves(r)
  PROVE  SlotsInv'
<1> DEFINE s == slot[r]
<1>1. /\ SlotOK(s) /\ s.chain # <<>> /\ Active(r) /\ s \in SlotType
      /\ UNCHANGED <<main, params, agent>>
  BY DEF SlotsInv, SlotOK, BodyArrives, ClientLeaves, Active, process
<1>2. CASE BodyArrives(r)
  <2> DEFINE t == [s EXCEPT !.whole = TRUE]
  <2>1. /\ t \in SlotType /\ t.chain = s.chain /\ t.status = s.status /\ t.stored = s.stored
        /\ t.req = s.req /\ t.fault = s.fault
    BY <1>1 DEF SlotType
  <2>2. slot' = [slot EXCEPT ![r] = t]
    BY <1>2 DEF BodyArrives
  <2> HIDE DEF t
  <2>3. SlotOK(t)
    BY <1>1, <2>1 DEF SlotOK, Truth
  <2> QED
    BY <1>1, <2>2, <2>3, OneSlot
<1>3. CASE ClientLeaves(r)
  <2> DEFINE t == [s EXCEPT !.chain = <<>>, !.status = "failed", !.fault = TRUE]
  <2>1. <<>> \in Seq(Layers) /\ "failed" \in Statuses
    BY DEF Statuses
  <2>2. /\ t \in SlotType /\ t.chain = <<>> /\ t.status = "failed" /\ t.req = s.req
        /\ t.fault = TRUE
    BY <1>1, <2>1 DEF SlotType
  <2>3. slot' = [slot EXCEPT ![r] = t]
    BY <1>3 DEF ClientLeaves
  <2> HIDE DEF t
  <2>4. SlotOK(t)
    BY <2>2 DEF SlotOK, Truth
  <2> QED
    BY <1>1, <2>3, <2>4, OneSlot
<1> QED
  BY <1>2, <1>3

(* Steps that are not about requests. *)
LEMMA SameSlots ==
  ASSUME SlotsInv, UNCHANGED <<slot, params, agent>>,
         main' = "config" => main = "config" /\ once' = once
  PROVE  SlotsInv'
<1>1. ASSUME NEW x \in Slots PROVE SlotOK(slot[x])'
  <2>1. SlotOK(slot'[x])
    BY DEF SlotsInv
  <2> QED
    BY <2>1, SameMeaning
<1> QED
  BY <1>1 DEF SlotsInv

(* Settings are read before there is any request. *)
LEMMA MainSlots ==
  ASSUME DrainInv, SlotsInv, Main \/ Signal \/ Drained
  PROVE  SlotsInv'
<1>1. CASE main = "config"
  <2>1. \A r \in Slots : slot[r].status = "none" /\ slot[r].chain = <<>>
    BY <1>1 DEF SlotsInv, DrainInv, Active, Up
  <2>2. UNCHANGED <<slot, once>>
    BY DEF Main, Configure, Open, Listen, ListenFails, Served, Waited, Close, Signal, Drained,
           reqVars, keyVars
  <2>3. \A r \in Slots : slot[r] \in SlotType
    BY DEF SlotsInv, SlotOK
  <2>4. \A r \in Slots : SlotOK(slot[r])'
    BY <2>1, <2>2, <2>3 DEF SlotOK, Truth
  <2> QED
    BY <1>1, <2>1, <2>2, <2>4 DEF SlotsInv
<1>2. CASE main # "config"
  <2>1. UNCHANGED <<slot, params, agent>> /\ main' # "config"
    BY <1>2 DEF Main, Configure, Open, Listen, ListenFails, Served, Waited, Close, Signal,
                Drained, reqVars
  <2> QED
    BY <2>1, SameSlots
<1> QED
  BY <1>1, <1>2

(* Loading the key changes no request. *)
LEMMA LoadSlots ==
  ASSUME DrainInv, SlotsInv, NEW r \in Slots, BeginLoad(r) \/ Load(r)
  PROVE  SlotsInv'
<1>1. UNCHANGED <<main, slot, params, agent>>
  BY DEF BeginLoad, Load, process
<1>2. main # "config"
  <2>1. CASE BeginLoad(r)
    BY <2>1 DEF BeginLoad, At, DrainInv
  <2>2. CASE Load(r)
    BY <2>2 DEF Load, SlotsInv
  <2> QED
    BY <2>1, <2>2
<1> QED
  BY <1>1, <1>2, SameSlots

LEMMA KeyStep ==
  ASSUME DrainInv, SlotsInv, KeyInv, [Next]_vars
  PROVE  KeyInv'
<1>1. CASE Main \/ Signal \/ Drained
  <2>1. UNCHANGED <<once, key, loader>>
    BY <1>1 DEF Main, Configure, Open, Listen, ListenFails, Served, Waited, Close, Signal,
                Drained, reqVars, keyVars
  <2>2. CASE main = "config"
    BY <2>1, <2>2 DEF KeyInv, SlotsInv
  <2>3. CASE main # "config"
    BY <1>1, <2>1, <2>3 DEF KeyInv, Main, Configure, Open, Listen, ListenFails, Served, Waited,
                            Close, Signal, Drained
  <2> QED
    BY <2>2, <2>3
<1>2. CASE UNCHANGED vars
  BY <1>2 DEF KeyInv, vars, process, reqVars, keyVars
<1>3. ASSUME NEW r \in Slots, NEW q \in Clients, Arrive(r, q) PROVE KeyInv'
  BY <1>3 DEF KeyInv, Arrive, process, keyVars
<1>4. ASSUME NEW r \in Slots, BodyArrives(r) \/ ClientLeaves(r) PROVE KeyInv'
  BY <1>4 DEF KeyInv, BodyArrives, ClientLeaves, process, keyVars
<1>5. ASSUME NEW r \in Slots, Serving(r) PROVE KeyInv'
  <2>1. CASE AtIp(r) \/ AtGunzip(r) \/ AtSignature(r) \/ AtDecrypt(r) \/ AtHandler(r)
    BY <2>1 DEF KeyInv, AtIp, AtGunzip, AtSignature, AtDecrypt, AtHandler, Layer, keyVars
  <2>2. CASE AtStorage(r) \/ StorageFails(r)
    BY <2>2 DEF KeyInv, AtStorage, StorageFails, process, keyVars
  <2>3. CASE BeginLoad(r)
    BY <2>3 DEF KeyInv, BeginLoad, process
  <2>4. CASE Load(r)
    BY <2>4, SpareAssumption DEF KeyInv, Load, process
  <2>5. CASE LoadFails(r)
    BY <2>5, SpareAssumption DEF KeyInv, LoadFails, Layer
  <2> QED
    BY <1>5, <2>1, <2>2, <2>3, <2>4, <2>5 DEF Serving
<1> QED
  BY <1>1, <1>2, <1>3, <1>4, <1>5 DEF Next

(* The part of TypeOK that is not about requests and keys. *)
LifeTypes ==
    /\ main \in {"config", "open", "listen", "serve", "wait", "close",
                 "exited", "panicked", "killed"}
    /\ params # <<>> => DOMAIN params = DOMAIN ServerTag
    /\ lis \in {"none", "open", "closed"}
    /\ sig \in {"none", "ready", "draining", "done"}
    /\ store \in {"none", "open", "locked", "closed"}
    /\ requests \in 0 .. MaxRequests

ServerInv == DrainInv /\ SlotsInv /\ KeyInv /\ AgentKeys /\ LifeTypes

LEMMA LifeStep ==
  ASSUME AgentKeys, LifeTypes, [Next]_vars
  PROVE  AgentKeys' /\ LifeTypes'
<1>1. CASE Configure
  <2>1. DOMAIN Initialize(launch, ServerTag) = DOMAIN ServerTag
    BY DEF Initialize, Under, Over, InFile
  <2> QED
    BY <1>1, <2>1 DEF Configure, AgentKeys, LifeTypes, reqVars
<1>2. CASE Open \/ Listen \/ ListenFails \/ Served \/ Waited \/ Close \/ Signal \/ Drained
  BY <1>2 DEF Open, Listen, ListenFails, Served, Waited, Close, Signal, Drained, AgentKeys,
              LifeTypes, reqVars
<1>3. CASE UNCHANGED vars
  BY <1>3 DEF AgentKeys, LifeTypes, vars, process, reqVars
<1>4. ASSUME NEW r \in Slots, NEW q \in Clients, Arrive(r, q) PROVE AgentKeys' /\ LifeTypes'
  <2>1. requests' \in 0 .. MaxRequests
    BY <1>4, MaxRequestsAssumption DEF Arrive, LifeTypes
  <2> QED
    BY <1>4, <2>1 DEF Arrive, AgentKeys, LifeTypes, process
<1>5. ASSUME NEW r \in Slots, BodyArrives(r) \/ ClientLeaves(r)
      PROVE  AgentKeys' /\ LifeTypes'
  BY <1>5 DEF BodyArrives, ClientLeaves, AgentKeys, LifeTypes, process
<1>6. ASSUME NEW r \in Slots, Serving(r) PROVE AgentKeys' /\ LifeTypes'
  <2>1. UNCHANGED <<launch, params, agent, lis, sig, requests>>
    BY <1>6 DEF Serving, AtIp, AtGunzip, AtSignature, BeginLoad, Load, LoadFails, AtDecrypt,
                AtHandler, AtStorage, StorageFails, Layer, process
  <2>2. (main' = main \/ main' = "panicked") /\ store' \in {store, "locked"}
    BY <1>6 DEF Serving, AtIp, AtGunzip, AtSignature, BeginLoad, Load, LoadFails, AtDecrypt,
                AtHandler, AtStorage, StorageFails, Layer, process
  <2> QED
    BY <2>1, <2>2 DEF AgentKeys, LifeTypes
<1> QED
  BY <1>1, <1>2, <1>3, <1>4, <1>5, <1>6 DEF Next, Main

LEMMA InitServerInv == Init => ServerInv
<1> SUFFICES ASSUME Init PROVE ServerInv
  OBVIOUS
<1>1. AgentKeys
  BY AgentsAssumption DEF Init, AgentKeys
<1>2. \A r \in Slots : SlotOK(slot[r]) /\ slot[r].status = "none"
  <2>1. <<>> \in Seq(Layers)
    OBVIOUS
  <2>2. Idle \in SlotType
    BY <2>1 DEF Idle, SlotType, Statuses
  <2>3. Idle.chain = <<>> /\ Idle.status = "none"
    BY DEF Idle
  <2>4. SlotOK(Idle)
    BY <2>2, <2>3 DEF SlotOK, Truth
  <2> QED
    BY <2>3, <2>4 DEF Init
<1>3. KeyInv
  BY SpareAssumption DEF Init, KeyInv
<1>4. LifeTypes
  BY MaxRequestsAssumption DEF Init, LifeTypes
<1> QED
  BY <1>1, <1>2, <1>3, <1>4, InitDrainInv DEF ServerInv, SlotsInv, Init

LEMMA NextServerInv == ServerInv /\ [Next]_vars => ServerInv'
<1> SUFFICES ASSUME ServerInv, [Next]_vars PROVE ServerInv'
  OBVIOUS
<1> USE DEF ServerInv
<1>1. DrainInv' /\ KeyInv' /\ AgentKeys' /\ LifeTypes'
  BY NextDrainInv, KeyStep, LifeStep
<1>2. SlotsInv'
  <2>1. CASE Main \/ Signal \/ Drained
    BY <2>1, MainSlots
  <2>2. ASSUME NEW r \in Slots, NEW q \in Clients, Arrive(r, q) PROVE SlotsInv'
    BY <2>2, ArriveStep
  <2>3. ASSUME NEW r \in Slots, Serving(r) PROVE SlotsInv'
    <3>1. CASE AtIp(r) \/ AtGunzip(r) \/ AtSignature(r) \/ AtHandler(r)
      BY <3>1, ChecksStep
    <3>2. CASE AtDecrypt(r) \/ LoadFails(r)
      BY <3>2, DecryptStep
    <3>3. CASE BeginLoad(r) \/ Load(r)
      BY <3>3, LoadSlots
    <3>4. CASE AtStorage(r) \/ StorageFails(r)
      BY <3>4, StorageStep
    <3> QED
      BY <2>3, <3>1, <3>2, <3>3, <3>4 DEF Serving
  <2>4. ASSUME NEW r \in Slots, BodyArrives(r) \/ ClientLeaves(r) PROVE SlotsInv'
    BY <2>4, BodyStep
  <2>5. CASE UNCHANGED vars
    BY <2>5, SameSlots DEF vars, process, reqVars, keyVars
  <2> QED
    BY <2>1, <2>2, <2>3, <2>4, <2>5 DEF Next
<1> QED
  BY <1>1, <1>2

(* The invariant that the theorems below are read off from. *)
THEOREM ServerInvariant == Spec => []ServerInv
  BY InitServerInv, NextServerInv, PTL DEF Spec

(* The state of the server stays within its types. *)
THEOREM ServerTypeCorrect == Spec => []TypeOK
<1>1. ServerInv => TypeOK
  <2> SUFFICES ASSUME ServerInv PROVE TypeOK
    OBVIOUS
  <2>1. \A r \in Slots :
          /\ slot[r].req # Spare => slot[r].req \in Request
          /\ Active(r) => slot[r].status = "none" /\ slot[r].stored = 0
          /\ slot[r].status \in Statuses
    BY DEF ServerInv, SlotsInv, SlotOK, SlotType, Active
  <2> QED
    BY <2>1 DEF ServerInv, KeyInv, LifeTypes, TypeOK, Statuses
<1> QED
  BY <1>1, ServerInvariant, PTL

(* Whatever the settings of both programs, whoever else sends what, and    *)
(* however the requests race for the key: a refusal stored nothing, a      *)
(* success stored all, and a report of the agent's is accepted exactly     *)
(* when the settings agree, but for an empty batch by HTTP, which never is *)
(* (the chain of GetRouter and of runGRPCServer, and the handlers).        *)
THEOREM AnswersAreTrue == Spec => []AnswersTellTheTruth
<1>1. ServerInv => AnswersTellTheTruth
  BY DEF ServerInv, SlotsInv, SlotOK, Truth, AnswersTellTheTruth
<1> QED
  BY <1>1, ServerInvariant, PTL

(* config.Initialize prefers the environment to the file and the file to   *)
(* the flags, for any launch.                                              *)
THEOREM SettingsAreInOrder == Spec => SettingsInOrder
<1>1. ASSUME [Next]_vars, main = "config", main' = "open", NEW s \in DOMAIN ServerTag
      PROVE  params'[s] = IF launch.env[s] \notin {Unset, ""} THEN launch.env[s]
                          ELSE IF Filed(launch, s) # Unset THEN Filed(launch, s)
                          ELSE launch.flag[s]
  <2>1. params' = Initialize(launch, ServerTag)
    <3>1. ~UNCHANGED vars
      BY <1>1 DEF vars, process
    <3>2. /\ ~Signal /\ ~Drained /\ \A r \in Slots, q \in Clients : ~Arrive(r, q)
          /\ \A r \in Slots : ~BodyArrives(r) /\ ~ClientLeaves(r)
      BY <1>1 DEF Signal, Drained, Arrive, BodyArrives, ClientLeaves, process
    <3>3. \A r \in Slots : ~Serving(r)
      BY <1>1 DEF Serving, AtIp, AtGunzip, AtSignature, BeginLoad, Load, LoadFails, AtDecrypt,
                  AtHandler, AtStorage, StorageFails, Layer, process
    <3>4. Configure
      BY <1>1, <3>1, <3>2, <3>3 DEF Next, Main, Open, Listen, ListenFails, Served, Waited, Close
    <3> QED
      BY <1>1, <3>4 DEF Configure
  <2>2. ServerTag[s] # "-"
    BY <1>1 DEF ServerTag
  <2>3. InFile(launch, ServerTag)[s] = Filed(launch, s)
    BY <1>1, <2>2 DEF InFile, Filed
  <2>4. DOMAIN InFile(launch, ServerTag) = DOMAIN ServerTag
    BY DEF InFile
  <2> HIDE DEF InFile
  <2> QED
    BY <1>1, <2>1, <2>3, <2>4 DEF Initialize, Under, Over, Unset
<1> DEFINE A == main = "config" /\ main' = "open" =>
                    \A s \in DOMAIN ServerTag :
                        params'[s] = IF launch.env[s] \notin {Unset, ""} THEN launch.env[s]
                                     ELSE IF Filed(launch, s) # Unset THEN Filed(launch, s)
                                     ELSE launch.flag[s]
<1>2. [Next]_vars => [A]_vars
  BY <1>1
<1>3. [][A]_vars => SettingsInOrder
  BY DEF SettingsInOrder
<1> HIDE DEF A
<1> QED
  BY <1>2, <1>3, PTL DEF Spec
=============================================================================
