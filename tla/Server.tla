------------------------------- MODULE Server -------------------------------
(***************************************************************************)
(* The life of the server process (server/main.go): settings, storage,     *)
(* listener, signal, draining, the final Close; and, while it serves, the  *)
(* requests in its chain of middleware and handlers.  Three kinds of       *)
(* goroutine meet here: main, the one that waits for a signal, and one per *)
(* request.  Inside a storage call see MemStorage, HybridStorage and       *)
(* DBStorage; here a call succeeds or fails, with any part of a batch done. *)
(***************************************************************************)
EXTENDS Requests, Settings

CONSTANTS
    Slots,          \* connections
    ServerLaunches, \* what the server may be started with
    AgentLaunches,  \* what the agent may be started with
    AgentIp,        \* the agent's network
    OtherRequests,  \* what other clients send
    Spare,          \* a slot's request while it has none
    MaxRequests     \* bound: requests

(* An agent that can not read its public key encrypts, and so sends, nothing. *)
ASSUME AgentsAssumption ==
    \A l \in AgentLaunches :
        /\ Initialize(l, AgentTag).SecretKey \in SecretKeys \cup {""}
        /\ Initialize(l, AgentTag).CryptoKey \in KeyPairs \cup {""}
ASSUME AgentIpAssumption == AgentIp \in {"10.0.0.0/8", "192.168.0.0/16"}
ASSUME OthersAssumption == \A q \in OtherRequests : q \in Request /\ q.by = "other"
ASSUME SpareAssumption == Spare \notin Slots
ASSUME MaxRequestsAssumption == MaxRequests \in Nat

VARIABLES
    main,       \* where the main goroutine is
    launch,     \* how the server was started, until it has read it
    params,     \* *config.Params
    agent,      \* the settings of the agent
    lis,        \* the listener
    sig,        \* where the goroutine that waits for a signal is
    store,      \* the storage: "none", "open", "locked" (open, with the mutex of
                \* MemStorage locked for ever), "closed"
    once, key,  \* sync.Once and the RSA key it loads, both global
    loader,     \* the slot whose goroutine loads it
    slot,       \* per connection its request, the layers still to pass, ...
    requests    \* requests so far

process == <<main, launch, params, agent, lis, sig, store>>
keyVars == <<once, key, loader>>
reqVars == <<keyVars, slot, requests>>
vars == <<process, reqVars>>

(* whole: all of the request has come; fault: the storage or the client    *)
(* failed it.                                                              *)
Idle == [req |-> Spare, whole |-> FALSE, chain |-> <<>>, status |-> "none", stored |-> 0,
         fault |-> FALSE]

GRPC == params.UseGRPC = "true"
Up == main \notin {"exited", "panicked", "killed"}
Active(r) == slot[r].chain # <<>>

Init ==
    /\ main = "config" /\ launch \in ServerLaunches /\ params = <<>>
    /\ \E l \in AgentLaunches :
        /\ ~Panics(l, AgentTag)
        /\ agent = Initialize(l, AgentTag)
    /\ lis = "none" /\ sig = "none" /\ store = "none"
    /\ once = "fresh" /\ key = "nil" /\ loader = Spare
    /\ slot = [r \in Slots |-> Idle]
    /\ requests = 0

-----------------------------------------------------------------------------
Configure ==
    /\ main = "config"
    /\ launch' = <<>>
    /\ IF Panics(launch, ServerTag) THEN main' = "panicked" /\ UNCHANGED params
       ELSE main' = "open" /\ params' = Initialize(launch, ServerTag)
    /\ UNCHANGED <<agent, lis, sig, store, reqVars>>

(* The storage opens, or Run returns before anything is deferred. *)
Open ==
    /\ main = "open"
    /\ \/ main' = "listen" /\ store' = "open"
       \/ main' = "exited" /\ UNCHANGED store
    /\ sig' = IF main' = "listen" /\ ~GRPC THEN "ready" ELSE "none"
    /\ UNCHANGED <<launch, params, agent, lis, reqVars>>

(* Mutated form of Listen: a server that was shut down listens all the same. *)
ListenAnyway ==
    /\ main = "listen" /\ ~(GRPC /\ params.CryptoKey \in Unreadable)
    /\ main' = "serve" /\ lis' = "open"
    /\ sig' = IF sig = "none" THEN "ready" ELSE sig
    /\ UNCHANGED <<launch, params, agent, store, reqVars>>

(* The goroutine for the signal is started before ListenAndServe, but after *)
(* net.Listen for gRPC.  Shutdown may have been called by now.  A server    *)
(* with a key for TLS has its certificate; CryptoCert is no setting here.   *)
Listen ==
    /\ main = "listen" /\ ~(GRPC /\ params.CryptoKey \in Unreadable)
    /\ IF sig \in {"draining", "done"} THEN main' = "wait" /\ UNCHANGED <<lis, sig>>
       ELSE main' = "serve" /\ lis' = "open" /\ sig' = "ready"
    /\ UNCHANGED <<launch, params, agent, store, reqVars>>

(* The port is taken, or there is no certificate for gRPC, whose server     *)
(* returns the error; the HTTP server waits for idleConnsClosed first, that *)
(* is, for a signal.                                                        *)
ListenFails ==
    /\ main = "listen"
    /\ main' = IF GRPC THEN "close" ELSE "wait"
    /\ UNCHANGED <<launch, params, agent, lis, sig, store, reqVars>>

(* Shutdown or GracefulStop begins; without signal.Notify the process dies. *)
(* Later signals go unread.                                                 *)
Signal ==
    /\ Up
    /\ \/ /\ sig = "ready" /\ sig' = "draining"
          /\ lis' = IF lis = "open" THEN "closed" ELSE lis
          /\ UNCHANGED main
       \/ sig = "none" /\ main' = "killed" /\ UNCHANGED <<sig, lis>>
    /\ UNCHANGED <<launch, params, agent, store, reqVars>>

(* All requests are answered; idleConnsClosed is closed. *)
Drained ==
    /\ Up /\ sig = "draining" /\ \A r \in Slots : ~Active(r)
    /\ sig' = "done"
    /\ UNCHANGED <<main, launch, params, agent, lis, store, reqVars>>

(* Serve returns as soon as the listener is closed. *)
Served ==
    /\ main = "serve" /\ lis = "closed"
    /\ main' = "wait"
    /\ UNCHANGED <<launch, params, agent, lis, sig, store, reqVars>>

(* Mutated form of Waited: Run returns when Serve does. *)
WaitedForNothing ==
    /\ main = "wait"
    /\ main' = "close"
    /\ UNCHANGED <<launch, params, agent, lis, sig, store, reqVars>>

(* <-idleConnsClosed *)
Waited ==
    /\ main = "wait" /\ sig = "done"
    /\ main' = "close"
    /\ UNCHANGED <<launch, params, agent, lis, sig, store, reqVars>>

(* The deferred Close; with Run the process ends. *)
Close ==
    /\ main = "close"
    /\ \/ store \in {"open", "locked"} /\ store' = "closed" /\ UNCHANGED main
       \/ store = "closed" /\ main' = "exited" /\ UNCHANGED store
    /\ UNCHANGED <<launch, params, agent, lis, sig, reqVars>>

-----------------------------------------------------------------------------
Clients == AgentRequests(agent, AgentIp) \cup OtherRequests

(* A request of the transport the server speaks; gRPC takes the key, with   *)
(* a certificate, for TLS, which both sides must want.                     *)
Reaches(q) ==
    ByGRPC(q) = GRPC /\ (GRPC /\ q.by = "agent" => agent.CryptoKey = params.CryptoKey)

(* Also a connection that was accepted before the signal can still have a  *)
(* request while the server drains.  Its header comes first.               *)
Arrive(r, q) ==
    /\ Up /\ ~Active(r) /\ requests < MaxRequests
    /\ lis = "open" \/ (lis = "closed" /\ sig = "draining")
    /\ Reaches(q)
    /\ slot' = [slot EXCEPT ![r] = [Idle EXCEPT !.req = q, !.chain = Chain(q)]]
    /\ requests' = requests + 1
    /\ UNCHANGED <<process, keyVars>>

(* The rest comes when the client sends it: the server sets no ReadTimeout. *)
BodyArrives(r) ==
    /\ Up /\ Active(r) /\ ~slot[r].whole
    /\ slot' = [slot EXCEPT ![r].whole = TRUE]
    /\ UNCHANGED <<process, keyVars, requests>>

(* Or the client is gone, and the layer that reads fails. *)
ClientLeaves(r) ==
    /\ Up /\ Active(r) /\ ~slot[r].whole
    /\ ReadsBody(slot[r].req, slot[r].chain[1], params)
    /\ slot[r].chain[1] = "decrypt" => once = "done"
    /\ slot' = [slot EXCEPT ![r].chain = <<>>, ![r].status = "failed", ![r].fault = TRUE]
    /\ UNCHANGED <<process, keyVars, requests>>

(* Mutated form of Passed: no return after the answer. *)
PassedOn(r, verdict) ==
    CASE verdict = "pass" -> [slot EXCEPT ![r].chain = Tail(@)]
      [] verdict = "peel" -> [slot EXCEPT ![r].chain = Tail(@),
                                          ![r].req.layers = Tail(@)]
      [] verdict = "call" -> [slot EXCEPT ![r].chain = <<"storage">>]
      [] OTHER -> [slot EXCEPT ![r].chain = Tail(@), ![r].status = verdict]

(* What a layer makes of the request: it passes it on, as it is or without *)
(* its outer encoding, answers it, or panics, which net/http survives and  *)
(* gRPC does not.                                                          *)
Passed(r, verdict) ==
    CASE verdict = "pass" -> [slot EXCEPT ![r].chain = Tail(@)]
      [] verdict = "peel" -> [slot EXCEPT ![r].chain = Tail(@),
                                          ![r].req.layers = Tail(@)]
      [] verdict = "call" -> [slot EXCEPT ![r].chain = <<"storage">>]
      [] verdict = "panic" -> [slot EXCEPT ![r].chain = <<>>, ![r].status = "aborted"]
      [] OTHER -> [slot EXCEPT ![r].chain = <<>>, ![r].status = verdict]

At(r, name) == Up /\ Active(r) /\ slot[r].chain[1] = name
Ready(r, name) ==
    At(r, name) /\ (ReadsBody(slot[r].req, name, params) => slot[r].whole)

Layer(r, name, verdict) ==
    /\ At(r, name)
    /\ slot' = Passed(r, verdict)
    /\ main' = IF verdict = "panic" /\ GRPC THEN "panicked" ELSE main
    /\ UNCHANGED <<launch, params, agent, lis, sig, store, requests>>

AtIp(r) ==
    /\ Ready(r, "ip")
    /\ Layer(r, "ip", CheckIp(slot[r].req, params.TrustedSubnet))
    /\ UNCHANGED keyVars
AtGunzip(r) ==
    /\ Ready(r, "gunzip")
    /\ Layer(r, "gunzip", Gunzip(slot[r].req))
    /\ UNCHANGED keyVars
AtSignature(r) ==
    /\ Ready(r, "signature")
    /\ Layer(r, "signature", CheckSignature(slot[r].req, params.SecretKey))
    /\ UNCHANGED keyVars

(* once.Do: the first goroutine loads the key, others wait for it.  An      *)
(* error is seen by the first alone: after it the key is nil for good.  A   *)
(* file that is no PEM is a panic, and done all the same.                   *)
BeginLoad(r) ==
    /\ At(r, "decrypt")
    /\ params.CryptoKey # "" /\ once = "fresh"
    /\ once' = "loading" /\ loader' = r
    /\ UNCHANGED <<process, key, slot, requests>>

LoadFails(r) ==
    /\ once = "loading" /\ loader = r /\ params.CryptoKey \in Unreadable
    /\ once' = "done" /\ loader' = Spare
    /\ Layer(r, "decrypt", IF params.CryptoKey = "missing" THEN "failed" ELSE "panic")
    /\ UNCHANGED key

Load(r) ==
    /\ Up /\ once = "loading" /\ loader = r /\ params.CryptoKey \notin Unreadable
    /\ once' = "done" /\ loader' = Spare /\ key' = params.CryptoKey
    /\ UNCHANGED <<process, slot, requests>>

AtDecrypt(r) ==
    /\ Ready(r, "decrypt")
    /\ (params.CryptoKey = "" \/ once = "done")
    /\ Layer(r, "decrypt", IF params.CryptoKey = "" THEN "pass"
                           ELSE Decrypt(slot[r].req, key))
    /\ UNCHANGED keyVars

(* Mutated form of AtHandler: a batch is stored as it is decoded. *)
AtHandlerDecoding(r) ==
    LET bad == SelectInSeq(slot[r].req.items, LAMBDA i : i # "good")
    IN  /\ Ready(r, "handler")
        /\ slot' = [Passed(r, Verdict(slot[r].req)) EXCEPT
                        ![r].stored = IF bad = 0 THEN 0 ELSE bad - 1]
        /\ UNCHANGED <<process, keyVars, requests>>

(* UpdateJSON, Update, Updates, ValueJSON, Value and their gRPC likes up to *)
(* the storage call: nothing is stored of a request that is turned down.   *)
AtHandler(r) ==
    /\ Ready(r, "handler")
    /\ Layer(r, "handler", Verdict(slot[r].req))
    /\ UNCHANGED keyVars

Answered(r, status, n, fault) ==
    [slot EXCEPT ![r].chain = <<>>, ![r].status = status, ![r].stored = n, ![r].fault = fault]

(* The storage call and the answer; a reader may find nothing.  Behind a   *)
(* locked mutex a call never returns.                                      *)
AtStorage(r) ==
    /\ At(r, "storage") /\ (store = "locked" => ~TakesMutex(slot[r].req))
    /\ IF Writes(slot[r].req) THEN slot' = Answered(r, "ok", Len(slot[r].req.items), FALSE)
       ELSE \E status \in {"ok", "missing", "failed"} : slot' = Answered(r, status, 0, FALSE)
    /\ UNCHANGED <<process, keyVars, requests>>

(* Update and Insert of one metric, a batch and a backup can fail with part *)
(* of it done or all of it, and panic if the stored metric is of another    *)
(* type: main is gone with it, or an HTTP server goes on with the mutex     *)
(* locked, as it does when Update is not given a value (see MemStorage).    *)
StorageFails(r) ==
    LET q == slot[r].req
    IN  /\ At(r, "storage") /\ Writes(q) /\ (store = "locked" => ~TakesMutex(q))
        /\ \E n \in 0 .. Len(q.items), status \in {"failed", "aborted"} :
            /\ slot' = Answered(r, status, n, TRUE)
            /\ main' = IF status = "aborted" /\ GRPC THEN "panicked" ELSE main
            /\ \/ UNCHANGED store
               \/ /\ ~GRPC /\ (status = "failed" => "hollow" \in ToSet(q.items))
                  /\ store' = "locked"
        /\ UNCHANGED <<launch, params, agent, lis, sig, keyVars, requests>>

-----------------------------------------------------------------------------
Main == Configure \/ Open \/ Listen \/ ListenFails \/ Served \/ Waited \/ Close
Serving(r) ==
    \/ AtIp(r) \/ AtGunzip(r) \/ AtSignature(r) \/ BeginLoad(r) \/ Load(r)
    \/ LoadFails(r) \/ AtDecrypt(r) \/ AtHandler(r) \/ AtStorage(r) \/ StorageFails(r)

Next ==
    \/ Main \/ Signal \/ Drained
    \/ \E r \in Slots :
        \/ \E q \in Clients : Arrive(r, q)
        \/ BodyArrives(r) \/ ClientLeaves(r)
        \/ Serving(r)

Spec == Init /\ [][Next]_vars

(* Every goroutine that can run is run.  Of a request only when all of it  *)
(* is there, for net/http reads a body to its end before it answers; that  *)
(* clients send theirs is not assumed.  A storage call returns unless it   *)
(* finds the mutex locked.                                                 *)
Fairness ==
    /\ WF_vars(Main) /\ WF_vars(Drained)
    /\ \A r \in Slots : WF_vars(slot[r].whole /\ Serving(r))
FairSpec == Spec /\ Fairness

-----------------------------------------------------------------------------
(* The types of the state. *)
TypeOK ==
    /\ main \in {"config", "open", "listen", "serve", "wait", "close",
                 "exited", "panicked", "killed"}
    /\ params # <<>> => DOMAIN params = DOMAIN ServerTag
    /\ lis \in {"none", "open", "closed"}
    /\ sig \in {"none", "ready", "draining", "done"}
    /\ store \in {"none", "open", "locked", "closed"}
    /\ once \in {"fresh", "loading", "done"}
    /\ once = "loading" <=> loader \in Slots
    /\ once # "done" => key = "nil"
    /\ requests \in 0 .. MaxRequests
    /\ \A r \in Slots :
        /\ slot[r].req # Spare => slot[r].req \in Request
        /\ Active(r) => slot[r].status = "none" /\ slot[r].stored = 0
        /\ slot[r].status \in {"none", "ok", "invalid", "unsupported", "missing",
                               "forbidden", "failed", "aborted"}

(* The agent's and the server's settings agree on what the agent sends to  *)
(* this route.  A batch by HTTP has no X-Real-IP, so a trusted subnet keeps *)
(* even its own agents out; only a single metric is encrypted, only a      *)
(* batch is signed.                                                        *)
Agree(route) ==
    /\ params.TrustedSubnet # "" =>
            params.TrustedSubnet = AgentIp /\ route # "Updates"
    /\ route = "UpdateJSON" => agent.CryptoKey = params.CryptoKey
    /\ route # "UpdateJSON" => params.SecretKey \in {"", agent.SecretKey}

(* A batch by HTTP that is sent before the first poll is stored is null,   *)
(* and never accepted; by gRPC an empty batch is a message like others.     *)
Acceptable(q) == Agree(q.route) /\ (q.route = "Updates" => q.items # <<>>)

(* The answer says what became of the request: refused, and nothing of it  *)
(* is stored, however much of a batch was well-formed; accepted, and all   *)
(* of it is.  A report of the agent's that is not failed by its client or  *)
(* by the storage is accepted exactly when the settings of both sides       *)
(* agree and it is no empty batch by HTTP, whatever layers it passes in     *)
(* whatever company: also while another request loads the key.             *)
AnswersTellTheTruth ==
    \A r \in Slots :
        LET q == slot[r].req
        IN  /\ slot[r].status \in {"invalid", "unsupported", "missing", "forbidden"}
                    => slot[r].stored = 0
            /\ slot[r].status = "ok" /\ Writes(q) => slot[r].stored = Len(q.items)
            /\ slot[r].status # "none" /\ ~slot[r].fault /\ q.by = "agent"
                    => (slot[r].status = "ok" <=> Acceptable(q))

(* The storage is open for as long as a request is under way: Close comes  *)
(* after the last handler, however Serve, the signal and the drain race.   *)
(* HybridStorage's final backup relies on it.                              *)
NoHandlerAfterClose ==
    \A r \in Slots : Active(r) /\ Up => store \in {"open", "locked"}

(* If no client leaves its request unfinished for ever, then a signal      *)
(* brings the server to its end, through Close, wherever it is: before it   *)
(* listens, when it could not listen, with requests that wait for a key    *)
(* that can not be loaded, with some that still arrive.  Two things may    *)
(* come between: the mutex of the storage is left locked, or a request     *)
(* panics in a gRPC server.                                                *)
Ended == (main = "exited" /\ store = "closed") \/ (main = "panicked" /\ sig # "none" /\ GRPC)
Stalled(r) == Active(r) /\ ~slot[r].whole
SignalledStops ==
    (\A r \in Slots : []<>~Stalled(r)) => (sig = "draining" ~> Ended \/ store = "locked")

(* Where a setting comes from: the environment, else the file the launch   *)
(* names, else the flag.  One escapes: no name in the file is that of       *)
(* StoreInterval, which is filed under "restore", and a truth value there   *)
(* is a panic.                                                             *)
Filed(l, s) ==
    IF FileName(l) = "" \/ ServerTag[s] \notin DOMAIN l.file THEN Unset
    ELSE l.file[ServerTag[s]]
SettingsInOrder ==
    [][main = "config" /\ main' = "open" =>
        \A s \in DOMAIN ServerTag :
            params'[s] = IF launch.env[s] \notin {Unset, ""} THEN launch.env[s]
                         ELSE IF Filed(launch, s) # Unset THEN Filed(launch, s)
                         ELSE launch.flag[s]]_vars
=============================================================================
