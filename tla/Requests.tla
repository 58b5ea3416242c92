------------------------------ MODULE Requests ------------------------------
(***************************************************************************)
(* The requests of an agent and of other clients, and what each layer of    *)
(* the server makes of one (access, compress, encrypt, signing, and the    *)
(* checks of handlers and grpc/server).  A body is the encodings around    *)
(* its items, the outermost first: "gzip", the name of the key pair it is   *)
(* encrypted with, "garbage", or "null", which is JSON but no array; a     *)
(* signature remembers its key and what it was made over.                  *)
(***************************************************************************)
EXTENDS Sequences, FiniteSets, SequencesExt

CONSTANTS
    KeyPairs,   \* the names of the files of key pairs that can be read
    SecretKeys  \* the keys of signatures

Unreadable == {"missing", "no PEM"}    \* other names of such files

ASSUME KeyPairsAssumption ==
    KeyPairs \cap (Unreadable \cup {"", "nil", "gzip", "garbage", "null"}) = {}

Encodings == {"gzip", "garbage", "null"} \cup KeyPairs

(* Items: well-formed, without a name, of no metric type, without a value  *)
(* (in a message of gRPC: without one of its parts).                       *)
ItemKinds == {"good", "unnamed", "untyped", "hollow"}

NoSignature == [key |-> "", over |-> <<>>]
Sign(layers, key) == [key |-> key, over |-> layers]
IsValid(sig, layers, key) == sig.key = key /\ sig.over = layers

(* json: the Content-Type; zip: the Content-Encoding says gzip;            *)
(* ip: X-Real-IP, or the peer's address.                                   *)
Request ==
    [route : {"UpdateJSON", "Update", "Updates", "ValueJSON", "Value", "Index", "Ping",
              "gUpdate", "gBatchUpdate", "gGet", "gList"},
     by : {"agent", "other"}, json : BOOLEAN, zip : BOOLEAN,
     ip : {"", "10.0.0.0/8", "192.168.0.0/16"},
     layers : Seq(Encodings),
     signature : [key : SecretKeys \cup {""}, over : Seq(Encodings)],
     items : Seq(ItemKinds)]

ByGRPC(q) == q.route \in {"gUpdate", "gBatchUpdate", "gGet", "gList"}

(* What compressing and encrypting do to the layers around a body. *)
GzipToBuffer(layers) == <<"gzip">> \o layers
EncryptBody(layers, pair) == <<pair>> \o layers

(* sendMetric: encrypted, then compressed; not signed. *)
SingleReport(a, ip) ==
    [route |-> "UpdateJSON", by |-> "agent", json |-> TRUE, zip |-> TRUE, ip |-> ip,
     layers |-> GzipToBuffer(IF a.CryptoKey # "" THEN EncryptBody(<<>>, a.CryptoKey)
                             ELSE <<>>),
     signature |-> NoSignature, items |-> <<"good">>]

(* What the store of an agent holds: nothing before the first poll is      *)
(* applied, then metrics; two stand for any number.                        *)
Batches == {<<>>, <<"good", "good">>}

(* The body of a batch: a slice that was never appended to is nil.          *)
Marshal(items) == IF items = <<>> THEN <<"null">> ELSE <<>>

(* sendReportInBatch: signed, then compressed; no address, not encrypted. *)
BatchReport(a, items) ==
    [route |-> "Updates", by |-> "agent", json |-> TRUE, zip |-> TRUE, ip |-> "",
     layers |-> GzipToBuffer(Marshal(items)),
     signature |-> IF a.SecretKey # "" THEN Sign(Marshal(items), a.SecretKey) ELSE NoSignature,
     items |-> items]

(* sendReportInBatchGRPC: gRPC itself compresses and knows the address. *)
BatchReportGRPC(a, ip, items) ==
    [route |-> "gBatchUpdate", by |-> "agent", json |-> FALSE, zip |-> FALSE, ip |-> ip,
     layers |-> <<>>,
     signature |-> IF a.SecretKey # "" THEN Sign(<<>>, a.SecretKey) ELSE NoSignature,
     items |-> items]

(* What an agent can send.  A single metric never leaves an agent that     *)
(* uses gRPC: sendMetricGRPC assigns through a nil Delta and panics.        *)
AgentRequests(a, ip) ==
    IF a.UseGRPC = "true" THEN { BatchReportGRPC(a, ip, items) : items \in Batches }
    ELSE {SingleReport(a, ip)} \cup { BatchReport(a, items) : items \in Batches }

-----------------------------------------------------------------------------
(* Mutated form of Chain: the body is decrypted before it is decompressed. *)
ChainDecryptFirst(q) ==
    IF q.route = "UpdateJSON" THEN <<"ip", "decrypt", "gunzip", "handler">>
    ELSE IF q.route = "Updates" THEN <<"ip", "gunzip", "signature", "handler">>
    ELSE IF q.route = "gList" THEN <<"handler">>
    ELSE IF ByGRPC(q) THEN <<"ip", "signature", "handler">>
    ELSE <<"ip", "gunzip", "handler">>

(* GetRouter's middleware and the interceptors of runGRPCServer, in their  *)
(* order.  Interceptors are for unary calls, which List is not.            *)
Chain(q) ==
    IF q.route = "UpdateJSON" THEN <<"ip", "gunzip", "decrypt", "handler">>
    ELSE IF q.route = "Updates" THEN <<"ip", "gunzip", "signature", "handler">>
    ELSE IF q.route = "gList" THEN <<"handler">>
    ELSE IF ByGRPC(q) THEN <<"ip", "signature", "handler">>
    ELSE <<"ip", "gunzip", "handler">>

(* ValidateIp and its interceptor. *)
CheckIp(q, subnet) ==
    IF subnet = "" THEN "pass"
    ELSE IF subnet = "no CIDR" THEN "panic"
    ELSE IF q.ip = subnet THEN "pass" ELSE "forbidden"

(* GzipCompressing trusts the header. *)
Gunzip(q) ==
    IF ~q.zip THEN "pass"
    ELSE IF q.layers # <<>> /\ q.layers[1] = "gzip" THEN "peel" ELSE "failed"

(* What is not encrypted is no base64; DecryptPKCS1v15 with a nil key is a  *)
(* nil dereference, with the key of another pair an error.                 *)
Decrypt(q, key) ==
    IF q.layers = <<>> \/ q.layers[1] \in {"gzip", "garbage", "null"} THEN "failed"
    ELSE IF key = "nil" THEN "panic"
    ELSE IF q.layers[1] = key THEN "peel" ELSE "failed"

(* ValidateSignature for /updates, and its interceptor for BatchUpdate. *)
CheckSignature(q, key) ==
    IF key = "" \/ q.route \notin {"Updates", "gBatchUpdate"} THEN "pass"
    ELSE IF q.signature # NoSignature /\ IsValid(q.signature, q.layers, key) THEN "pass"
    ELSE "invalid"

(* The first item with such a flaw decides: decodeMetrics, UnmarshalJSON   *)
(* and BatchUpdate stop there.                                             *)
FirstFlaw(items, flaws) ==
    LET first == SelectInSeq(items, LAMBDA i : i \in flaws)
    IN  IF first = 0 THEN "none" ELSE items[first]

(* What a handler says before it asks the storage, "call" if it goes on: *)
(* UpdateJSON, ValueJSON and Updates, whose body has to be plain JSON, and *)
(* which do not miss a value: of null decodeMetrics meets the end where it *)
(* expects a bracket;                                                      *)
VerdictJSON(q) ==
    LET flaw == FirstFlaw(q.items, {"unnamed", "untyped"})
    IN  IF ~q.json THEN "unsupported"
        ELSE IF q.layers # <<>> \/ flaw = "untyped" THEN "invalid"
        ELSE IF flaw = "unnamed" THEN "missing" ELSE "call"

(* Update and Value, which find everything in the path;                    *)
VerdictPath(q) ==
    LET flaw == FirstFlaw(q.items, {"unnamed", "untyped", "hollow"})
    IN  IF q.route = "Update" /\ flaw = "untyped" THEN "invalid"
        ELSE IF flaw = "unnamed" \/ (q.route = "Update" /\ flaw = "hollow") THEN "missing"
        ELSE "call"

(* the methods of the gRPC server, which look into messages that may not   *)
(* be there.  BatchUpdate does not mind an empty name; Update hands the    *)
(* storage a message where a number is expected, whatever is stored.       *)
VerdictGRPC(q) ==
    LET flaw == FirstFlaw(q.items, {"unnamed", "untyped", "hollow"})
        inBatch == FirstFlaw(q.items, {"untyped", "hollow"})
    IN  CASE q.route = "gGet" -> IF flaw = "unnamed" THEN "missing"
                                 ELSE IF flaw = "hollow" THEN "panic" ELSE "call"
          [] q.route = "gBatchUpdate" -> IF inBatch = "untyped" THEN "failed"
                                         ELSE IF inBatch = "hollow" THEN "panic" ELSE "call"
          [] q.route = "gUpdate" -> IF flaw = "unnamed" THEN "missing"
                                    ELSE IF flaw = "untyped" THEN "invalid" ELSE "panic"
          [] OTHER -> "call"

Verdict(q) ==
    CASE q.route \in {"UpdateJSON", "Updates", "ValueJSON"} -> VerdictJSON(q)
      [] q.route \in {"Update", "Value"} -> VerdictPath(q)
      [] ByGRPC(q) -> VerdictGRPC(q)
      [] OTHER -> "call"

Writes(q) == q.route \in {"UpdateJSON", "Update", "Updates", "gBatchUpdate"}

(* GetAll, and a batch of nothing, do without MemStorage's mutex. *)
TakesMutex(q) == q.items # <<>> /\ q.route \notin {"Index", "Ping", "gList"}

(* Who reads the body: a method of gRPC is called when its message is      *)
(* there, the others read it themselves, if they get that far.             *)
ReadsBody(q, layer, params) ==
    \/ ByGRPC(q)
    \/ layer = "gunzip" /\ q.zip
    \/ layer = "decrypt" /\ params.CryptoKey # ""
    \/ layer = "signature" /\ params.SecretKey # "" /\ q.signature # NoSignature
    \/ layer = "handler" /\ q.json /\ q.route \in {"UpdateJSON", "Updates", "ValueJSON"}
=============================================================================
