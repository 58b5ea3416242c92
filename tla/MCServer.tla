------------------------------ MODULE MCServer ------------------------------
(* Instances of Server for TLC. *)
EXTENDS Server, TLC

CONSTANTS r1, r2

Net == "10.0.0.0/8"
Defaults(tag) == [s \in DOMAIN tag |->
    IF s = "UseGRPC" THEN "false" ELSE IF s = "StoreInterval" THEN "300" ELSE ""]
Blank(tag) == [s \in DOMAIN tag |-> Unset]

Plain(tag, flag) == [flag |-> flag, env |-> Blank(tag), file |-> <<>>,
                     config |-> "", CONFIG |-> Unset]

(* Everything off, each setting alone, everything on. *)
ByFlag ==
    LET F(g, k, c, t) == [Defaults(ServerTag) EXCEPT !.UseGRPC = g, !.SecretKey = k,
                                                     !.CryptoKey = c, !.TrustedSubnet = t]
    IN  { F(g, "", "", "") : g \in {"false", "true"} }
        \cup { F(g, "k1", "", "") : g \in {"false", "true"} }
        \cup { F("false", "", c, "") : c \in {"pair", "missing", "no PEM"} }
        \cup { F("false", "", "", t) : t \in {Net, "192.168.0.0/16", "no CIDR"} }
        \cup { F("true", "", "", t) : t \in {Net, "no CIDR"} }
        \cup { F("true", "k1", c, "") : c \in {"pair", "missing"} }
        \cup { F("false", "k1", "pair", Net) }

(* A setting in two or three places at once, with a file or without; the   *)
(* first unary call ends these servers, whose requests are those of ByFlag. *)
ByFile ==
    { [flag |-> [Defaults(ServerTag) EXCEPT !.SecretKey = "k3", !.UseGRPC = "true",
                                            !.TrustedSubnet = "no CIDR"],
       env |-> [Blank(ServerTag) EXCEPT !.SecretKey = e],
       file |-> f, config |-> c, CONFIG |-> C] :
        e \in {Unset, "", "k2"}, c \in {"", "config.json"},
        C \in {Unset, "", "config.json"},
        f \in { [crypto_key |-> "pair"], ("restore" :> "true"), ("restore" :> "0"),
                ("SecretKey" :> "k1"), ("store_interval" :> "0") } }

Launches == { Plain(ServerTag, f) : f \in ByFlag } \cup ByFile

(* The server's keys, none of them, or one that is wrong. *)
Agents ==
    LET A(g, k, c) == Plain(AgentTag, [UseGRPC |-> g, SecretKey |-> k, CryptoKey |-> c])
    IN  {A("false", "k1", ""), A("false", "k1", "pair"), A("false", "k2", "other"),
         A("true", "k1", ""), A("true", "k2", "pair")}

Foreign(route, json, layers, items) ==
    [route |-> route, by |-> "other", json |-> json, zip |-> TRUE, ip |-> Net,
     layers |-> layers, signature |-> Sign(<<>>, "k1"), items |-> items]

Others ==
    { Foreign("UpdateJSON", FALSE, <<"gzip">>, <<"good">>),
      Foreign("Updates", TRUE, <<"gzip">>, <<"good", "unnamed">>),
      Foreign("UpdateJSON", TRUE, <<"gzip">>, <<"hollow">>),
      Foreign("Index", FALSE, <<"gzip">>, <<>>),
      Foreign("gGet", FALSE, <<>>, <<"unnamed">>),
      Foreign("gList", FALSE, <<>>, <<>>),
      Foreign("Value", FALSE, <<"garbage">>, <<"unnamed">>),
      Foreign("gUpdate", FALSE, <<>>, <<"good">>),
      Foreign("gBatchUpdate", FALSE, <<>>, <<"good", "untyped">>),
      Foreign("gBatchUpdate", FALSE, <<>>, <<"good", "hollow">>) }
=============================================================================
