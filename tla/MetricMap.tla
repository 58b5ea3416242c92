------------------------------ MODULE MetricMap ------------------------------
(***************************************************************************)
(* What the storage promises to the requests that race on it, with no      *)
(* mutex, no pointers and no protocol: each update takes effect at one     *)
(* instant.  A known name only changes by an update of its own type; a     *)
(* name is (re)created at most once by each client, so it stops changing   *)
(* identity once the clients that raced for it are done.                   *)
(***************************************************************************)
EXTENDS MetricValues

CONSTANTS
    Clients,
    Main        \* who creates the names the map starts with

VARIABLES
    store,      \* the metric of each name, Absent when it has none
    creators    \* for each name, the clients that have created it

mapVars == <<store, creators>>

Init ==
    /\ store \in [Names -> Metric \cup {Absent}]
    /\ creators = [n \in Names |-> IF store[n] = Absent THEN {} ELSE {Main}]

(* A client creates a name.  Another may have created it a moment before: *)
(* its metric is then replaced.                                           *)
Create(c, n, m) ==
    /\ c \notin creators[n]
    /\ store' = [store EXCEPT ![n] = m]
    /\ creators' = [creators EXCEPT ![n] = @ \cup {c}]

(* A client updates a name the map holds, with a value of its type. *)
Bump(n, v) ==
    /\ store[n].type = v.type
    /\ store' = [store EXCEPT ![n] = Updated(@, v)]
    /\ UNCHANGED creators

Next ==
    \E n \in Names, m \in Metric :
        \/ \E c \in Clients : Create(c, n, m)
        \/ Bump(n, m)

Spec == Init /\ [][Next]_mapVars
=============================================================================
