----------------------------- MODULE AtMostOnce -----------------------------
(***************************************************************************)
(* What the agent's senders promise about a report: the server applies it  *)
(* at most once, and a report that was answered well has been applied.  A  *)
(* report that failed may have been applied, or may be applied yet.        *)
(***************************************************************************)
EXTENDS Naturals

CONSTANT Reports

VARIABLES
    times,      \* how often the server has applied each report
    outcome     \* what the agent knows of it

Init ==
    /\ times = [r \in Reports |-> 0]
    /\ outcome = [r \in Reports |-> "open"]

Apply(r) ==
    /\ times[r] = 0
    /\ times' = [times EXCEPT ![r] = 1]
    /\ UNCHANGED outcome

Succeed(r) ==
    /\ outcome[r] = "open" /\ times[r] = 1
    /\ outcome' = [outcome EXCEPT ![r] = "ok"]
    /\ UNCHANGED times

Fail(r) ==
    /\ outcome[r] = "open"
    /\ outcome' = [outcome EXCEPT ![r] = "error"]
    /\ UNCHANGED times

Next == \E r \in Reports : Apply(r) \/ Succeed(r) \/ Fail(r)

Spec == Init /\ [][Next]_<<times, outcome>>
=============================================================================
