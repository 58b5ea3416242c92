------------------------------- MODULE MCAgent -------------------------------
(* Instances of Agent for TLC. *)
EXTENDS Agent

CONSTANTS mem, extra, Alloc, PollCount, TotalMemory

(* A gauge and PollCount from one collector, a gauge from the other. *)
TwoCollectors ==
    [k \in {mem, extra} |->
        IF k = mem THEN <<Alloc, PollCount>> ELSE <<TotalMemory>>]

(* Batches, a worker, and the flag -l=-1. *)
Limits == {-1, 0, 1}

TwoAndOne == [k \in {mem, extra} |-> IF k = mem THEN 2 ELSE 1]
Readings == 1 .. 2
=============================================================================
