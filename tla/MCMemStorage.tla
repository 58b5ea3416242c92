---------------------------- MODULE MCMemStorage ----------------------------
(* Instances of MemStorage for TLC. *)
EXTENDS MemStorage, TLC

CONSTANTS c1, c2, c3, r1, n1, n2, f1, f2

Symmetry == Permutations(Callers)

(* Int64 is -2 .. 1: one increment after another overflows. *)
Delta(n, d) == [id |-> n, value |-> [type |-> "counter", val |-> d]]
SetTo(n, f) == [id |-> n, value |-> [type |-> "gauge", val |-> f]]
NoValue(n)  == [id |-> n, value |-> Nil]

(* Requests that respect the type of each name: n1 counts, n2 is a gauge. *)
TypedBatches ==
    { <<Delta(n1, 1)>>, <<SetTo(n2, f1)>>,
      <<Delta(n1, -1), SetTo(n2, f2), Delta(n1, 1)>> }

(* Requests that do not: the name of a counter with a gauge's value, a *)
(* value left out, and a batch that fails after its first item.        *)
FaultyBatches ==
    { <<Delta(n1, 1)>>, <<SetTo(n1, f1)>>,
      <<Delta(n2, 1), NoValue(n1)>> }

(* main starts with nothing, or with a backup that names n2 twice. *)
Fresh == { <<>> }
Restored == { <<>>, << [id |-> n2, value |-> [type |-> "counter", val |-> 1]],
                       [id |-> n2, value |-> [type |-> "gauge", val |-> f1]] >> }
=============================================================================
