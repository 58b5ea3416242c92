--------------------------- MODULE MCHybridStorage ---------------------------
(* Instances of HybridStorage for TLC. *)
EXTENDS HybridStorage, TLC

CONSTANTS c1, c2, n1, n2, f1, nan

Symmetry == Permutations(Callers)

(* The state without what no later step and no property of the run reads:  *)
(* the history, the places of the metrics in the heap and the metrics that *)
(* were replaced (by NoAlias a name's metric is its own), the position of  *)
(* the file while nobody is about to write at it.                          *)
LiveState ==
    << Shown, mu, up, pc, todo, ranging, phase, file, stored, backupVars,
       IF \E a \in Actors : bpc[a] \in {"ranging", "writing"} THEN offset ELSE 0 >>

Delta(n, d) == [id |-> n, value |-> [type |-> "counter", val |-> d]]
SetTo(n, f) == [id |-> n, value |-> [type |-> "gauge", val |-> f]]

(* A counter, a gauge, and both in one batch. *)
TypedBatches ==
    { <<Delta(n1, 1)>>, <<SetTo(n2, f1)>>, <<Delta(n1, 1), SetTo(n2, f1)>> }

(* Single requests, one of them with a value JSON has no text for. *)
SingleBatches == { <<Delta(n1, -1)>>, <<SetTo(n2, f1)>>, <<SetTo(n2, nan)>> }

(* The URL handler accepts NaN for a gauge. *)
NaNBatches == { <<Delta(n1, 1)>>, <<SetTo(n2, nan)>> }

(* The value left out of a JSON request. *)
NilBatches == { <<Delta(n1, 1)>>, <<[id |-> n1, value |-> Nil]>> }

(* The file the server finds at first: none, or one with the name n2 twice. *)
Files == { <<>>, << [id |-> n2, value |-> [type |-> "gauge", val |-> f1]],
                    [id |-> n1, value |-> [type |-> "counter", val |-> 0]],
                    [id |-> n2, value |-> [type |-> "gauge", val |-> f1]] >> }
NoFile == { <<>> }
=============================================================================
