----------------------------- MODULE MCDBStorage -----------------------------
(* Instances of DBStorage for TLC. *)
EXTENDS DBStorage

CONSTANTS c1, c2, n1, n2, n3, f1

Add(n, d)   == [id |-> n, value |-> [type |-> "counter", val |-> d]]
SetTo(n, f) == [id |-> n, value |-> [type |-> "gauge", val |-> f]]

(* n1 only counts, n2 gets a value of each type, n3 is too long. *)
SingleUpdates == { Add(n1, 1), SetTo(n2, f1), Add(n3, 1) }

(* Two rows in both orders, a row twice, and an item without a value. *)
BatchUpdates ==
    { <<Add(n1, 1), Add(n2, 1), Add(n1, -1)>>,
      <<Add(n2, -1), [id |-> n1, value |-> Nil]>>,
      <<Add(n2, -1), Add(n1, 1)>> }
=============================================================================
